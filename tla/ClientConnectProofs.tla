------------------------ MODULE ClientConnectProofs ------------------------
(* Proofs of the safety properties of ClientConnect, for every set of      *)
(* callers and any number of connections and frames.                      *)
EXTENDS ClientConnect, SequenceTheorems, TLAPS

-----------------------------------------------------------------------------
(* The invariants                                                          *)

\* The client's lock is held exactly while connect_network dials and installs.
Locking == \A t \in Callers : pc[t] \in {"dial", "install"} <=> lock = t

\* Who is about to use a connection has one.
Holding ==
    /\ \A t \in Callers :
          pc[t] \in {"install", "wait", "reset", "frame", "raw", "prefixed", "hangup"}
              => conn[t] \in Conns
    /\ \A c \in Conns : rd[c] = "drop" => taken[c] \in Conns

Typing == TypeOK /\ Locking /\ Holding

Accepted == {"serve", "garbled", "closed"}

\* The handshake of a connection.  The server answers it once; an answer not read is
\* ahead of the watch channel; a reader that has the sender of the channel reads.
Shaken(c) ==
    /\ rd[c] = "none" <=> sock[c] = "none"
    /\ toClient[c] \in {<< >>, <<"accept">>, <<"refuse">>}
    /\ srv[c] = "verify" => toClient[c] = << >> /\ watch[c] \in {"reader", "closed"}
    /\ toClient[c] = <<"accept">> =>
          srv[c] \in Accepted /\ rd[c] # "hello" /\ watch[c] \in {"reader", "closed"}
    /\ toClient[c] = <<"refuse">> => srv[c] = "refused"
    /\ rd[c] = "hello" =>
          srv[c] \in Accepted /\ toClient[c] = << >> /\ watch[c] = "reader" /\ mode = 1
    /\ watch[c] \in {"task", "true", "failed"} =>
          srv[c] \in Accepted /\ rd[c] \notin {"none", "verify", "hello"} /\ mode = 1
    /\ watch[c] = "reader" => rd[c] \in {"none", "verify", "read", "hello"}
    /\ watch[c] = "closed" => rd[c] \in {"clean", "drop", "done"}

Handshake == \A c \in Conns : Shaken(c)

\* net is empty while a caller dials, and a connection that is about to enter it has its
\* reader; a channel to wait on is of a connection that was made.
Installing ==
    /\ \A t \in Callers :
          /\ pc[t] \in {"dial", "install"} => net = NoConn
          /\ pc[t] = "install" => rd[conn[t]] \in {"verify", "read", "hello", "clean"}
          /\ pc[t] = "wait" => rd[conn[t]] # "none"
    /\ connect_stats # NoConn => rd[connect_stats] # "none"

\* A caller was told only after the handshake was over, and of the mode then.
Told ==
    \A t \in Callers :
        told[t] => conn[t] \in Conns /\ watch[conn[t]] = "true" /\ pc[t] # "raw"

\* A frame whose sender was told is prefixed, and what follows it are calls.
Behind(q) ==
    \A i \in 1 .. Len(q) :
        q[i].told => q[i].prefixed /\ \A j \in i .. Len(q) : q[j].kind = "run"

AnyTold(q) == \E i \in 1 .. Len(q) : q[i].told

\* Such frames are under way only behind the handshake.
Queued ==
    \A c \in Conns :
        /\ Behind(toServer[c])
        /\ AnyTold(toServer[c]) => watch[c] = "true"

-----------------------------------------------------------------------------
(* Type correctness                                                        *)

PCs == {"idle", "lock", "dial", "install", "wait", "reset", "grab", "frame", "raw",
        "prefixed", "hangup"}

LEMMA InitTyping == Init => Typing
<1> SUFFICES ASSUME Init PROVE Typing
  OBVIOUS
<1>1. toServer \in [Conns -> Seq(Sent)] /\ toClient \in [Conns -> Seq(Got)]
  <2>1. << >> \in Seq(Sent) /\ << >> \in Seq(Got) BY EmptySeq
  <2>2. QED BY <2>1 DEF Init
<1>2. TypeOK BY <1>1, BoundsAssumption DEF Init, TypeOK, ConnIds, NoConn, Unanswered
<1>3. QED BY <1>2, FreeAssumption DEF Init, Typing, Locking, Holding

\* Where a caller goes next.
LEMMA GotoTypes ==
    ASSUME TypeOK, NEW t \in Callers, NEW label \in PCs, NEW c \in ConnIds,
           NEW up \in BOOLEAN, Goto(t, label, c, up)
    PROVE  /\ pc' \in [Callers -> PCs] /\ conn' \in [Callers -> ConnIds]
           /\ told' \in [Callers -> BOOLEAN]
           /\ \A u \in Callers :
                 /\ pc'[u] = IF u = t THEN label ELSE pc[u]
                 /\ conn'[u] = IF u = t THEN c ELSE conn[u]
                 /\ told'[u] = IF u = t THEN up ELSE told[u]
BY DEF TypeOK, Goto, PCs

\* A step that only moves a caller.
LEMMA MoveTyping ==
    ASSUME Typing, NEW t \in Callers, NEW label \in PCs, NEW c \in ConnIds,
           NEW up \in BOOLEAN, Goto(t, label, c, up),
           label \in {"dial", "install"} <=> pc[t] \in {"dial", "install"},
           label \in {"install", "wait", "reset", "frame", "raw", "prefixed", "hangup"}
              => c \in Conns,
           UNCHANGED <<lock, clientVars, runs, readerVars, wireVars>>
    PROVE  Typing'
<1> USE DEF clientVars, readerVars, wireVars
<1>1. /\ pc' \in [Callers -> PCs] /\ conn' \in [Callers -> ConnIds]
      /\ told' \in [Callers -> BOOLEAN]
      /\ \A u \in Callers :
            /\ pc'[u] = IF u = t THEN label ELSE pc[u]
            /\ conn'[u] = IF u = t THEN c ELSE conn[u]
  BY GotoTypes DEF Typing
<1>2. TypeOK' BY <1>1 DEF Typing, TypeOK, PCs
<1>3. Locking' BY <1>1 DEF Typing, Locking
<1>4. Holding' BY <1>1 DEF Typing, Holding
<1>5. QED BY <1>2, <1>3, <1>4 DEF Typing

LEMMA SentTypes ==
    /\ get_verify_buff \in Sent /\ get_session_id_buff \in Sent
    /\ \A p, u \in BOOLEAN : [kind |-> "run", prefixed |-> p, told |-> u] \in Sent
BY DEF get_verify_buff, get_session_id_buff, Sent

LEMMA WriteTypes ==
    ASSUME TypeOK, NEW c \in Conns, NEW f \in Sent, Write(c, f)
    PROVE  toServer' \in [Conns -> Seq(Sent)]
<1>1. Append(toServer[c], f) \in Seq(Sent) BY AppendProperties DEF TypeOK
<1>2. QED BY <1>1 DEF TypeOK, Write

LEMMA DisconnectedTypes ==
    ASSUME TypeOK, NEW c PROVE Disconnected(c) \in [Conns -> {"none", "open", "shut", "lost"}]
BY DEF TypeOK, Disconnected

LEMMA CallerTyping ==
    ASSUME Typing, NEW t \in Callers, Caller(t) PROVE Typing'
<1> USE DEF clientVars, callerVars, readerVars, wireVars
<1>ty. TypeOK /\ Locking /\ Holding BY DEF Typing
<1>no. NoConn \in ConnIds /\ net \in ConnIds /\ connect_stats \in ConnIds
       /\ conn[t] \in ConnIds /\ told[t] \in BOOLEAN /\ Conns \subseteq ConnIds
  BY <1>ty DEF TypeOK, ConnIds
<1>pc. {"idle", "lock", "dial", "install", "wait", "reset", "grab", "frame", "raw",
        "prefixed", "hangup"} = PCs
  BY DEF PCs
<1>is. is_connect => net \in Conns BY <1>no DEF is_connect, ConnIds
<1>1. CASE ConnectNetwork(t) BY <1>no, <1>pc, <1>1, MoveTyping DEF ConnectNetwork
<1>2. CASE Join(t)
  <2>1. connect_stats \in Conns BY <1>no, <1>2 DEF Join, ConnIds
  <2>2. QED BY <1>no, <1>pc, <1>2, <2>1, MoveTyping DEF Join
<1>3. CASE Assume(t) BY <1>no, <1>pc, <1>3, MoveTyping DEF Assume, Connected
<1>4. CASE StartDial(t)
  <2>1. /\ lock = Free /\ lock' = t /\ Goto(t, "dial", NoConn, FALSE)
        /\ UNCHANGED <<clientVars, runs, readerVars, wireVars>>
    BY <1>4 DEF StartDial, Unlocked
  <2>2. /\ pc' \in [Callers -> PCs] /\ conn' \in [Callers -> ConnIds]
        /\ told' \in [Callers -> BOOLEAN]
        /\ \A u \in Callers :
              /\ pc'[u] = IF u = t THEN "dial" ELSE pc[u]
              /\ conn'[u] = IF u = t THEN NoConn ELSE conn[u]
    BY <1>ty, <1>no, <2>1 DEF Goto, TypeOK, PCs
  <2>3. TypeOK' BY <1>ty, <2>1, <2>2 DEF TypeOK, PCs
  <2>4. Locking' BY <1>ty, <2>1, <2>2, FreeAssumption DEF Locking
  <2>5. Holding' BY <1>ty, <2>1, <2>2 DEF Holding
  <2>6. QED BY <2>3, <2>4, <2>5 DEF Typing
<1>5. CASE DialFails(t) \/ Cancel(t)
  <2>1. /\ lock' = IF lock = t THEN Free ELSE lock
        /\ Goto(t, "idle", NoConn, FALSE)
        /\ UNCHANGED <<clientVars, runs, readerVars, wireVars>>
    <3>1. CASE DialFails(t) BY <1>ty, <3>1 DEF DialFails, Ret, Locking
    <3>2. CASE Cancel(t) BY <3>2 DEF Cancel, Ret
    <3>3. QED BY <1>5, <3>1, <3>2
  <2>2. /\ pc' \in [Callers -> PCs] /\ conn' \in [Callers -> ConnIds]
        /\ told' \in [Callers -> BOOLEAN]
        /\ \A u \in Callers :
              /\ pc'[u] = IF u = t THEN "idle" ELSE pc[u]
              /\ conn'[u] = IF u = t THEN NoConn ELSE conn[u]
    BY <1>ty, <1>no, <2>1 DEF Goto, TypeOK, PCs
  <2>3. TypeOK' BY <1>ty, <2>1, <2>2 DEF TypeOK, PCs
  <2>4. Locking' BY <1>ty, <2>1, <2>2, FreeAssumption DEF Locking
  <2>5. Holding' BY <1>ty, <2>1, <2>2 DEF Holding
  <2>6. QED BY <2>3, <2>4, <2>5 DEF Typing
<1>6. CASE Install(t)
  <2>1. /\ pc[t] = "install" /\ lock' = Free /\ Goto(t, "wait", conn[t], FALSE)
        /\ net' = conn[t] /\ connect_stats' = conn[t]
        /\ UNCHANGED <<mode, runs, readerVars, wireVars>>
    BY <1>6 DEF Install, StatsOf
  <2>2. /\ pc' \in [Callers -> PCs] /\ conn' \in [Callers -> ConnIds]
        /\ told' \in [Callers -> BOOLEAN]
        /\ \A u \in Callers :
              /\ pc'[u] = IF u = t THEN "wait" ELSE pc[u]
              /\ conn'[u] = IF u = t THEN conn[t] ELSE conn[u]
    BY <1>ty, <1>no, <2>1 DEF Goto, TypeOK, PCs
  <2>3. TypeOK' BY <1>ty, <1>no, <2>1, <2>2 DEF TypeOK, PCs
  <2>4. Locking' BY <1>ty, <2>1, <2>2, FreeAssumption DEF Locking
  <2>5. Holding' BY <1>ty, <2>1, <2>2 DEF Holding
  <2>6. QED BY <2>3, <2>4, <2>5 DEF Typing
<1>7. CASE Changed(t)
  <2>1. conn[t] \in Conns BY <1>ty, <1>7 DEF Changed, Holding
  <2>2. QED BY <1>no, <1>pc, <1>7, <2>1, MoveTyping DEF Changed
<1>8. CASE Reset(t)
  <2>1. /\ pc[t] = "reset" /\ connect_stats' = NoConn
        /\ UNCHANGED <<lock, net, mode, runs, readerVars, wireVars>>
    BY <1>8 DEF Reset
  <2>2. PICK label \in {"grab", "idle"}, c \in ConnIds, up \in BOOLEAN : Goto(t, label, c, up)
    BY <1>no, <1>8 DEF Reset, Connected, Ret
  <2>3. /\ pc' \in [Callers -> PCs] /\ conn' \in [Callers -> ConnIds]
        /\ told' \in [Callers -> BOOLEAN]
        /\ \A u \in Callers :
              /\ pc'[u] = IF u = t THEN label ELSE pc[u]
              /\ conn'[u] = IF u = t THEN c ELSE conn[u]
    BY <1>ty, <2>2 DEF Goto, TypeOK, PCs
  <2>4. TypeOK' BY <1>ty, <1>no, <2>1, <2>3 DEF TypeOK, PCs
  <2>5. Locking' BY <1>ty, <2>1, <2>3 DEF Locking
  <2>6. Holding' BY <1>ty, <2>1, <2>3 DEF Holding
  <2>7. QED BY <2>4, <2>5, <2>6 DEF Typing
<1>9. CASE Call(t)
  <2>1. CASE Goto(t, "grab", conn[t], told[t])
    BY <1>no, <1>pc, <1>9, <2>1, MoveTyping DEF Call
  <2>2. CASE Goto(t, "lock", NoConn, FALSE)
    BY <1>no, <1>pc, <1>9, <2>2, MoveTyping DEF Call
  <2>3. QED BY <1>9, <2>1, <2>2 DEF Call
<1>10. CASE Grab(t)
  <2>1. CASE is_connect /\ Goto(t, "frame", net, told[t] /\ conn[t] = net)
    <3>1. PICK up \in BOOLEAN : up = (told[t] /\ conn[t] = net) OBVIOUS
    <3>2. Goto(t, "frame", net, up) BY <2>1, <3>1
    <3>3. QED BY <1>no, <1>pc, <1>is, <1>10, <2>1, <3>2, MoveTyping DEF Grab
  <2>2. CASE Ret(t) BY <1>no, <1>pc, <1>10, <2>2, MoveTyping DEF Grab, Ret
  <2>3. QED BY <1>10, <2>1, <2>2 DEF Grab
<1>11. CASE Frame(t)
  <2>1. conn[t] \in Conns BY <1>ty, <1>11 DEF Frame, Holding
  <2>2. PICK label \in {"raw", "prefixed"} : Goto(t, label, conn[t], told[t])
    BY <1>11 DEF Frame
  <2>3. QED BY <1>no, <1>pc, <1>11, <2>1, <2>2, MoveTyping DEF Frame
<1>12. CASE Send(t)
  <2>1. /\ pc[t] \in {"raw", "prefixed"} /\ Goto(t, "idle", NoConn, FALSE)
        /\ runs < MaxRuns /\ runs' = runs + 1
        /\ UNCHANGED <<lock, clientVars, readerVars, sock, toClient, srv>>
    BY <1>12 DEF Send, Ret
  <2>2. conn[t] \in Conns BY <1>ty, <2>1 DEF Holding
  <2>3. PICK p \in BOOLEAN, u \in BOOLEAN : p = (pc[t] = "prefixed") /\ u = told[t] BY <1>no
  <2>4. \/ Write(conn[t], [kind |-> "run", prefixed |-> p, told |-> u])
        \/ UNCHANGED toServer
    BY <1>12, <2>3 DEF Send
  <2>5. toServer' \in [Conns -> Seq(Sent)]
    BY <1>ty, <2>2, <2>4, SentTypes, WriteTypes DEF TypeOK
  <2>6. /\ pc' \in [Callers -> PCs] /\ conn' \in [Callers -> ConnIds]
        /\ told' \in [Callers -> BOOLEAN]
        /\ \A z \in Callers :
              /\ pc'[z] = IF z = t THEN "idle" ELSE pc[z]
              /\ conn'[z] = IF z = t THEN NoConn ELSE conn[z]
    BY <1>ty, <1>no, <2>1 DEF Goto, TypeOK, PCs
  <2>7. runs' \in 0 .. MaxRuns BY <1>ty, <2>1, BoundsAssumption DEF TypeOK
  <2>8. TypeOK' BY <1>ty, <2>1, <2>5, <2>6, <2>7 DEF TypeOK, PCs
  <2>9. Locking' BY <1>ty, <2>1, <2>6 DEF Locking
  <2>10. Holding' BY <1>ty, <2>1, <2>6 DEF Holding
  <2>11. QED BY <2>8, <2>9, <2>10 DEF Typing
<1>13. CASE Close(t)
  <2>1. /\ pc[t] = "idle" /\ net' = NoConn
        /\ UNCHANGED <<lock, connect_stats, mode, runs, readerVars, wireVars>>
    BY <1>13 DEF Close
  <2>2. PICK label \in {"hangup", "idle"}, c \in ConnIds :
           Goto(t, label, c, FALSE) /\ (label = "hangup" => c \in Conns)
    BY <1>no, <1>is, <1>13 DEF Close, Ret
  <2>3. /\ pc' \in [Callers -> PCs] /\ conn' \in [Callers -> ConnIds]
        /\ told' \in [Callers -> BOOLEAN]
        /\ \A u \in Callers :
              /\ pc'[u] = IF u = t THEN label ELSE pc[u]
              /\ conn'[u] = IF u = t THEN c ELSE conn[u]
    BY <1>ty, <2>2 DEF Goto, TypeOK, PCs
  <2>4. TypeOK' BY <1>ty, <1>no, <2>1, <2>3 DEF TypeOK, PCs
  <2>5. Locking' BY <1>ty, <2>1, <2>3 DEF Locking
  <2>6. Holding' BY <1>ty, <2>1, <2>2, <2>3 DEF Holding
  <2>7. QED BY <2>4, <2>5, <2>6 DEF Typing
<1>14. CASE HangUp(t)
  <2>1. /\ pc[t] = "hangup" /\ sock' = Disconnected(conn[t]) /\ Goto(t, "idle", NoConn, FALSE)
        /\ UNCHANGED <<lock, clientVars, runs, readerVars, toServer, toClient, srv>>
    BY <1>14 DEF HangUp, Ret
  <2>2. /\ pc' \in [Callers -> PCs] /\ conn' \in [Callers -> ConnIds]
        /\ told' \in [Callers -> BOOLEAN]
        /\ \A u \in Callers :
              /\ pc'[u] = IF u = t THEN "idle" ELSE pc[u]
              /\ conn'[u] = IF u = t THEN NoConn ELSE conn[u]
    BY <1>ty, <1>no, <2>1 DEF Goto, TypeOK, PCs
  <2>3. sock' \in [Conns -> {"none", "open", "shut", "lost"}]
    BY <1>ty, <2>1, DisconnectedTypes
  <2>4. TypeOK' BY <1>ty, <2>1, <2>2, <2>3 DEF TypeOK, PCs
  <2>5. Locking' BY <1>ty, <2>1, <2>2 DEF Locking
  <2>6. Holding' BY <1>ty, <2>1, <2>2 DEF Holding
  <2>7. QED BY <2>4, <2>5, <2>6 DEF Typing
<1>15. ASSUME NEW c \in Conns, DialSucceeds(t, c) PROVE Typing'
  <2>1. /\ pc[t] = "dial" /\ Goto(t, "install", c, FALSE)
        /\ sock' = [sock EXCEPT ![c] = "open"]
        /\ rd' = [rd EXCEPT ![c] = "verify"]
        /\ UNCHANGED <<lock, clientVars, runs, taken, watch, toServer, toClient, srv>>
    BY <1>15 DEF DialSucceeds, Step
  <2>2. /\ pc' \in [Callers -> PCs] /\ conn' \in [Callers -> ConnIds]
        /\ told' \in [Callers -> BOOLEAN]
        /\ \A u \in Callers :
              /\ pc'[u] = IF u = t THEN "install" ELSE pc[u]
              /\ conn'[u] = IF u = t THEN c ELSE conn[u]
    BY <1>ty, <1>no, <2>1 DEF Goto, TypeOK, PCs
  <2>3. TypeOK' BY <1>ty, <2>1, <2>2 DEF TypeOK, PCs
  <2>4. Locking' BY <1>ty, <2>1, <2>2 DEF Locking
  <2>5. Holding' BY <1>ty, <2>1, <2>2 DEF Holding, TypeOK
  <2>6. QED BY <2>3, <2>4, <2>5 DEF Typing
<1>16. QED
  BY <1>1, <1>2, <1>3, <1>4, <1>5, <1>6, <1>7, <1>8, <1>9, <1>10, <1>11, <1>12, <1>13,
     <1>14, <1>15
  DEF Caller

\* The phases of a reader and of a watch channel.
RDs     == {"none", "verify", "read", "hello", "clean", "drop", "done"}
Watches == {"reader", "task", "failed", "true", "false", "closed"}
SRVs    == {"verify", "refused", "serve", "garbled", "closed"}

LEMMA WriteOrEndTypes ==
    ASSUME TypeOK, NEW c \in Conns, NEW f \in Sent, WriteOrEnd(c, f)
    PROVE  /\ toServer' \in [Conns -> Seq(Sent)]
           /\ \E label \in {"read", "clean"} : rd' = [rd EXCEPT ![c] = label]
<1>1. CASE Write(c, f) /\ Step(c, "read") BY <1>1, WriteTypes DEF Step
<1>2. CASE Step(c, "clean") /\ UNCHANGED toServer BY <1>2 DEF Step, TypeOK
<1>3. QED BY <1>1, <1>2 DEF WriteOrEnd

LEMMA HungTypes == ASSUME TypeOK, NEW c \in Conns PROVE Hung(c) \in Watches
BY DEF TypeOK, Hung, Unanswered, Watches

LEMMA ReadsTypes ==
    ASSUME TypeOK, NEW c \in Conns, NEW kind, Reads(c, kind)
    PROVE  toClient' \in [Conns -> Seq(Got)]
<1>1. toClient[c] \in Seq(Got) /\ toClient[c] # << >> BY DEF TypeOK, Reads
<1>2. Tail(toClient[c]) \in Seq(Got) BY <1>1, HeadTailProperties
<1>3. QED BY <1>2 DEF TypeOK, Reads

LEMMA TakesTypes ==
    ASSUME TypeOK, NEW c \in Conns, NEW phase, Takes(c, phase)
    PROVE  toServer' \in [Conns -> Seq(Sent)]
<1>1. toServer[c] \in Seq(Sent) /\ toServer[c] # << >> BY DEF TypeOK, Takes
<1>2. Tail(toServer[c]) \in Seq(Sent) BY <1>1, HeadTailProperties
<1>3. QED BY <1>2 DEF TypeOK, Takes

LEMMA AnswersTypes ==
    ASSUME TypeOK, NEW c \in Conns, NEW kind \in Got, Answers(c, kind)
    PROVE  toClient' \in [Conns -> Seq(Got)]
<1>1. Append(toClient[c], kind) \in Seq(Got) BY AppendProperties DEF TypeOK
<1>2. QED BY <1>1 DEF TypeOK, Answers

\* What a step of a connection leaves of the types, its reader, task or server.
LEMMA ConnTypes ==
    ASSUME Typing, NEW c \in Conns, Reader(c) \/ Task(c) \/ Server(c) \/ Lose(c)
    PROVE  /\ UNCHANGED <<lock, connect_stats, callerVars>>
           /\ net' \in ConnIds /\ mode' \in {0, 1}
           /\ rd' \in [Conns -> RDs] /\ taken' \in [Conns -> ConnIds]
           /\ watch' \in [Conns -> Watches]
           /\ sock' \in [Conns -> {"none", "open", "shut", "lost"}]
           /\ toServer' \in [Conns -> Seq(Sent)] /\ toClient' \in [Conns -> Seq(Got)]
           /\ srv' \in [Conns -> SRVs]
           /\ \A d \in Conns : rd'[d] = "drop" => taken'[d] \in Conns
<1> USE DEF clientVars, readerVars, wireVars, RDs, Watches, SRVs
<1>ty. TypeOK BY DEF Typing
<1>dr. \A d \in Conns : rd[d] = "drop" => taken[d] \in Conns BY DEF Typing, Holding
<1>t. /\ net \in ConnIds /\ mode \in {0, 1}
      /\ rd \in [Conns -> RDs] /\ taken \in [Conns -> ConnIds]
      /\ watch \in [Conns -> Watches]
      /\ sock \in [Conns -> {"none", "open", "shut", "lost"}]
      /\ toServer \in [Conns -> Seq(Sent)] /\ toClient \in [Conns -> Seq(Got)]
      /\ srv \in [Conns -> SRVs]
  BY <1>ty DEF TypeOK, Unanswered
<1>s. << >> \in Seq(Sent) /\ << >> \in Seq(Got) BY EmptySeq
<1>1. CASE Verify(c) \/ Hello(c)
  <2>1. /\ toServer' \in [Conns -> Seq(Sent)]
        /\ \E label \in {"read", "clean"} : rd' = [rd EXCEPT ![c] = label]
    BY <1>ty, <1>1, SentTypes, WriteOrEndTypes DEF Verify, Hello
  <2>2. watch' \in [Conns -> Watches]
    BY <1>t, <1>ty, <1>1, HungTypes DEF Verify, Hello, Sets
  <2>3. UNCHANGED <<lock, clientVars, callerVars, taken, sock, toClient, srv>>
    BY <1>1 DEF Verify, Hello
  <2>4. rd' \in [Conns -> RDs] /\ \A d \in Conns : rd'[d] = "drop" => taken'[d] \in Conns
    BY <1>t, <1>dr, <2>1, <2>3
  <2>5. QED BY <1>t, <2>1, <2>2, <2>3, <2>4
<1>2. CASE ReadAccept(c)
  <2>1. toClient' \in [Conns -> Seq(Got)] BY <1>ty, <1>2, ReadsTypes DEF ReadAccept
  <2>2. /\ mode' = 1 /\ rd' = [rd EXCEPT ![c] = "hello"]
        /\ UNCHANGED <<lock, net, connect_stats, callerVars, taken,
                       watch, sock, toServer, srv>>
    BY <1>2 DEF ReadAccept, ModeOf, Step
  <2>3. rd' \in [Conns -> RDs] /\ \A d \in Conns : rd'[d] = "drop" => taken'[d] \in Conns
    BY <1>t, <1>dr, <2>2
  <2>4. QED BY <1>t, <2>1, <2>2, <2>3
<1>3. CASE ReadRefuse(c)
  <2>1. toClient' \in [Conns -> Seq(Got)] BY <1>ty, <1>3, ReadsTypes DEF ReadRefuse
  <2>2. /\ watch' = [watch EXCEPT ![c] = "false"] /\ rd' = [rd EXCEPT ![c] = "clean"]
        /\ UNCHANGED <<lock, clientVars, callerVars, taken, sock, toServer, srv>>
    BY <1>3 DEF ReadRefuse, Refused, Sets, Step
  <2>3. rd' \in [Conns -> RDs] /\ \A d \in Conns : rd'[d] = "drop" => taken'[d] \in Conns
    BY <1>t, <1>dr, <2>2
  <2>4. QED BY <1>t, <2>1, <2>2, <2>3
<1>4. CASE ReadEnds(c)
  <2>1. /\ rd' = [rd EXCEPT ![c] = "clean"] /\ watch' = [watch EXCEPT ![c] = Hung(c)]
        /\ UNCHANGED <<lock, clientVars, callerVars, taken, wireVars>>
    BY <1>4 DEF ReadEnds, Sets, Step
  <2>2. watch' \in [Conns -> Watches] BY <1>t, <1>ty, <2>1, HungTypes
  <2>3. rd' \in [Conns -> RDs] /\ \A d \in Conns : rd'[d] = "drop" => taken'[d] \in Conns
    BY <1>t, <1>dr, <2>1
  <2>4. QED BY <1>t, <2>1, <2>2, <2>3
<1>5. CASE Clean(c)
  <2>1. /\ net' = NoConn /\ taken' = [taken EXCEPT ![c] = net]
        /\ rd' = [rd EXCEPT ![c] = IF net # NoConn THEN "drop" ELSE "done"]
        /\ UNCHANGED <<lock, connect_stats, mode, callerVars, watch, wireVars>>
    BY <1>5 DEF Clean, Step, is_connect
  <2>2. net' \in ConnIds /\ taken' \in [Conns -> ConnIds] BY <1>t, <2>1 DEF ConnIds
  <2>3. rd' \in [Conns -> RDs] /\ \A d \in Conns : rd'[d] = "drop" => taken'[d] \in Conns
    BY <1>t, <1>dr, <2>1 DEF ConnIds
  <2>4. QED BY <1>t, <2>1, <2>2, <2>3
<1>6. CASE Drop(c)
  <2>1. /\ taken' = [taken EXCEPT ![c] = NoConn] /\ rd' = [rd EXCEPT ![c] = "done"]
        /\ sock' = Disconnected(taken[c])
        /\ UNCHANGED <<lock, clientVars, callerVars, watch, toServer, toClient, srv>>
    BY <1>6 DEF Drop, Step
  <2>2. sock' \in [Conns -> {"none", "open", "shut", "lost"}]
    BY <1>ty, <2>1, DisconnectedTypes
  <2>3. rd' \in [Conns -> RDs] /\ taken' \in [Conns -> ConnIds]
        /\ \A d \in Conns : rd'[d] = "drop" => taken'[d] \in Conns
    BY <1>t, <1>dr, <2>1 DEF ConnIds
  <2>4. QED BY <1>t, <2>1, <2>2, <2>3
<1>7. CASE Task(c)
  <2>1. /\ \E v \in Watches : watch' = [watch EXCEPT ![c] = v]
        /\ UNCHANGED sock \/ sock' = Disconnected(c)
        /\ UNCHANGED <<lock, clientVars, callerVars, rd, taken, toServer, toClient, srv>>
    BY <1>7 DEF Task, ConnectFunction, ConnectFailed, Sets
  <2>2. sock' \in [Conns -> {"none", "open", "shut", "lost"}]
    BY <1>t, <1>ty, <2>1, DisconnectedTypes
  <2>3. QED BY <1>t, <1>dr, <2>1, <2>2
<1>8. CASE ServerAccepts(c) \/ ServerRefuses(c)
  <2>1. toServer' \in [Conns -> Seq(Sent)]
    BY <1>t, <1>s, <1>ty, <1>8, TakesTypes DEF ServerAccepts, ServerRefuses
  <2>2. toClient' \in [Conns -> Seq(Got)]
    BY <1>ty, <1>8, AnswersTypes DEF ServerAccepts, ServerRefuses, Got
  <2>3. /\ \E v \in SRVs : srv' = [srv EXCEPT ![c] = v]
        /\ UNCHANGED <<lock, clientVars, callerVars, readerVars, sock>>
    BY <1>8 DEF ServerAccepts, ServerRefuses, Becomes
  <2>4. QED BY <1>t, <1>dr, <2>1, <2>2, <2>3
<1>9. CASE ServerReads(c)
  <2>1. toServer' \in [Conns -> Seq(Sent)] BY <1>ty, <1>9, TakesTypes DEF ServerReads
  <2>2. /\ UNCHANGED srv \/ srv' = [srv EXCEPT ![c] = "garbled"]
        /\ UNCHANGED <<lock, clientVars, callerVars, readerVars, sock, toClient>>
    BY <1>9 DEF ServerReads, Becomes
  <2>3. QED BY <1>t, <1>dr, <2>1, <2>2
<1>10. CASE ServerEnds(c) \/ Lose(c)
  <2>1. /\ toServer' = [toServer EXCEPT ![c] = << >>]
        /\ \E v \in SRVs : srv' = [srv EXCEPT ![c] = v]
        /\ UNCHANGED sock \/ sock' = [sock EXCEPT ![c] = "lost"]
        /\ UNCHANGED toClient \/ toClient' = [toClient EXCEPT ![c] = << >>]
        /\ UNCHANGED <<lock, clientVars, callerVars, readerVars>>
    BY <1>10 DEF ServerEnds, Lose, Closes, Becomes
  <2>2. toServer' \in [Conns -> Seq(Sent)] /\ toClient' \in [Conns -> Seq(Got)]
    BY <1>t, <1>s, <2>1
  <2>3. QED BY <1>t, <1>dr, <2>1, <2>2
<1>11. QED
  BY <1>1, <1>2, <1>3, <1>4, <1>5, <1>6, <1>7, <1>8, <1>9, <1>10 DEF Reader, Server

LEMMA TypingStep == Typing /\ [Next]_vars => Typing'
<1> SUFFICES ASSUME Typing, [Next]_vars PROVE Typing'
  OBVIOUS
<1>1. ASSUME NEW t \in Callers, Caller(t) PROVE Typing' BY <1>1, CallerTyping
<1>2. ASSUME NEW c \in Conns, Reader(c) \/ Task(c) \/ Server(c) \/ Lose(c)
      PROVE  Typing'
  <2>1. TypeOK'
    BY <1>2, ConnTypes DEF Typing, TypeOK, callerVars, RDs, Watches, SRVs, Unanswered
  <2>2. Locking' BY <1>2, ConnTypes DEF Typing, Locking, callerVars
  <2>3. Holding' BY <1>2, ConnTypes DEF Typing, Holding, callerVars
  <2>4. QED BY <2>1, <2>2, <2>3 DEF Typing
<1>3. CASE UNCHANGED vars
  BY <1>3 DEF vars, clientVars, callerVars, readerVars, wireVars, Typing, TypeOK,
              Locking, Holding
<1>4. QED BY <1>1, <1>2, <1>3 DEF Next

\* Every value of the state has its type; the lock is held exactly while connect_network
\* dials and installs; and who is about to use a connection has one.
THEOREM TypeCorrect == Spec => []TypeOK
<1>1. Spec => []Typing BY InitTyping, TypingStep, PTL DEF Spec
<1>2. Typing => TypeOK BY DEF Typing
<1>3. QED BY <1>1, <1>2, PTL

-----------------------------------------------------------------------------
(* The handshake                                                           *)

LEMMA OneAnswer ==
    /\ Append(<< >>, "accept") = <<"accept">> /\ Append(<< >>, "refuse") = <<"refuse">>
    /\ Head(<<"accept">>) = "accept" /\ Head(<<"refuse">>) = "refuse"
    /\ Tail(<<"accept">>) = << >> /\ Tail(<<"refuse">>) = << >>
    /\ <<"accept">> # << >> /\ <<"refuse">> # << >> /\ <<"accept">> # <<"refuse">>
OBVIOUS

\* A step that leaves a connection alone, or only ends what the client sends on it.
LEMMA ShakenStays ==
    ASSUME Handshake, NEW d \in Conns,
           rd'[d] = rd[d], toClient'[d] = toClient[d], srv'[d] = srv[d],
           watch'[d] = watch[d], sock'[d] = "none" <=> sock[d] = "none",
           mode' \in {mode, 1}
    PROVE  Shaken(d)'
BY DEF Handshake, Shaken

\* disconnect makes no connection that is, or is not, another one.
LEMMA DisconnectedNone ==
    ASSUME TypeOK, NEW c, NEW d \in Conns
    PROVE  Disconnected(c)[d] = "none" <=> sock[d] = "none"
BY DEF TypeOK, Disconnected

LEMMA CallerHandshake ==
    ASSUME Typing, Handshake, NEW t \in Callers, Caller(t) PROVE Handshake'
<1> USE DEF clientVars, readerVars, wireVars
<1>ty. TypeOK BY DEF Typing
<1>1. CASE UNCHANGED <<mode, readerVars, sock, toClient, srv>>
  BY <1>1 DEF Handshake, Shaken
<1>2. CASE HangUp(t)
  <2>1. /\ sock' = Disconnected(conn[t])
        /\ UNCHANGED <<mode, readerVars, toClient, srv>>
    BY <1>2 DEF HangUp
  <2>2. ASSUME NEW d \in Conns PROVE Shaken(d)'
    <3>1. sock'[d] = "none" <=> sock[d] = "none" BY <1>ty, <2>1, DisconnectedNone
    <3>2. QED BY <2>1, <3>1, ShakenStays
  <2>3. QED BY <2>2 DEF Handshake
<1>3. ASSUME NEW c \in Conns, DialSucceeds(t, c) PROVE Handshake'
  <2>1. /\ sock[c] = "none"
        /\ sock' = [sock EXCEPT ![c] = "open"] /\ rd' = [rd EXCEPT ![c] = "verify"]
        /\ UNCHANGED <<mode, watch, toClient, srv>>
    BY <1>3 DEF DialSucceeds, NewConn, Step
  <2>2. /\ sock'[c] = "open" /\ rd'[c] = "verify"
        /\ \A d \in Conns \ {c} : sock'[d] = sock[d] /\ rd'[d] = rd[d]
    BY <1>ty, <2>1 DEF TypeOK
  <2>3. Shaken(c)' BY <2>1, <2>2 DEF Handshake, Shaken
  <2>4. \A d \in Conns \ {c} : Shaken(d)' BY <2>1, <2>2, ShakenStays
  <2>5. QED BY <2>3, <2>4 DEF Handshake
<1>4. QED
  <2>1. ASSUME ~HangUp(t), \A c \in Conns : ~DialSucceeds(t, c)
        PROVE  UNCHANGED <<mode, readerVars, sock, toClient, srv>>
    BY <2>1 DEF Caller, ConnectNetwork, Join, Assume, StartDial, DialFails, Install, Changed,
                Reset, Cancel, Call, Grab, Frame, Send, Close
  <2>2. QED BY <1>1, <1>2, <1>3, <2>1

\* What a reader leaves of the other connections.
LEMMA ReaderHandshake ==
    ASSUME Typing, Handshake, NEW c \in Conns, Reader(c) PROVE Handshake'
<1> USE DEF clientVars, readerVars, wireVars
<1>ty. TypeOK BY DEF Typing
<1>sh. Shaken(c) BY DEF Handshake
<1>1. CASE Verify(c)
  <2>1. /\ rd[c] = "verify"
        /\ \/ rd' = [rd EXCEPT ![c] = "read"] /\ watch' = [watch EXCEPT ![c] = watch[c]]
           \/ rd' = [rd EXCEPT ![c] = "clean"] /\ watch' = [watch EXCEPT ![c] = Hung(c)]
        /\ UNCHANGED <<mode, sock, toClient, srv>>
    BY <1>1 DEF Verify, WriteOrEnd, Sets, Step
  <2>2. /\ \/ rd'[c] = "read" /\ watch'[c] = watch[c]
           \/ rd'[c] = "clean" /\ watch'[c] = Hung(c)
        /\ \A d \in Conns \ {c} : rd'[d] = rd[d] /\ watch'[d] = watch[d]
    BY <1>ty, <2>1 DEF TypeOK
  <2>3. Shaken(c)' BY <1>sh, <2>1, <2>2 DEF Shaken, Hung
  <2>4. \A d \in Conns \ {c} : Shaken(d)' BY <2>1, <2>2, ShakenStays
  <2>5. QED BY <2>3, <2>4 DEF Handshake
<1>2. CASE ReadAccept(c)
  <2>1. /\ rd[c] = "read" /\ mode' = 1
        /\ rd' = [rd EXCEPT ![c] = "hello"]
        /\ UNCHANGED <<watch, sock, srv>>
    BY <1>2 DEF ReadAccept, Reads, ModeOf, Step
  <2>2. /\ toClient[c] # << >> /\ Head(toClient[c]) = "accept"
        /\ toClient' = [toClient EXCEPT ![c] = Tail(toClient[c])]
    BY <1>2 DEF ReadAccept, Reads
  <2>3. toClient[c] = <<"accept">> BY <1>sh, <2>2, OneAnswer DEF Shaken
  <2>4. rd'[c] = "hello" /\ toClient'[c] = << >>
    BY <1>ty, <2>1, <2>2, <2>3, OneAnswer DEF TypeOK
  <2>5. \A d \in Conns \ {c} : rd'[d] = rd[d] /\ toClient'[d] = toClient[d]
    BY <1>ty, <2>1, <2>2 DEF TypeOK
  <2>6. srv[c] \in Accepted /\ watch[c] = "reader" /\ srv[c] # "verify"
    BY <1>sh, <2>1, <2>3, OneAnswer DEF Shaken, Accepted
  <2>7. Shaken(c)' BY <1>sh, <2>1, <2>4, <2>6, OneAnswer DEF Shaken
  <2>8. \A d \in Conns \ {c} : Shaken(d)' BY <2>1, <2>5, ShakenStays
  <2>9. QED BY <2>7, <2>8 DEF Handshake
<1>3. CASE Hello(c)
  <2>1. /\ rd[c] = "hello"
        /\ \/ rd' = [rd EXCEPT ![c] = "read"] /\ watch' = [watch EXCEPT ![c] = "task"]
           \/ rd' = [rd EXCEPT ![c] = "clean"] /\ watch' = [watch EXCEPT ![c] = Hung(c)]
        /\ UNCHANGED <<mode, sock, toClient, srv>>
    BY <1>3 DEF Hello, WriteOrEnd, Sets, Step
  <2>2. /\ \/ rd'[c] = "read" /\ watch'[c] = "task"
           \/ rd'[c] = "clean" /\ watch'[c] = Hung(c)
        /\ \A d \in Conns \ {c} : rd'[d] = rd[d] /\ watch'[d] = watch[d]
    BY <1>ty, <2>1 DEF TypeOK
  <2>3. Shaken(c)' BY <1>sh, <2>1, <2>2, OneAnswer DEF Shaken, Hung, Accepted
  <2>4. \A d \in Conns \ {c} : Shaken(d)' BY <2>1, <2>2, ShakenStays
  <2>5. QED BY <2>3, <2>4 DEF Handshake
<1>4. CASE ReadRefuse(c)
  <2>1. /\ rd[c] = "read" /\ watch' = [watch EXCEPT ![c] = "false"]
        /\ rd' = [rd EXCEPT ![c] = "clean"]
        /\ UNCHANGED <<mode, sock, srv>>
    BY <1>4 DEF ReadRefuse, Reads, Refused, Sets, Step
  <2>2. /\ toClient[c] # << >> /\ Head(toClient[c]) = "refuse"
        /\ toClient' = [toClient EXCEPT ![c] = Tail(toClient[c])]
    BY <1>4 DEF ReadRefuse, Reads
  <2>3. toClient[c] = <<"refuse">> BY <1>sh, <2>2, OneAnswer DEF Shaken
  <2>4. rd'[c] = "clean" /\ watch'[c] = "false" /\ toClient'[c] = << >>
    BY <1>ty, <2>1, <2>2, <2>3, OneAnswer DEF TypeOK
  <2>5. \A d \in Conns \ {c} :
           rd'[d] = rd[d] /\ watch'[d] = watch[d] /\ toClient'[d] = toClient[d]
    BY <1>ty, <2>1, <2>2 DEF TypeOK
  <2>6. srv[c] = "refused" BY <1>sh, <2>3 DEF Shaken
  <2>7. Shaken(c)' BY <1>sh, <2>1, <2>4, <2>6, OneAnswer DEF Shaken
  <2>8. \A d \in Conns \ {c} : Shaken(d)' BY <2>1, <2>5, ShakenStays
  <2>9. QED BY <2>7, <2>8 DEF Handshake
<1>5. CASE ReadEnds(c)
  <2>1. /\ rd[c] = "read" /\ srv[c] # "verify"
        /\ rd' = [rd EXCEPT ![c] = "clean"] /\ watch' = [watch EXCEPT ![c] = Hung(c)]
        /\ UNCHANGED <<mode, sock, toClient, srv>>
    BY <1>5 DEF ReadEnds, Sets, Step
  <2>2. /\ rd'[c] = "clean" /\ watch'[c] = Hung(c)
        /\ \A d \in Conns \ {c} : rd'[d] = rd[d] /\ watch'[d] = watch[d]
    BY <1>ty, <2>1 DEF TypeOK
  <2>3. Shaken(c)' BY <1>sh, <2>1, <2>2 DEF Shaken, Hung
  <2>4. \A d \in Conns \ {c} : Shaken(d)' BY <2>1, <2>2, ShakenStays
  <2>5. QED BY <2>3, <2>4 DEF Handshake
<1>6. CASE Clean(c) \/ Drop(c)
  <2>1. /\ rd[c] \in {"clean", "drop"}
        /\ \E label \in {"drop", "done"} : rd' = [rd EXCEPT ![c] = label]
        /\ UNCHANGED sock \/ sock' = Disconnected(taken[c])
        /\ UNCHANGED <<mode, watch, toClient, srv>>
    BY <1>6 DEF Clean, Drop, Step
  <2>2. /\ rd'[c] \in {"drop", "done"}
        /\ \A d \in Conns \ {c} : rd'[d] = rd[d]
    BY <1>ty, <2>1 DEF TypeOK
  <2>3. \A d \in Conns : sock'[d] = "none" <=> sock[d] = "none"
    BY <1>ty, <2>1, DisconnectedNone
  <2>4. Shaken(c)' BY <1>sh, <2>1, <2>2, <2>3 DEF Shaken
  <2>5. \A d \in Conns \ {c} : Shaken(d)' BY <2>1, <2>2, <2>3, ShakenStays
  <2>6. QED BY <2>4, <2>5 DEF Handshake
<1>7. QED BY <1>1, <1>2, <1>3, <1>4, <1>5, <1>6 DEF Reader

LEMMA TaskHandshake ==
    ASSUME Typing, Handshake, NEW c \in Conns, Task(c) PROVE Handshake'
<1> USE DEF clientVars, wireVars
<1>1. /\ watch[c] \in {"task", "failed"}
      /\ \E v \in {"true", "failed", "false"} :
            watch' = [watch EXCEPT ![c] = v] /\ (watch[c] = "task" => v # "false")
      /\ UNCHANGED sock \/ sock' = Disconnected(c)
      /\ UNCHANGED <<mode, rd, toClient, srv>>
  BY DEF Task, ConnectFunction, ConnectFailed, Sets
<1>2. /\ watch'[c] \in {"true", "failed", "false"}
      /\ \A d \in Conns \ {c} : watch'[d] = watch[d]
  BY <1>1 DEF Typing, TypeOK
<1>3. \A d \in Conns : sock'[d] = "none" <=> sock[d] = "none"
  BY <1>1, DisconnectedNone DEF Typing
<1>4. Shaken(c)' BY <1>1, <1>2, <1>3 DEF Handshake, Shaken, Accepted
<1>5. \A d \in Conns \ {c} : Shaken(d)' BY <1>1, <1>2, <1>3, ShakenStays
<1>6. QED BY <1>4, <1>5 DEF Handshake

LEMMA ServerHandshake ==
    ASSUME Typing, Handshake, NEW c \in Conns, Server(c) \/ Lose(c) PROVE Handshake'
<1> USE DEF clientVars, readerVars
<1>ty. TypeOK BY DEF Typing
<1>sh. Shaken(c) BY DEF Handshake
<1>1. CASE ServerAccepts(c) \/ ServerRefuses(c)
  <2>1. /\ srv[c] = "verify"
        /\ UNCHANGED <<mode, rd, watch, sock>>
    BY <1>1 DEF ServerAccepts, ServerRefuses, Takes
  <2>2. \/ /\ srv' = [srv EXCEPT ![c] = "serve"]
           /\ toClient' = [toClient EXCEPT ![c] = Append(toClient[c], "accept")]
        \/ /\ srv' = [srv EXCEPT ![c] = "refused"]
           /\ toClient' = [toClient EXCEPT ![c] = Append(toClient[c], "refuse")]
    BY <1>1 DEF ServerAccepts, ServerRefuses, Answers, Becomes
  <2>3. toClient[c] = << >> /\ watch[c] \in {"reader", "closed"} /\ rd[c] # "hello"
    BY <1>sh, <2>1 DEF Shaken, Accepted
  <2>4. \/ srv'[c] = "serve" /\ toClient'[c] = <<"accept">>
        \/ srv'[c] = "refused" /\ toClient'[c] = <<"refuse">>
    BY <1>ty, <2>2, <2>3, OneAnswer DEF TypeOK
  <2>5. \A d \in Conns \ {c} : srv'[d] = srv[d] /\ toClient'[d] = toClient[d]
    BY <1>ty, <2>2 DEF TypeOK
  <2>6. Shaken(c)' BY <1>sh, <2>1, <2>3, <2>4, OneAnswer DEF Shaken, Accepted
  <2>7. \A d \in Conns \ {c} : Shaken(d)' BY <2>1, <2>5, ShakenStays
  <2>8. QED BY <2>6, <2>7 DEF Handshake
<1>2. CASE ServerReads(c)
  <2>1. /\ srv[c] = "serve"
        /\ UNCHANGED srv \/ srv' = [srv EXCEPT ![c] = "garbled"]
        /\ UNCHANGED <<mode, rd, watch, sock, toClient>>
    BY <1>2 DEF ServerReads, Takes, Becomes
  <2>2. srv'[c] \in {"serve", "garbled"} /\ \A d \in Conns \ {c} : srv'[d] = srv[d]
    BY <1>ty, <2>1 DEF TypeOK
  <2>3. Shaken(c)' BY <1>sh, <2>1, <2>2 DEF Shaken, Accepted
  <2>4. \A d \in Conns \ {c} : Shaken(d)' BY <2>1, <2>2, ShakenStays
  <2>5. QED BY <2>3, <2>4 DEF Handshake
<1>3. CASE ServerEnds(c) \/ Lose(c)
  <2>1. /\ srv[c] \in {"verify", "serve", "garbled"} /\ sock[c] # "none"
        /\ srv' = [srv EXCEPT ![c] = IF srv[c] = "verify" THEN "refused" ELSE "closed"]
        /\ UNCHANGED sock \/ sock' = [sock EXCEPT ![c] = "lost"]
        /\ UNCHANGED toClient \/ toClient' = [toClient EXCEPT ![c] = << >>]
        /\ UNCHANGED <<mode, rd, watch>>
    BY <1>3 DEF ServerEnds, Lose, Closes, Becomes
  <2>2. /\ srv'[c] = IF srv[c] = "verify" THEN "refused" ELSE "closed"
        /\ sock'[c] # "none" /\ toClient'[c] \in {toClient[c], << >>}
    BY <1>ty, <2>1 DEF TypeOK
  <2>3. \A d \in Conns \ {c} :
           srv'[d] = srv[d] /\ sock'[d] = sock[d] /\ toClient'[d] = toClient[d]
    BY <1>ty, <2>1 DEF TypeOK
  <2>4. Shaken(c)' BY <1>sh, <2>1, <2>2, OneAnswer DEF Shaken, Accepted
  <2>5. \A d \in Conns \ {c} : Shaken(d)' BY <2>1, <2>3, ShakenStays
  <2>6. QED BY <2>4, <2>5 DEF Handshake
<1>4. QED BY <1>1, <1>2, <1>3 DEF Server

LEMMA InitHandshake == Init => Handshake
BY OneAnswer DEF Init, Handshake, Shaken, Accepted

LEMMA HandshakeStep == Typing /\ Handshake /\ [Next]_vars => Handshake'
<1>1. ASSUME Handshake, UNCHANGED vars PROVE Handshake'
  BY <1>1 DEF vars, clientVars, readerVars, wireVars, Handshake, Shaken
<1>2. QED
  BY <1>1, CallerHandshake, ReaderHandshake, TaskHandshake, ServerHandshake DEF Next

-----------------------------------------------------------------------------
(* The connection in net                                                   *)

\* What the proofs need of every caller's step but those that open or close a connection
\* or put it into net.
Moves(t) ==
    /\ \A u \in Callers \ {t} : pc'[u] = pc[u] /\ conn'[u] = conn[u]
    /\ pc[t] \notin {"install", "hangup"} /\ pc'[t] \notin {"install", "hangup"}
    /\ pc'[t] = "dial" => net = NoConn
    /\ pc'[t] = "wait" => connect_stats # NoConn /\ conn'[t] = connect_stats
    /\ connect_stats' \in {connect_stats, NoConn}
    /\ UNCHANGED <<net, mode, readerVars, sock, toClient, srv>>

\* Goto, at a caller.
LEMMA GotoAt ==
    ASSUME TypeOK, NEW t \in Callers, NEW label, NEW c, NEW up, Goto(t, label, c, up)
    PROVE  /\ pc'[t] = label /\ conn'[t] = c /\ told'[t] = up
           /\ \A u \in Callers \ {t} :
                 pc'[u] = pc[u] /\ conn'[u] = conn[u] /\ told'[u] = told[u]
BY DEF TypeOK, Goto

LEMMA CallerMoves ==
    ASSUME Typing, NEW t \in Callers, Caller(t),
           ~Install(t), ~HangUp(t), ~(Close(t) /\ is_connect),
           \A c \in Conns : ~DialSucceeds(t, c)
    PROVE  Moves(t)
<1> USE DEF clientVars, readerVars, wireVars
<1>ty. TypeOK BY DEF Typing
<1> DEFINE Quiet ==
      /\ pc[t] \notin {"install", "hangup"}
      /\ connect_stats' \in {connect_stats, NoConn}
      /\ UNCHANGED <<net, mode, readerVars, sock, toClient, srv>>
<1>1. CASE Join(t)
  <2>1. Quiet BY <1>1 DEF Join
  <2>2. connect_stats # NoConn /\ Goto(t, "wait", connect_stats, FALSE) BY <1>1 DEF Join
  <2>3. QED BY <1>ty, <2>1, <2>2, GotoAt DEF Moves
<1>2. CASE StartDial(t)
  <2>1. Quiet BY <1>2 DEF StartDial
  <2>2. net = NoConn /\ Goto(t, "dial", NoConn, FALSE) BY <1>2 DEF StartDial, is_connect
  <2>3. QED BY <1>ty, <2>1, <2>2, GotoAt DEF Moves
<1>3. CASE \/ ConnectNetwork(t) \/ Assume(t) \/ DialFails(t) \/ Changed(t) \/ Reset(t)
           \/ Cancel(t) \/ Call(t) \/ Grab(t) \/ Frame(t) \/ Send(t) \/ Close(t)
  <2>1. Quiet
    BY <1>3 DEF ConnectNetwork, Assume, DialFails, Changed, Reset, Cancel, Call, Grab, Frame,
                Send, Close, is_connect
  <2>2. \E label \in {"idle", "lock", "reset", "grab", "frame", "raw", "prefixed"} :
           \E c, up : Goto(t, label, c, up)
    <3>1. CASE ConnectNetwork(t) BY <3>1 DEF ConnectNetwork
    <3>2. CASE Assume(t) BY <3>2 DEF Assume, Connected
    <3>3. CASE DialFails(t) \/ Cancel(t) BY <3>3 DEF DialFails, Cancel, Ret
    <3>4. CASE Changed(t) BY <3>4 DEF Changed
    <3>5. CASE Reset(t) BY <3>5 DEF Reset, Connected, Ret
    <3>6. CASE Call(t) BY <3>6 DEF Call
    <3>7. CASE Grab(t)
      <4>1. PICK up : up = (told[t] /\ conn[t] = net) OBVIOUS
      <4>2. Goto(t, "frame", net, up) \/ Ret(t) BY <3>7, <4>1 DEF Grab
      <4>3. QED BY <4>2 DEF Ret
    <3>8. CASE Frame(t) BY <3>8 DEF Frame
    <3>9. CASE Send(t) BY <3>9 DEF Send, Ret
    <3>10. CASE Close(t) BY <3>10 DEF Close, Ret
    <3>11. QED BY <1>3, <3>1, <3>2, <3>3, <3>4, <3>5, <3>6, <3>7, <3>8, <3>9, <3>10
  <2>3. PICK label \in {"idle", "lock", "reset", "grab", "frame", "raw", "prefixed"} :
           \E c, up : Goto(t, label, c, up)
    BY <2>2
  <2>4. PICK c, up : Goto(t, label, c, up) BY <2>3
  <2>5. /\ pc'[t] = label
        /\ \A u \in Callers \ {t} : pc'[u] = pc[u] /\ conn'[u] = conn[u]
    BY <1>ty, <2>4, GotoAt
  <2>6. QED BY <2>1, <2>5 DEF Moves
<1>4. QED BY <1>1, <1>2, <1>3 DEF Caller

\* Who has a connection in hand.
Netted == Installing /\ NetHasReader /\ NoneForgotten /\ JoinsItsOwn

LEMMA MovesNetted ==
    ASSUME Typing, Netted, NEW t \in Callers, Moves(t) PROVE Netted'
<1> USE DEF readerVars
<1>1. Installing' BY DEF Netted, Installing, Moves
<1>2. NetHasReader' BY DEF Netted, NetHasReader, is_connect, Moves
<1>3. NoneForgotten' BY DEF Netted, NoneForgotten, Moves
<1>4. JoinsItsOwn' BY DEF Netted, JoinsItsOwn, is_connect, Moves
<1>5. QED BY <1>1, <1>2, <1>3, <1>4 DEF Netted

LEMMA DisconnectedAt ==
    ASSUME TypeOK, NEW c \in Conns, NEW d \in Conns, Disconnected(c)[d] = "open"
    PROVE  d # c /\ sock[d] = "open"
BY DEF TypeOK, Disconnected

LEMMA CallerNetted ==
    ASSUME Typing, Handshake, Netted, NEW t \in Callers, Caller(t) PROVE Netted'
<1> USE DEF clientVars, readerVars, wireVars
<1>ty. TypeOK /\ Locking /\ Holding BY DEF Typing
<1>n. Installing /\ NetHasReader /\ NoneForgotten /\ JoinsItsOwn BY DEF Netted
<1>1. CASE Install(t)
  <2>1. /\ pc[t] = "install" /\ net' = conn[t] /\ connect_stats' = conn[t]
        /\ Goto(t, "wait", conn[t], FALSE)
        /\ UNCHANGED <<rd, taken, sock>>
    BY <1>1 DEF Install, StatsOf
  <2>2. /\ pc'[t] = "wait" /\ conn'[t] = conn[t]
        /\ \A u \in Callers \ {t} : pc'[u] = pc[u] /\ conn'[u] = conn[u]
    BY <1>ty, <2>1, GotoAt
  <2>3. /\ net = NoConn /\ rd[conn[t]] \in {"verify", "read", "hello", "clean"}
        /\ \A u \in Callers \ {t} : pc[u] \notin {"dial", "install"}
    BY <1>ty, <1>n, <2>1 DEF Installing, Locking
  <2>4. Installing' BY <1>n, <2>1, <2>2, <2>3 DEF Installing
  <2>5. NetHasReader' BY <2>1, <2>3 DEF NetHasReader, is_connect
  <2>6. NoneForgotten'
    <3>1. ASSUME NEW c \in Conns, sock[c] = "open"
          PROVE  \/ net' = c
                 \/ \E u \in Callers : pc'[u] \in {"install", "hangup"} /\ conn'[u] = c
                 \/ \E d \in Conns : rd[d] = "drop" /\ taken[d] = c
      <4>1. net # c BY <2>3 DEF NoConn, Conns
      <4>2. CASE \E u \in Callers : pc[u] \in {"install", "hangup"} /\ conn[u] = c
        BY <4>2, <2>1, <2>2
      <4>3. QED BY <1>n, <3>1, <4>1, <4>2 DEF NoneForgotten
    <3>2. QED BY <2>1, <3>1 DEF NoneForgotten
  <2>7. JoinsItsOwn' BY <2>1 DEF JoinsItsOwn
  <2>8. QED BY <2>4, <2>5, <2>6, <2>7 DEF Netted
<1>2. CASE HangUp(t)
  <2>1. /\ pc[t] = "hangup" /\ sock' = Disconnected(conn[t])
        /\ Goto(t, "idle", NoConn, FALSE)
        /\ UNCHANGED <<net, connect_stats, rd, taken>>
    BY <1>2 DEF HangUp, Ret
  <2>2. /\ pc'[t] = "idle"
        /\ \A u \in Callers \ {t} : pc'[u] = pc[u] /\ conn'[u] = conn[u]
    BY <1>ty, <2>1, GotoAt
  <2>3. conn[t] \in Conns BY <1>ty, <2>1 DEF Holding
  <2>4. \A c \in Conns : sock'[c] = "open" => c # conn[t] /\ sock[c] = "open"
    BY <1>ty, <2>1, <2>3, DisconnectedAt
  <2>5. Installing' BY <1>n, <2>1, <2>2 DEF Installing
  <2>6. NetHasReader' BY <1>n, <2>1 DEF NetHasReader, is_connect
  <2>7. NoneForgotten' BY <1>n, <2>1, <2>2, <2>4 DEF NoneForgotten
  <2>8. JoinsItsOwn' BY <1>n, <2>1 DEF JoinsItsOwn, is_connect
  <2>9. QED BY <2>5, <2>6, <2>7, <2>8 DEF Netted
<1>3. CASE Close(t) /\ is_connect
  <2>1. /\ pc[t] = "idle" /\ net # NoConn /\ net' = NoConn
        /\ Goto(t, "hangup", net, FALSE)
        /\ UNCHANGED <<connect_stats, rd, taken, sock>>
    BY <1>3 DEF Close, is_connect
  <2>2. /\ pc'[t] = "hangup" /\ conn'[t] = net
        /\ \A u \in Callers \ {t} : pc'[u] = pc[u] /\ conn'[u] = conn[u]
    BY <1>ty, <2>1, GotoAt
  <2>3. Installing' BY <1>n, <2>1, <2>2 DEF Installing
  <2>4. NetHasReader' BY <2>1 DEF NetHasReader, is_connect
  <2>5. NoneForgotten'
    <3>1. ASSUME NEW c \in Conns, sock[c] = "open"
          PROVE  \/ \E u \in Callers : pc'[u] \in {"install", "hangup"} /\ conn'[u] = c
                 \/ \E d \in Conns : rd[d] = "drop" /\ taken[d] = c
      <4>1. CASE net = c BY <4>1, <2>2
      <4>2. CASE \E u \in Callers : pc[u] \in {"install", "hangup"} /\ conn[u] = c
        BY <4>2, <2>1, <2>2
      <4>3. QED BY <1>n, <3>1, <4>1, <4>2 DEF NoneForgotten
    <3>2. QED BY <2>1, <3>1 DEF NoneForgotten
  <2>6. JoinsItsOwn' BY <2>1 DEF JoinsItsOwn, is_connect
  <2>7. QED BY <2>3, <2>4, <2>5, <2>6 DEF Netted
<1>4. ASSUME NEW c \in Conns, DialSucceeds(t, c) PROVE Netted'
  <2>1. /\ pc[t] = "dial" /\ Goto(t, "install", c, FALSE)
        /\ sock' = [sock EXCEPT ![c] = "open"] /\ rd' = [rd EXCEPT ![c] = "verify"]
        /\ UNCHANGED <<net, connect_stats, taken>>
    BY <1>4 DEF DialSucceeds, Step
  <2>2. /\ pc'[t] = "install" /\ conn'[t] = c
        /\ \A u \in Callers \ {t} : pc'[u] = pc[u] /\ conn'[u] = conn[u]
    BY <1>ty, <2>1, GotoAt
  <2>3. /\ sock'[c] = "open" /\ rd'[c] = "verify"
        /\ \A d \in Conns \ {c} : sock'[d] = sock[d] /\ rd'[d] = rd[d]
    BY <1>ty, <2>1 DEF TypeOK
  <2>4. net = NoConn BY <1>n, <2>1 DEF Installing
  <2>5. Installing'
    <3>1. /\ connect_stats # NoConn => connect_stats \in Conns
          /\ \A u \in Callers : pc[u] \in {"install", "wait"} => conn[u] \in Conns
      BY <1>ty DEF TypeOK, ConnIds, Holding
    <3>2. QED BY <1>n, <2>1, <2>2, <2>3, <2>4, <3>1 DEF Installing
  <2>6. NetHasReader' BY <2>1, <2>4 DEF NetHasReader, is_connect
  <2>7. NoneForgotten'
    <3>1. ASSUME NEW e \in Conns, sock'[e] = "open"
          PROVE  \/ \E u \in Callers : pc'[u] \in {"install", "hangup"} /\ conn'[u] = e
                 \/ \E d \in Conns : rd'[d] = "drop" /\ taken'[d] = e
      <4>1. CASE e = c BY <4>1, <2>2
      <4>2. CASE e # c
        <5>1. sock[e] = "open" /\ net # e BY <2>3, <2>4, <3>1, <4>2 DEF NoConn, Conns
        <5>2. CASE \E u \in Callers : pc[u] \in {"install", "hangup"} /\ conn[u] = e
          BY <5>2, <2>1, <2>2
        <5>3. CASE \E d \in Conns : rd[d] = "drop" /\ taken[d] = e
          <6>1. rd[c] = "none" BY <1>4 DEF DialSucceeds, NewConn, Handshake, Shaken
          <6>2. PICK d \in Conns : rd[d] = "drop" /\ taken[d] = e BY <5>3
          <6>3. d # c BY <6>1, <6>2
          <6>4. rd'[d] = "drop" /\ taken'[d] = e BY <2>1, <2>3, <6>2, <6>3
          <6>5. QED BY <6>4
        <5>4. QED BY <1>n, <5>1, <5>2, <5>3 DEF NoneForgotten
      <4>3. QED BY <4>1, <4>2
    <3>2. QED BY <3>1 DEF NoneForgotten
  <2>8. JoinsItsOwn' BY <1>n, <2>1 DEF JoinsItsOwn, is_connect
  <2>9. QED BY <2>5, <2>6, <2>7, <2>8 DEF Netted
<1>5. QED BY <1>1, <1>2, <1>3, <1>4, CallerMoves, MovesNetted

LEMMA ReaderNetted ==
    ASSUME Typing, Handshake, Netted, NEW c \in Conns, Reader(c) PROVE Netted'
<1> USE DEF clientVars, callerVars, readerVars, wireVars
<1>ty. TypeOK /\ Locking /\ Holding BY DEF Typing
<1>n. Installing /\ NetHasReader /\ NoneForgotten /\ JoinsItsOwn BY DEF Netted
<1>1. CASE Verify(c) \/ ReadAccept(c) \/ Hello(c) \/ ReadRefuse(c) \/ ReadEnds(c)
  <2>1. /\ rd[c] \in {"verify", "read", "hello"}
        /\ \E label \in {"read", "hello", "clean"} : rd' = [rd EXCEPT ![c] = label]
        /\ UNCHANGED <<net, connect_stats, callerVars, taken, sock>>
    BY <1>1 DEF Verify, ReadAccept, Hello, ReadRefuse, ReadEnds, Reads, WriteOrEnd, Step
  <2>2. /\ rd'[c] \in {"read", "hello", "clean"}
        /\ \A d \in Conns \ {c} : rd'[d] = rd[d]
    BY <1>ty, <2>1 DEF TypeOK
  <2>3. /\ net # NoConn => net \in Conns
        /\ connect_stats # NoConn => connect_stats \in Conns
        /\ \A u \in Callers : pc[u] \in {"install", "wait"} => conn[u] \in Conns
    BY <1>ty DEF TypeOK, ConnIds, Holding
  <2>4. Installing' BY <1>n, <2>1, <2>2, <2>3 DEF Installing
  <2>5. NetHasReader' BY <1>n, <2>1, <2>2, <2>3 DEF NetHasReader, is_connect
  <2>6. NoneForgotten'
    <3>1. \A d \in Conns : rd[d] = "drop" => rd'[d] = "drop" BY <2>1, <2>2
    <3>2. QED BY <1>n, <2>1, <3>1 DEF NoneForgotten
  <2>7. JoinsItsOwn' BY <1>n, <2>1 DEF JoinsItsOwn, is_connect
  <2>8. QED BY <2>4, <2>5, <2>6, <2>7 DEF Netted
<1>2. CASE Clean(c)
  <2>1. /\ rd[c] = "clean" /\ lock = Free /\ net' = NoConn
        /\ taken' = [taken EXCEPT ![c] = net]
        /\ rd' = [rd EXCEPT ![c] = IF net # NoConn THEN "drop" ELSE "done"]
        /\ UNCHANGED <<connect_stats, callerVars, sock>>
    BY <1>2 DEF Clean, Unlocked, Step, is_connect
  <2>2. /\ taken'[c] = net /\ rd'[c] = IF net # NoConn THEN "drop" ELSE "done"
        /\ \A d \in Conns \ {c} : taken'[d] = taken[d] /\ rd'[d] = rd[d]
    BY <1>ty, <2>1 DEF TypeOK
  <2>3. \A u \in Callers : pc[u] \notin {"dial", "install"}
    BY <1>ty, <2>1, FreeAssumption DEF Locking
  <2>4. /\ connect_stats # NoConn => connect_stats \in Conns
        /\ \A u \in Callers : pc[u] = "wait" => conn[u] \in Conns
    BY <1>ty DEF TypeOK, ConnIds, Holding
  <2>5. Installing' BY <1>n, <2>1, <2>2, <2>3, <2>4 DEF Installing
  <2>6. NetHasReader' BY <2>1 DEF NetHasReader, is_connect
  <2>7. NoneForgotten'
    <3>1. ASSUME NEW e \in Conns, sock[e] = "open"
          PROVE  \/ \E u \in Callers : pc[u] \in {"install", "hangup"} /\ conn[u] = e
                 \/ \E d \in Conns : rd'[d] = "drop" /\ taken'[d] = e
      <4>1. CASE net = e
        <5>1. rd'[c] = "drop" /\ taken'[c] = e BY <2>2, <4>1 DEF NoConn, Conns
        <5>2. QED BY <5>1
      <4>2. CASE \E d \in Conns : rd[d] = "drop" /\ taken[d] = e
        <5>1. PICK d \in Conns : rd[d] = "drop" /\ taken[d] = e BY <4>2
        <5>2. d # c BY <2>1, <5>1
        <5>3. rd'[d] = "drop" /\ taken'[d] = e BY <2>2, <5>1, <5>2
        <5>4. QED BY <5>3
      <4>3. QED BY <1>n, <3>1, <4>1, <4>2 DEF NoneForgotten
    <3>2. QED BY <2>1, <3>1 DEF NoneForgotten
  <2>8. JoinsItsOwn' BY <2>1 DEF JoinsItsOwn, is_connect
  <2>9. QED BY <2>5, <2>6, <2>7, <2>8 DEF Netted
<1>3. CASE Drop(c)
  <2>1. /\ rd[c] = "drop" /\ sock' = Disconnected(taken[c])
        /\ rd' = [rd EXCEPT ![c] = "done"] /\ taken' = [taken EXCEPT ![c] = NoConn]
        /\ UNCHANGED <<net, connect_stats, callerVars>>
    BY <1>3 DEF Drop, Step
  <2>2. /\ rd'[c] = "done"
        /\ \A d \in Conns \ {c} : taken'[d] = taken[d] /\ rd'[d] = rd[d]
    BY <1>ty, <2>1 DEF TypeOK
  <2>3. \A d \in Conns : sock'[d] = "open" => d # taken[c] /\ sock[d] = "open"
    BY <1>ty, <2>1, DisconnectedAt DEF Holding
  <2>4. /\ net # NoConn => net \in Conns
        /\ connect_stats # NoConn => connect_stats \in Conns
        /\ \A u \in Callers : pc[u] \in {"install", "wait"} => conn[u] \in Conns
    BY <1>ty DEF TypeOK, ConnIds, Holding
  <2>5. Installing' BY <1>n, <2>1, <2>2, <2>4 DEF Installing
  <2>6. NetHasReader' BY <1>n, <2>1, <2>2, <2>4 DEF NetHasReader, is_connect
  <2>7. NoneForgotten'
    <3>1. ASSUME NEW e \in Conns, sock'[e] = "open"
          PROVE  \/ net = e
                 \/ \E u \in Callers : pc[u] \in {"install", "hangup"} /\ conn[u] = e
                 \/ \E d \in Conns : rd'[d] = "drop" /\ taken'[d] = e
      <4>1. sock[e] = "open" /\ e # taken[c] BY <2>3, <3>1
      <4>2. CASE \E d \in Conns : rd[d] = "drop" /\ taken[d] = e
        <5>1. PICK d \in Conns : rd[d] = "drop" /\ taken[d] = e BY <4>2
        <5>2. rd'[d] = "drop" /\ taken'[d] = e BY <2>2, <4>1, <5>1
        <5>3. QED BY <5>2
      <4>3. QED BY <1>n, <4>1, <4>2 DEF NoneForgotten
    <3>2. QED BY <2>1, <3>1 DEF NoneForgotten
  <2>8. JoinsItsOwn' BY <1>n, <2>1 DEF JoinsItsOwn, is_connect
  <2>9. QED BY <2>5, <2>6, <2>7, <2>8 DEF Netted
<1>4. QED BY <1>1, <1>2, <1>3 DEF Reader

\* The Connect function and the server only end connections.
LEMMA OthersNetted ==
    ASSUME Typing, Netted, NEW c \in Conns, Task(c) \/ Server(c) \/ Lose(c)
    PROVE  Netted'
<1> USE DEF clientVars, callerVars, readerVars, wireVars
<1>1. /\ UNCHANGED <<net, connect_stats, callerVars, rd, taken>>
      /\ UNCHANGED sock \/ sock' = Disconnected(c) \/ sock' = [sock EXCEPT ![c] = "lost"]
  BY DEF Task, ConnectFunction, ConnectFailed, Server, ServerAccepts, ServerRefuses,
         ServerReads, ServerEnds, Lose
<1>2. \A d \in Conns : sock'[d] = "open" => sock[d] = "open"
  BY <1>1, DisconnectedAt DEF Typing, TypeOK
<1>3. Installing' /\ NetHasReader' /\ JoinsItsOwn'
  BY <1>1 DEF Netted, Installing, NetHasReader, JoinsItsOwn, is_connect
<1>4. NoneForgotten' BY <1>1, <1>2 DEF Netted, NoneForgotten
<1>5. QED BY <1>3, <1>4 DEF Netted

LEMMA InitNetted == Init => Netted
BY DEF Init, Netted, Installing, NetHasReader, NoneForgotten, JoinsItsOwn, is_connect

LEMMA NettedStep == Typing /\ Handshake /\ Netted /\ [Next]_vars => Netted'
<1>1. ASSUME Netted, UNCHANGED vars PROVE Netted'
  BY <1>1 DEF vars, clientVars, callerVars, readerVars, wireVars, Netted, Installing,
              NetHasReader, NoneForgotten, JoinsItsOwn, is_connect
<1>2. QED BY <1>1, CallerNetted, ReaderNetted, OthersNetted DEF Next

-----------------------------------------------------------------------------
(* What a caller is told                                                   *)

\* A handshake that succeeded has done so for good.
LEMMA TrueStays ==
    ASSUME Typing, Handshake, [Next]_vars, NEW c \in Conns, watch[c] = "true"
    PROVE  watch'[c] = "true"
<1> USE DEF clientVars, callerVars, readerVars, wireVars
<1>sh. /\ rd[c] \notin {"verify", "hello"} /\ srv[c] \in Accepted
  BY DEF Handshake, Shaken
<1>1. ASSUME NEW d \in Conns, Reader(d) PROVE watch'[c] = "true"
  <2>1. CASE Verify(d) \/ Hello(d)
    BY <1>sh, <2>1 DEF Verify, Hello, Sets, Typing, TypeOK
  <2>2. CASE ReadRefuse(d)
    <3>1. rd[d] = "read" /\ toClient[d] # << >> /\ Head(toClient[d]) = "refuse"
      BY <2>2 DEF ReadRefuse, Reads
    <3>2. toClient[d] = <<"refuse">> BY <3>1, OneAnswer DEF Handshake, Shaken
    <3>3. d # c BY <1>sh, <3>2 DEF Handshake, Shaken, Accepted
    <3>4. QED BY <2>2, <3>3 DEF ReadRefuse, Sets, Typing, TypeOK
  <2>3. CASE ReadEnds(d) BY <2>3 DEF ReadEnds, Sets, Hung, Typing, TypeOK
  <2>4. CASE ReadAccept(d) \/ Clean(d) \/ Drop(d) BY <2>4 DEF ReadAccept, Clean, Drop
  <2>5. QED BY <1>1, <2>1, <2>2, <2>3, <2>4 DEF Reader
<1>2. ASSUME NEW d \in Conns, Task(d) PROVE watch'[c] = "true"
  BY <1>2 DEF Task, ConnectFunction, ConnectFailed, Sets, Typing, TypeOK
<1>3. ASSUME NEW d \in Conns, Server(d) \/ Lose(d) PROVE watch'[c] = "true"
  BY <1>3 DEF Server, ServerAccepts, ServerRefuses, ServerReads, ServerEnds, Lose
<1>4. ASSUME NEW t \in Callers, Caller(t) PROVE watch'[c] = "true"
  BY <1>4 DEF Caller, ConnectNetwork, Join, Assume, StartDial, DialFails, Install, Changed,
              Reset, Cancel, Call, Grab, Frame, Send, Close, HangUp, DialSucceeds
<1>5. CASE UNCHANGED vars BY <1>5 DEF vars
<1>6. QED BY <1>1, <1>2, <1>3, <1>4, <1>5 DEF Next

\* A caller is told by Reset, and keeps what it was told of the same connection.
LEMMA CallerTold ==
    ASSUME Typing, Handshake, Told, NEW t \in Callers, Caller(t) PROVE Told'
<1> USE DEF clientVars, callerVars, readerVars, wireVars
<1>ty. TypeOK BY DEF Typing
<1>t. /\ \A c \in Conns : watch[c] = "true" => watch'[c] = "true"
  BY TrueStays DEF Next
<1>bo. told \in [Callers -> BOOLEAN] BY <1>ty DEF TypeOK
<1>to. told[t] => conn[t] \in Conns /\ watch[conn[t]] = "true" /\ mode = 1
  BY DEF Told, Handshake, Shaken
<1>1. \E label, c, up :
         /\ Goto(t, label, c, up)
         /\ up = TRUE => c \in Conns /\ watch[c] = "true" /\ label # "raw"
  <2>1. CASE ConnectNetwork(t) BY <2>1 DEF ConnectNetwork
  <2>2. CASE Join(t) BY <2>2 DEF Join
  <2>3. CASE Assume(t) BY <2>3 DEF Assume, Connected
  <2>4. CASE StartDial(t) BY <2>4 DEF StartDial
  <2>5. CASE DialFails(t) \/ Cancel(t) BY <2>5 DEF DialFails, Cancel, Ret
  <2>6. CASE Install(t) BY <2>6 DEF Install
  <2>7. CASE Changed(t) BY <2>7 DEF Changed
  <2>8. CASE Reset(t)
    <3>1. conn[t] \in Conns BY <2>8 DEF Reset, Typing, Holding
    <3>2. CASE watch[conn[t]] = "true" /\ Connected(t, conn[t], TRUE)
      <4>1. PICK c, up : c = conn[t] /\ up = TRUE OBVIOUS
      <4>2. c \in Conns /\ watch[c] = "true" BY <3>1, <3>2, <4>1
      <4>3. CASE Goto(t, "grab", c, up) BY <4>2, <4>3
      <4>4. CASE Goto(t, "idle", c, up) BY <4>2, <4>4
      <4>5. QED BY <3>2, <4>1, <4>3, <4>4 DEF Connected
    <3>3. CASE Ret(t) BY <3>3 DEF Ret
    <3>4. QED BY <2>8, <3>2, <3>3 DEF Reset
  <2>9. CASE Call(t)
    <3>1. PICK c, up : c = conn[t] /\ up = told[t] OBVIOUS
    <3>2. up = TRUE => c \in Conns /\ watch[c] = "true" BY <1>to, <3>1
    <3>3. CASE Goto(t, "grab", c, up) BY <3>2, <3>3
    <3>4. CASE Goto(t, "lock", NoConn, FALSE) BY <3>4
    <3>5. QED BY <2>9, <3>1, <3>3, <3>4 DEF Call
  <2>10. CASE Grab(t)
    <3>1. PICK c, up : c = net /\ up = (told[t] /\ conn[t] = net) OBVIOUS
    <3>2. up = TRUE => c \in Conns /\ watch[c] = "true" BY <1>to, <3>1
    <3>3. CASE Goto(t, "frame", c, up) BY <3>2, <3>3
    <3>4. CASE Goto(t, "idle", NoConn, FALSE) BY <3>4
    <3>5. QED BY <2>10, <3>1, <3>3, <3>4 DEF Grab, Ret
  <2>11. CASE Frame(t)
    <3>1. PICK label : label = IF mode = 0 THEN "raw" ELSE "prefixed" OBVIOUS
    <3>2. Goto(t, label, conn[t], told[t]) BY <2>11, <3>1 DEF Frame
    <3>3. told[t] => label # "raw" BY <1>to, <3>1
    <3>4. QED BY <1>to, <3>2, <3>3
  <2>12. CASE Send(t) BY <2>12 DEF Send, Ret
  <2>13. CASE Close(t) BY <2>13 DEF Close, Ret
  <2>14. CASE HangUp(t) BY <2>14 DEF HangUp, Ret
  <2>15. ASSUME NEW c \in Conns, DialSucceeds(t, c)
         PROVE  Goto(t, "install", c, FALSE)
    BY <2>15 DEF DialSucceeds
  <2>16. QED
    BY <2>1, <2>2, <2>3, <2>4, <2>5, <2>6, <2>7, <2>8, <2>9, <2>10, <2>11, <2>12, <2>13,
       <2>14, <2>15 DEF Caller
<1>2. PICK label, c, up :
         /\ Goto(t, label, c, up)
         /\ up = TRUE => c \in Conns /\ watch[c] = "true" /\ label # "raw"
  BY <1>1
<1>3. /\ pc'[t] = label /\ conn'[t] = c /\ told'[t] = up
      /\ \A u \in Callers \ {t} :
            pc'[u] = pc[u] /\ conn'[u] = conn[u] /\ told'[u] = told[u]
  BY <1>ty, <1>2, GotoAt
<1>4. QED BY <1>t, <1>2, <1>3 DEF Told

LEMMA ToldStep == Typing /\ Handshake /\ Told /\ [Next]_vars => Told'
<1> SUFFICES ASSUME Typing, Handshake, Told, [Next]_vars PROVE Told'
  OBVIOUS
<1>1. CASE UNCHANGED callerVars
  BY <1>1, TrueStays DEF Told, callerVars
<1>2. ASSUME NEW c \in Conns, Reader(c) \/ Task(c) \/ Server(c) \/ Lose(c)
      PROVE  Told'
  BY <1>1, <1>2, ConnTypes
<1>3. CASE UNCHANGED vars BY <1>1, <1>3 DEF vars
<1>4. QED BY <1>2, <1>3, CallerTold DEF Next

\* The frames under way, one behind the others ...
LEMMA BehindAppend ==
    ASSUME NEW q \in Seq(Sent), NEW f \in Sent, Behind(q),
           f.told => f.prefixed /\ f.kind = "run",
           AnyTold(q) => f.kind = "run"
    PROVE  /\ Behind(Append(q, f))
           /\ AnyTold(Append(q, f)) => AnyTold(q) \/ f.told
<1>1. PICK r \in Seq(Sent) : r = Append(q, f) BY AppendProperties
<1>2. /\ Len(r) = Len(q) + 1 /\ r[Len(q) + 1] = f /\ Len(q) \in Nat
      /\ \A i \in 1 .. Len(q) : r[i] = q[i]
  BY <1>1, AppendProperties, LenProperties
<1>3. \A i \in 1 .. Len(r) : i \in 1 .. Len(q) \/ i = Len(q) + 1 BY <1>2
<1>4. ASSUME NEW i \in 1 .. Len(r), r[i].told, NEW j \in i .. Len(r)
      PROVE  r[i].prefixed /\ r[j].kind = "run"
  <2>1. CASE i \in 1 .. Len(q)
    <3>1. q[i].told BY <1>2, <1>4, <2>1
    <3>2. q[i].prefixed /\ \A k \in i .. Len(q) : q[k].kind = "run"
      BY <2>1, <3>1 DEF Behind
    <3>3. f.kind = "run" BY <2>1, <3>1 DEF AnyTold
    <3>4. (j \in i .. Len(q) /\ j \in 1 .. Len(q)) \/ j = Len(q) + 1 BY <1>2, <2>1
    <3>5. QED BY <1>2, <2>1, <3>2, <3>3, <3>4
  <2>2. CASE i = Len(q) + 1
    <3>1. j = i BY <1>2, <2>2
    <3>2. QED BY <1>2, <1>4, <2>2, <3>1
  <2>3. QED BY <1>3, <2>1, <2>2
<1>5. Behind(r)
  <2>1. ASSUME NEW i \in 1 .. Len(r), r[i].told
        PROVE  r[i].prefixed /\ \A j \in i .. Len(r) : r[j].kind = "run"
    <3>1. i \in i .. Len(r) BY <1>2
    <3>2. QED BY <1>4, <2>1, <3>1
  <2>2. QED BY <2>1 DEF Behind
<1>6. AnyTold(r) => AnyTold(q) \/ f.told BY <1>2, <1>3 DEF AnyTold
<1>7. QED BY <1>1, <1>5, <1>6

\* ... and the first taken.
LEMMA BehindTail ==
    ASSUME NEW q \in Seq(Sent), q # << >>, Behind(q)
    PROVE  Behind(Tail(q)) /\ (AnyTold(Tail(q)) => AnyTold(q))
<1>1. PICK r \in Seq(Sent) : r = Tail(q) BY HeadTailProperties
<1>2. /\ Len(r) = Len(q) - 1 /\ Len(q) \in Nat /\ Len(r) \in Nat
      /\ \A i \in 1 .. Len(r) : r[i] = q[i + 1]
  BY <1>1, HeadTailProperties, LenProperties
<1>3. \A i \in 1 .. Len(r) : i + 1 \in 1 .. Len(q) BY <1>2
<1>4. ASSUME NEW i \in 1 .. Len(r), r[i].told
      PROVE  r[i].prefixed /\ \A j \in i .. Len(r) : r[j].kind = "run"
  <2>1. q[i + 1].told BY <1>2, <1>4
  <2>2. q[i + 1].prefixed /\ \A k \in (i + 1) .. Len(q) : q[k].kind = "run"
    BY <1>3, <2>1 DEF Behind
  <2>3. \A j \in i .. Len(r) : j \in 1 .. Len(r) /\ j + 1 \in (i + 1) .. Len(q)
    BY <1>2
  <2>4. QED BY <1>2, <2>2, <2>3
<1>5. Behind(r) BY <1>4 DEF Behind
<1>6. AnyTold(r) => AnyTold(q) BY <1>2, <1>3 DEF AnyTold
<1>7. QED BY <1>1, <1>5, <1>6

LEMMA BehindNone == Behind(<< >>) /\ ~AnyTold(<< >>)
BY DEF Behind, AnyTold

LEMMA QueuedWrite ==
    ASSUME Typing, Handshake, Queued, [Next]_vars,
           NEW c \in Conns, NEW f \in Sent, Write(c, f),
           f.told => f.prefixed /\ f.kind = "run" /\ watch[c] = "true",
           AnyTold(toServer[c]) => f.kind = "run"
    PROVE  Queued'
<1>ty. TypeOK BY DEF Typing
<1>1. toServer[c] \in Seq(Sent) /\ Behind(toServer[c]) BY <1>ty DEF TypeOK, Queued
<1>2. /\ Behind(Append(toServer[c], f))
      /\ AnyTold(Append(toServer[c], f)) => AnyTold(toServer[c]) \/ f.told
  BY <1>1, BehindAppend
<1>3. /\ toServer'[c] = Append(toServer[c], f)
      /\ \A d \in Conns \ {c} : toServer'[d] = toServer[d]
  BY <1>ty DEF TypeOK, Write
<1>4. \A d \in Conns : watch[d] = "true" => watch'[d] = "true" BY TrueStays
<1>5. ASSUME NEW d \in Conns
      PROVE  Behind(toServer'[d]) /\ (AnyTold(toServer'[d]) => watch'[d] = "true")
  <2>1. CASE d = c BY <1>2, <1>3, <1>4, <2>1 DEF Queued
  <2>2. CASE d # c BY <1>3, <1>4, <2>2 DEF Queued
  <2>3. QED BY <2>1, <2>2
<1>6. QED BY <1>5 DEF Queued, Behind, AnyTold

LEMMA QueuedTake ==
    ASSUME Typing, Handshake, Queued, [Next]_vars, NEW c \in Conns, NEW q,
           q = << >> \/ (toServer[c] # << >> /\ q = Tail(toServer[c])),
           toServer' = [toServer EXCEPT ![c] = q]
    PROVE  Queued'
<1>ty. TypeOK BY DEF Typing
<1>1. toServer[c] \in Seq(Sent) /\ Behind(toServer[c]) BY <1>ty DEF TypeOK, Queued
<1>2. Behind(q) /\ (AnyTold(q) => AnyTold(toServer[c])) BY <1>1, BehindTail, BehindNone
<1>3. toServer'[c] = q /\ \A d \in Conns \ {c} : toServer'[d] = toServer[d]
  BY <1>ty DEF TypeOK
<1>4. \A d \in Conns : watch[d] = "true" => watch'[d] = "true" BY TrueStays
<1>5. ASSUME NEW d \in Conns
      PROVE  Behind(toServer'[d]) /\ (AnyTold(toServer'[d]) => watch'[d] = "true")
  <2>1. CASE d = c BY <1>2, <1>3, <1>4, <2>1 DEF Queued
  <2>2. CASE d # c BY <1>3, <1>4, <2>2 DEF Queued
  <2>3. QED BY <2>1, <2>2
<1>6. QED BY <1>5 DEF Queued, Behind, AnyTold

LEMMA QueuedStep ==
    Typing /\ Handshake /\ Told /\ Queued /\ [Next]_vars => Queued'
<1> SUFFICES ASSUME Typing, Handshake, Told, Queued, [Next]_vars PROVE Queued'
  OBVIOUS
<1> USE DEF clientVars, callerVars, readerVars, wireVars
<1>u. CASE UNCHANGED toServer
  <2>1. \A c \in Conns : watch[c] = "true" => watch'[c] = "true" BY TrueStays
  <2>2. QED BY <1>u, <2>1 DEF Queued, Behind, AnyTold
<1>1. ASSUME NEW t \in Callers, Caller(t) PROVE Queued'
  <2>1. CASE Send(t)
    <3>1. pc[t] \in {"raw", "prefixed"} /\ conn[t] \in Conns
      BY <2>1 DEF Send, Typing, Holding
    <3>2. PICK p \in BOOLEAN, u \in BOOLEAN : p = (pc[t] = "prefixed") /\ u = told[t]
      BY DEF Typing, TypeOK
    <3>3. PICK f \in Sent : f = [kind |-> "run", prefixed |-> p, told |-> u]
      BY SentTypes
    <3>4. f.kind = "run" /\ f.prefixed = p /\ f.told = u BY <3>3
    <3>5. Write(conn[t], f) \/ UNCHANGED toServer BY <2>1, <3>2, <3>3 DEF Send
    <3>6. u => p /\ watch[conn[t]] = "true" BY <3>1, <3>2 DEF Told
    <3>7. QED BY <1>u, <3>1, <3>4, <3>5, <3>6, QueuedWrite
  <2>2. CASE ~Send(t)
    <3>1. UNCHANGED toServer
      BY <1>1, <2>2 DEF Caller, ConnectNetwork, Join, Assume, StartDial, DialFails, Install,
           Changed, Reset, Cancel, Call, Grab, Frame, Close, HangUp, DialSucceeds
    <3>2. QED BY <1>u, <3>1
  <2>3. QED BY <2>1, <2>2
<1>2. ASSUME NEW c \in Conns, Reader(c) PROVE Queued'
  <2>1. CASE Verify(c) \/ Hello(c)
    <3>1. rd[c] \in {"verify", "hello"} BY <2>1 DEF Verify, Hello
    <3>2. ~AnyTold(toServer[c]) BY <3>1 DEF Queued, Handshake, Shaken
    <3>3. PICK f \in Sent : ~f.told /\ (Write(c, f) \/ UNCHANGED toServer)
      <4>1. CASE Verify(c)
        BY <4>1, SentTypes DEF Verify, WriteOrEnd, get_verify_buff
      <4>2. CASE Hello(c)
        BY <4>2, SentTypes DEF Hello, WriteOrEnd, get_session_id_buff
      <4>3. QED BY <2>1, <4>1, <4>2
    <3>4. QED BY <1>u, <3>2, <3>3, QueuedWrite
  <2>2. CASE ReadAccept(c) \/ ReadRefuse(c) \/ ReadEnds(c) \/ Clean(c) \/ Drop(c)
    BY <1>u, <2>2 DEF ReadAccept, ReadRefuse, ReadEnds, Clean, Drop
  <2>3. QED BY <1>2, <2>1, <2>2 DEF Reader
<1>3. ASSUME NEW c \in Conns, Task(c) PROVE Queued'
  BY <1>u, <1>3 DEF Task, ConnectFunction, ConnectFailed
<1>4. ASSUME NEW c \in Conns, Server(c) \/ Lose(c) PROVE Queued'
  <2>1. \E q : /\ q = << >> \/ (toServer[c] # << >> /\ q = Tail(toServer[c]))
               /\ toServer' = [toServer EXCEPT ![c] = q]
    BY <1>4 DEF Server, ServerAccepts, ServerRefuses, ServerReads, ServerEnds, Lose, Takes,
                Closes
  <2>2. QED BY <2>1, QueuedTake
<1>5. CASE UNCHANGED vars BY <1>u, <1>5 DEF vars
<1>6. QED BY <1>1, <1>2, <1>3, <1>4, <1>5 DEF Next

LEMMA InitTold == Init => Told /\ Queued
BY BehindNone DEF Init, Told, Queued

-----------------------------------------------------------------------------
(* The theorems                                                            *)

LEMMA Invariant == Spec => [](Typing /\ Handshake /\ Netted /\ Told /\ Queued)
<1> DEFINE IInv == Typing /\ Handshake /\ Netted /\ Told /\ Queued
<1>1. Init => IInv BY InitTyping, InitHandshake, InitNetted, InitTold
<1>2. IInv /\ [Next]_vars => IInv'
  BY TypingStep, HandshakeStep, NettedStep, ToldStep, QueuedStep
<1>3. QED BY <1>1, <1>2, PTL DEF Spec

\* No dead connection stays in net: the one it holds has a reader that will take it out.
THEOREM NetHolds == Spec => []NetHasReader
BY Invariant, PTL DEF Netted

\* A connection that is open is in net, or in the hands of the task that brings it there
\* or takes it away: none is left open and forgotten, whoever closes, reconnects or gives
\* up meanwhile.
THEOREM NothingForgotten == Spec => []NoneForgotten
BY Invariant, PTL DEF Netted

\* A caller that joins a handshake joins that of the connection in net.
THEOREM JoinsTheCurrent == Spec => []JoinsItsOwn
BY Invariant, PTL DEF Netted

\* connect_network reports a success to a caller that waited only if the server has
\* accepted that connection.
THEOREM SuccessIsAcceptance == Spec => []ToldIsAccepted
<1>1. Handshake /\ Told => ToldIsAccepted
  BY DEF Handshake, Shaken, Told, ToldIsAccepted, Accepted
<1>2. QED BY <1>1, Invariant, PTL

\* What a caller sends on a connection it was told of is prefixed with its length, as the
\* server of an accepted connection reads it, and comes behind the handshake's frames.
THEOREM FramedForServer == Spec => []ToldIsUnderstood
<1>1. Queued => ToldIsUnderstood BY DEF Queued, Behind, ToldIsUnderstood
<1>2. QED BY <1>1, Invariant, PTL

\* A caller that waits for a handshake is never left behind: the reader that still has the
\* sender of its channel has not reached its end.
THEOREM WaitersAreServed == Spec => []WaiterHasSender
<1>1. Typing /\ Handshake /\ Netted => WaiterHasSender
  BY DEF Typing, Holding, Handshake, Shaken, Netted, Installing, WaiterHasSender
<1>2. QED BY <1>1, Invariant, PTL
=============================================================================
