------------------------------ MODULE ChatUsers ------------------------------
(***************************************************************************)
(* The message server of examples/msg: the list of users behind an actor, *)
(* and the handlers that use it, each a task of its own.                  *)
(*                                                                         *)
(* A handler takes the actor's lock once per question, so the list may    *)
(* change between its questions; get_users does not take it at all.  The  *)
(* manager, under its own lock, removes a session and calls its Closed    *)
(* function, handlers of that session may still be at work (and requests  *)
(* may still come, see stale_detach in ServerSessions).  get_token waits  *)
(* for the manager; what becomes of a message is in CallPath and          *)
(* TokenCalls.  The Connect and Disconnect functions only log.            *)
(***************************************************************************)
EXTENDS Naturals, SequencesExt

CONSTANTS
    Sessions,   (* session ids                                    *)
    Names,      (* nicknames                                      *)
    Tasks,      (* bound: the requests handled in a behaviour     *)
    NoSession,
    NoName

ASSUME NoneAssumption == NoSession \notin Sessions /\ NoName \notin Names

VARIABLES
    users,      \* UserManager::users
    dict,       \* the sessions the manager knows
    closing,    \* the session whose Closed function runs
    before,     \* the users before a removal that is under way: << >> for none
    task,       \* the handlers
    sent,       \* the messages sent by each task on each token
    \* history: the names two logins found free together, the sessions that logged in
    \* after their end, the sessions there when a talk began
    raced, ghosts, audience

stateVars   == <<users, dict, closing, before>>
historyVars == <<raced, ghosts, audience>>
vars == <<stateVars, task, sent, historyVars>>

User == [nickname : Names, session_id : Sessions]
Ops  == {"login", "get_users", "talk", "to", "ping"}
Job  == [pc : {"idle", "check", "add", "find", "list", "target", "send", "wait", "done"},
         op : Ops, who : Sessions \cup {NoSession},
         name : Names \cup {NoName}, me : Names \cup {NoName},
         todo : Seq(User), reply : {"none", "ok", "no", "err"}]

TypeOK ==
    /\ users \in Seq(User) /\ before \in Seq(User)
    /\ dict \subseteq Sessions
    /\ closing \in Sessions \cup {NoSession}
    /\ task \in [Tasks -> Job]
    /\ sent \in [Tasks -> [Sessions -> Nat]]
    /\ raced \subseteq Names /\ ghosts \subseteq Sessions
    /\ audience \in [Tasks -> SUBSET Sessions]

Init ==
    /\ users = << >> /\ dict = Sessions
    /\ closing = NoSession /\ before = << >>
    /\ task = [t \in Tasks |-> [pc |-> "idle", op |-> "login", who |-> NoSession,
                                name |-> NoName, me |-> NoName, todo |-> << >>, reply |-> "none"]]
    /\ sent = [t \in Tasks |-> [s \in Sessions |-> 0]]
    /\ raced = {} /\ ghosts = {} /\ audience = [t \in Tasks |-> {}]

-----------------------------------------------------------------------------
(* UserManager                                                             *)

\* Mutant: the last user is not looked at.
check_nickname_short(n) == \A i \in 1 .. Len(users) - 1 : users[i].nickname # n

check_nickname(n) == \A i \in DOMAIN users : users[i].nickname # n

add(u) == Append(users, u)

\* The index of the first user that fits; 0 for none.
find(s)             == SelectInSeq(users, LAMBDA u : u.session_id = s)
find_by_nickname(n) == SelectInSeq(users, LAMBDA u : u.nickname = n)

\* Mutant: nobody is taken out.
remove_none(s) == users

remove(s) == IF find(s) = 0 THEN users ELSE RemoveAt(users, find(s))

\* A removal shifts the users behind it down while get_users may be reading: it copies p
\* users before the shift and the rest after, the last one from where it was.
get_users(p) ==
    IF before = << >> THEN users
    ELSE SubSeq(before, 1, p) \o SubSeq(Append(users, Last(before)), p + 1, Len(before))

\* The actor's lock: nothing is awaited under it, but a removal has a middle.
Unlocked == before = << >>

-----------------------------------------------------------------------------
(* The handlers                                                            *)

At(t, label) == task[t].pc = label

Goes(t, r) == task' = [task EXCEPT ![t] = r]

Replies(t, reply) == Goes(t, [task[t] EXCEPT !.pc = "done", !.reply = reply])

Over(s) == s \notin dict /\ closing # s

Begins(op) == [login |-> "check", get_users |-> "list", talk |-> "find", to |-> "find", ping |-> "find"][op]

Start(t, op, s, n) ==
    /\ At(t, "idle")
    /\ n = NoName <=> op \in {"get_users", "talk"}
    /\ Goes(t, [task[t] EXCEPT !.pc = Begins(op), !.op = op, !.who = s, !.name = n])
    /\ UNCHANGED <<stateVars, sent, historyVars>>

Check(t) ==
    /\ At(t, "check") /\ Unlocked
    /\ LET n == task[t].name IN
          \/ /\ check_nickname(n)
             /\ Goes(t, [task[t] EXCEPT !.pc = "add"])
             /\ raced' = raced \cup {m \in {n} : \E u \in Tasks : At(u, "add") /\ task[u].name = m}
          \/ /\ ~check_nickname(n)
             /\ Replies(t, "no")
             /\ UNCHANGED raced
    /\ UNCHANGED <<stateVars, sent, ghosts, audience>>

Add(t) ==
    /\ At(t, "add") /\ Unlocked
    /\ users' = add([nickname |-> task[t].name, session_id |-> task[t].who])
    /\ Replies(t, "ok")
    /\ ghosts' = ghosts \cup {s \in {task[t].who} : Over(s)}
    /\ UNCHANGED <<dict, closing, before, sent, raced, audience>>

\* talk, to and ping begin with the user of their own session: "not login".
Find(t) ==
    /\ At(t, "find") /\ Unlocked
    /\ LET i == find(task[t].who) IN
          \/ i = 0 /\ Replies(t, "err")
          \/ /\ i # 0
             /\ Goes(t, [task[t] EXCEPT !.pc = IF task[t].op = "talk" THEN "list" ELSE "target",
                                        !.me = users[i].nickname])
    /\ audience' = [audience EXCEPT ![t] = {users[i].session_id : i \in DOMAIN users}]
    /\ UNCHANGED <<stateVars, sent, raced, ghosts>>

\* A talk whose reading of the list meets a removal may miss anyone.
List(t, p) ==
    /\ At(t, "list")
    /\ \/ task[t].op = "get_users" /\ Replies(t, "ok")
       \/ task[t].op = "talk" /\ Goes(t, [task[t] EXCEPT !.pc = "send", !.todo = get_users(p)])
    /\ audience' = [audience EXCEPT ![t] = IF Unlocked THEN @ ELSE {}]
    /\ UNCHANGED <<stateVars, sent, raced, ghosts>>

Target(t) ==
    /\ At(t, "target") /\ Unlocked
    /\ LET i == find_by_nickname(task[t].name) IN
          \/ i = 0 /\ Replies(t, "err")
          \/ i # 0 /\ Goes(t, [task[t] EXCEPT !.pc = "send", !.todo = <<users[i]>>])
    /\ UNCHANGED <<stateVars, sent, historyVars>>

\* Mutant: the sender's own token is taken.
Receiver_own(t) == task[t].who

\* Mutant: the next user's.
Receiver_last(t) == Last(task[t].todo).session_id

Receiver(t) == Head(task[t].todo).session_id

Message(t) == sent' = [sent EXCEPT ![t][Receiver(t)] = @ + 1]

\* get_token and message, for one user after the other; not for the sender, nor for a
\* session that is gone.
Talk(t) ==
    /\ At(t, "send") /\ task[t].op = "talk" /\ task[t].todo # << >>
    /\ \/ Receiver(t) = task[t].who /\ UNCHANGED sent
       \/ /\ Receiver(t) # task[t].who /\ closing = NoSession
          /\ IF Receiver(t) \in dict THEN Message(t) ELSE UNCHANGED sent
    /\ Goes(t, [task[t] EXCEPT !.todo = Tail(@)])
    /\ UNCHANGED <<stateVars, historyVars>>

TalkEnds(t) ==
    /\ At(t, "send") /\ task[t].op = "talk" /\ task[t].todo = << >>
    /\ Replies(t, "ok")
    /\ UNCHANGED <<stateVars, sent, historyVars>>

\* to sends and is done, ping waits for the client's answer.
To(t) ==
    /\ At(t, "send") /\ task[t].op \in {"to", "ping"}
    /\ closing = NoSession
    /\ \/ Receiver(t) \notin dict /\ Replies(t, "err") /\ UNCHANGED sent
       \/ /\ Receiver(t) \in dict /\ Message(t)
          /\ \/ task[t].op = "to" /\ Replies(t, "ok")
             \/ task[t].op = "ping" /\ Goes(t, [task[t] EXCEPT !.pc = "wait"])
    /\ UNCHANGED <<stateVars, historyVars>>

Pong(t) ==
    /\ At(t, "wait")
    /\ Replies(t, "ok") \/ Replies(t, "err")
    /\ UNCHANGED <<stateVars, sent, historyVars>>

-----------------------------------------------------------------------------
(* check_tokens_disconnect_timeout: the session, then its Closed function *)

Sweep(s) ==
    /\ closing = NoSession /\ s \in dict
    /\ dict' = dict \ {s}
    /\ closing' = s
    /\ UNCHANGED <<users, before, task, sent, historyVars>>

Close ==
    /\ closing # NoSession /\ Unlocked
    /\ users' = remove(closing)
    /\ \/ users' = users /\ closing' = NoSession /\ UNCHANGED before
       \/ users' # users /\ before' = users /\ UNCHANGED closing
    /\ UNCHANGED <<dict, task, sent, historyVars>>

Closed ==
    /\ ~Unlocked
    /\ before' = << >>
    /\ closing' = NoSession
    /\ UNCHANGED <<users, dict, task, sent, historyVars>>

-----------------------------------------------------------------------------
Handler(t) ==
    \/ \E op \in Ops, s \in Sessions, n \in Names \cup {NoName} : Start(t, op, s, n)
    \/ Check(t) \/ Add(t) \/ Find(t) \/ Target(t) \/ Talk(t) \/ TalkEnds(t) \/ To(t) \/ Pong(t)
    \/ \E p \in 0 .. Len(before) : List(t, p)

Next ==
    \/ \E t \in Tasks : Handler(t)
    \/ \E s \in Sessions : Sweep(s)
    \/ Close \/ Closed

Spec == Init /\ [][Next]_vars
-----------------------------------------------------------------------------
(* Properties                                                              *)

LoggedIn(s) == {t \in Tasks : task[t].op = "login" /\ task[t].who = s /\ task[t].reply = "ok"}

\* check_nickname and add are two acquisitions of the actor's lock.  Two users share a
\* nickname only if two logins found it free together: no logout in between, and no
\* second login of a session, lets a taken name in.
NamesClashInRaces ==
    \A i, j \in DOMAIN users :
        i # j /\ users[i].nickname = users[j].nickname => users[i].nickname \in raced

\* A session that is over has left the list, unless it logged in more than once, for
\* close removes one user only, or a login was still at work when close ran.
ClosedHasLeft ==
    \A s \in Sessions :
        Over(s) /\ find(s) # 0 => s \in ghosts \/ \E t, u \in LoggedIn(s) : t # u

\* A talk that is done was sent to everyone who was in the list when it began and is
\* still known, and not to the sender, whoever logs in or leaves meanwhile; unless it
\* read the list, without the lock, in the middle of a removal.
TalkReaches ==
    \A t \in Tasks :
        task[t].op = "talk" /\ task[t].reply = "ok" =>
            /\ sent[t][task[t].who] = 0
            /\ \A s \in (audience[t] \cap dict) \ {task[t].who} : sent[t][s] > 0

\* A private message or a ping goes to a session that logged in under the name that was
\* asked for, and shows a name of the sender's own session.
PrivateIsForTheNamed ==
    \A t \in Tasks : task[t].op \in {"to", "ping"} =>
        /\ \A s \in Sessions : sent[t][s] > 0 => \E u \in LoggedIn(s) : task[u].name = task[t].name
        /\ task[t].me # NoName => \E u \in LoggedIn(task[t].who) : task[u].name = task[t].me
=============================================================================
