-------------------------- MODULE ChatUsersProofs --------------------------
(* Proofs of the safety properties of ChatUsers, for any sets of sessions, *)
(* names and requests.                                                     *)
EXTENDS ChatUsers, SequenceFacts, TLAPS

-----------------------------------------------------------------------------
(* The invariants                                                          *)

\* Where the handlers of each kind of request pass.
Labels(op) == {"idle", "done"} \cup
    [login |-> {"check", "add"}, get_users |-> {"list"}, talk |-> {"find", "list", "send"},
     to |-> {"find", "target", "send"}, ping |-> {"find", "target", "send", "wait"}][op]

\* A handler is at one of them, has its session, and its name if its request has one;
\* it has replied when it is done, and has done nothing before it begins.
Placed(t) ==
    /\ task[t].pc \in Labels(task[t].op)
    /\ task[t].pc # "idle" => task[t].who \in Sessions
    /\ task[t].pc # "idle" /\ task[t].op \notin {"get_users", "talk"} => task[t].name \in Names
    /\ task[t].pc # "done" => task[t].reply = "none"
    /\ task[t].pc = "idle" => task[t].me = NoName /\ \A s \in Sessions : sent[t][s] = 0

\* A removal under way is of the session whose Closed function runs, and of one user.
Removal ==
    /\ closing # NoSession => closing \notin dict
    /\ ~Unlocked => closing # NoSession /\ Len(before) = Len(users) + 1

Typing == TypeOK /\ Removal /\ \A t \in Tasks : Placed(t)

\* A login about to add a name that is taken, or that another one is about to add, has
\* found it free together with another one.
Free ==
    /\ \A t, u \in Tasks :
          t # u /\ At(t, "add") /\ At(u, "add") /\ task[t].name = task[u].name =>
              task[t].name \in raced
    /\ \A t \in Tasks : At(t, "add") =>
          \A i \in DOMAIN users : users[i].nickname = task[t].name => task[t].name \in raced
    /\ NamesClashInRaces

\* Whether a session has logged in under a name.
Known(s, n) == \E t \in LoggedIn(s) : task[t].name = n

\* A private message: nothing is sent, or to the one user that was found by the name.
Addressed(t) ==
    /\ At(t, "send") =>
          /\ task[t].todo # << >> /\ Known(Receiver(t), task[t].name)
          /\ \A s \in Sessions : sent[t][s] = 0
    /\ task[t].pc \in {"find", "target"} => \A s \in Sessions : sent[t][s] = 0
    /\ \A s \in Sessions : sent[t][s] > 0 => Known(s, task[t].name)
    /\ task[t].me # NoName => Known(task[t].who, task[t].me)

\* Users have logged in.
Registered == \A i \in DOMAIN users : Known(users[i].session_id, users[i].nickname)

Private == \A t \in Tasks : task[t].op \in {"to", "ping"} => Addressed(t)

Twice(s) == \E t, u \in LoggedIn(s) : t # u

Absent(s) == \A i \in DOMAIN users : users[i].session_id # s

\* One login, one user; and a session that close has been through has none.
Alone(s) == \A i, j \in DOMAIN users :
    i # j /\ users[i].session_id = s /\ users[j].session_id = s => Twice(s)

Left(s) == s \notin dict /\ (closing # s \/ ~Unlocked) => Absent(s) \/ s \in ghosts \/ Twice(s)

Leaving == \A s \in Sessions : Alone(s) /\ Left(s)

Listed == {users[i].session_id : i \in DOMAIN users}

ToCome(t) == {task[t].todo[i].session_id : i \in DOMAIN task[t].todo}

\* Those a talk has to reach: none has been skipped.
Reaching(t) ==
    /\ task[t].pc # "idle" => sent[t][task[t].who] = 0
    /\ At(t, "list") => audience[t] \cap dict \subseteq Listed
    /\ At(t, "send") => \A s \in (audience[t] \cap dict) \ {task[t].who} :
          sent[t][s] > 0 \/ s \in ToCome(t)
    /\ task[t].reply = "ok" => \A s \in (audience[t] \cap dict) \ {task[t].who} : sent[t][s] > 0

Talking == \A t \in Tasks : task[t].op = "talk" => Reaching(t)

IInv == Typing /\ Free /\ Registered /\ Private /\ Leaving /\ Talking

-----------------------------------------------------------------------------
(* UserManager's operations on the list                                    *)

LEMMA FindMeans ==
    ASSUME users \in Seq(User), NEW s
    PROVE  \/ find(s) = 0 /\ \A i \in DOMAIN users : users[i].session_id # s
           \/ find(s) \in DOMAIN users /\ users[find(s)].session_id = s
<1>1. DOMAIN users = 1 .. Len(users) /\ Len(users) \in Nat BY LenProperties
<1>2. PICK T : T = {i \in 1 .. Len(users) : users[i].session_id = s} OBVIOUS
<1>3. find(s) = IF T # {} THEN Min(T) ELSE 0 BY <1>2 DEF find, SelectInSeq
<1>4. CASE T = {} BY <1>1, <1>2, <1>3, <1>4
<1>5. CASE T # {}
  <2>1. T \subseteq Nat BY <1>2
  <2>2. Min(T) \in T BY <1>5, <2>1, MinIn
  <2>3. QED BY <1>1, <1>2, <1>3, <1>5, <2>2
<1>6. QED BY <1>4, <1>5

LEMMA FindByNicknameMeans ==
    ASSUME users \in Seq(User), NEW n, find_by_nickname(n) # 0
    PROVE  /\ find_by_nickname(n) \in DOMAIN users
           /\ users[find_by_nickname(n)].nickname = n
<1>1. DOMAIN users = 1 .. Len(users) /\ Len(users) \in Nat BY LenProperties
<1>2. PICK T : T = {i \in 1 .. Len(users) : users[i].nickname = n} OBVIOUS
<1>3. find_by_nickname(n) = IF T # {} THEN Min(T) ELSE 0
  BY <1>2 DEF find_by_nickname, SelectInSeq
<1>4. T # {} /\ T \subseteq Nat BY <1>2, <1>3
<1>5. Min(T) \in T BY <1>4, MinIn
<1>6. QED BY <1>1, <1>2, <1>3, <1>4, <1>5

\* Where the elements of a sequence come from when the one at i has been taken out.
From(i, j) == IF j < i THEN j ELSE j + 1

LEMMA RemoveAtMeans ==
    ASSUME NEW q \in Seq(User), NEW i \in 1 .. Len(q)
    PROVE  /\ RemoveAt(q, i) \in Seq(User)
           /\ Len(RemoveAt(q, i)) = Len(q) - 1
           /\ \A j \in 1 .. Len(q) - 1 : RemoveAt(q, i)[j] = q[From(i, j)]
<1>1. Len(q) \in Nat /\ \A j \in 1 .. Len(q) : q[j] \in User
  BY LenProperties, ElementOfSeq
<1>2. PICK a : a = SubSeq(q, 1, i - 1) OBVIOUS
<1>3. PICK b : b = SubSeq(q, i + 1, Len(q)) OBVIOUS
<1>4. /\ 1 \in Int /\ i - 1 \in Int /\ i + 1 \in Int /\ Len(q) \in Int
      /\ \A j \in 1 .. i - 1 : q[j] \in User
      /\ \A j \in i + 1 .. Len(q) : q[j] \in User
  BY <1>1
<1>5. /\ a \in Seq(User) /\ Len(a) = i - 1
      /\ \A j \in 1 .. i - 1 : a[j] = q[j]
  <2>1. /\ SubSeq(q, 1, i - 1) \in Seq(User)
        /\ Len(SubSeq(q, 1, i - 1)) = IF 1 <= i - 1 THEN (i - 1) - 1 + 1 ELSE 0
        /\ \A j \in 1 .. (i - 1) - 1 + 1 : SubSeq(q, 1, i - 1)[j] = q[1 + j - 1]
    BY <1>4, SubSeqProperties
  <2>2. QED BY <1>1, <1>2, <2>1
<1>6. /\ b \in Seq(User) /\ Len(b) = Len(q) - i
      /\ \A j \in 1 .. Len(q) - i : b[j] = q[i + j]
  <2>1. /\ SubSeq(q, i + 1, Len(q)) \in Seq(User)
        /\ Len(SubSeq(q, i + 1, Len(q))) =
              IF i + 1 <= Len(q) THEN Len(q) - (i + 1) + 1 ELSE 0
        /\ \A j \in 1 .. Len(q) - (i + 1) + 1 :
              SubSeq(q, i + 1, Len(q))[j] = q[(i + 1) + j - 1]
    BY <1>4, SubSeqProperties
  <2>2. QED BY <1>1, <1>3, <2>1
<1>7. RemoveAt(q, i) = a \o b BY <1>2, <1>3 DEF RemoveAt
<1>8. /\ a \o b \in Seq(User)
      /\ Len(a \o b) = Len(a) + Len(b)
      /\ \A j \in 1 .. Len(a) + Len(b) :
            (a \o b)[j] = IF j <= Len(a) THEN a[j] ELSE b[j - Len(a)]
  BY <1>5, <1>6, ConcatProperties
<1>9. ASSUME NEW j \in 1 .. Len(q) - 1 PROVE (a \o b)[j] = q[From(i, j)]
  <2>1. CASE j < i BY <1>1, <1>5, <1>6, <1>8, <2>1 DEF From
  <2>2. CASE ~(j < i)
    <3>1. (a \o b)[j] = b[j - (i - 1)] BY <1>1, <1>5, <1>6, <1>8, <2>2
    <3>2. j - (i - 1) \in 1 .. Len(q) - i BY <1>1, <2>2
    <3>3. b[j - (i - 1)] = q[i + (j - (i - 1))] BY <1>6, <3>2
    <3>4. i + (j - (i - 1)) = j + 1 OBVIOUS
    <3>5. QED BY <2>2, <3>1, <3>3, <3>4 DEF From
  <2>3. QED BY <2>1, <2>2
<1>10. QED BY <1>1, <1>5, <1>6, <1>7, <1>8, <1>9

-----------------------------------------------------------------------------
(* What the handlers do                                                    *)

Others(t) == \A u \in Tasks \ {t} : task'[u] = task[u]

\* The request stays what it is.
Fixed(t) ==
    /\ task'[t].op = task[t].op /\ task'[t].who = task[t].who
    /\ task'[t].name = task[t].name

\* A handler at work changes nobody else's task; the request is given when it begins.
Handles(t) ==
    /\ Others(t) /\ task[t].pc # "done"
    /\ task[t].pc # "idle" => Fixed(t)

LEMMA LabelsAre ==
    /\ Labels("login") = {"idle", "done", "check", "add"}
    /\ Labels("get_users") = {"idle", "done", "list"}
    /\ Labels("talk") = {"idle", "done", "find", "list", "send"}
    /\ Labels("to") = {"idle", "done", "find", "target", "send"}
    /\ Labels("ping") = {"idle", "done", "find", "target", "send", "wait"}
BY DEF Labels

LEMMA BeginsAre ==
    /\ Begins("login") = "check" /\ Begins("get_users") = "list" /\ Begins("talk") = "find"
    /\ Begins("to") = "find" /\ Begins("ping") = "find"
BY DEF Begins

LEMMA GoesMeans ==
    ASSUME TypeOK, NEW t \in Tasks, NEW r \in Job, Goes(t, r)
    PROVE  task' \in [Tasks -> Job] /\ task'[t] = r /\ Others(t)
BY DEF TypeOK, Goes, Others

\* A handler replies.
LEMMA RepliesMeans ==
    ASSUME TypeOK, NEW t \in Tasks, NEW reply \in {"ok", "no", "err"}, Replies(t, reply)
    PROVE  /\ task' \in [Tasks -> Job] /\ Others(t) /\ Fixed(t)
           /\ task'[t].pc = "done" /\ task'[t].reply = reply
           /\ task'[t].me = task[t].me /\ task'[t].todo = task[t].todo
<1>1. PICK k \in Job : k = task[t] BY DEF TypeOK
<1>2. PICK r : r = [k EXCEPT !.pc = "done", !.reply = reply] OBVIOUS
<1>3. /\ r \in Job /\ r.pc = "done" /\ r.reply = reply
      /\ r.op = k.op /\ r.who = k.who /\ r.name = k.name /\ r.me = k.me /\ r.todo = k.todo
  BY <1>2 DEF Job
<1>4. Goes(t, r) BY <1>1, <1>2 DEF Replies
<1>5. QED BY <1>1, <1>3, <1>4, GoesMeans DEF Fixed

\* A handler goes on to the label l.
LEMMA MovesMeans ==
    ASSUME TypeOK, NEW t \in Tasks, NEW l \in {"add", "wait"},
           Goes(t, [task[t] EXCEPT !.pc = l])
    PROVE  /\ task' \in [Tasks -> Job] /\ Others(t) /\ Fixed(t)
           /\ task'[t].pc = l /\ task'[t].reply = task[t].reply
           /\ task'[t].me = task[t].me /\ task'[t].todo = task[t].todo
<1>1. PICK k \in Job : k = task[t] BY DEF TypeOK
<1>2. PICK r : r = [k EXCEPT !.pc = l] OBVIOUS
<1>3. /\ r \in Job /\ r.pc = l /\ r.reply = k.reply
      /\ r.op = k.op /\ r.who = k.who /\ r.name = k.name /\ r.me = k.me /\ r.todo = k.todo
  BY <1>2 DEF Job
<1>4. Goes(t, r) BY <1>1, <1>2
<1>5. QED BY <1>1, <1>3, <1>4, GoesMeans DEF Fixed

\* It has found the user of its own session, of name n.
LEMMA FoundMeans ==
    ASSUME TypeOK, NEW t \in Tasks, NEW l \in {"list", "target"}, NEW n \in Names,
           Goes(t, [task[t] EXCEPT !.pc = l, !.me = n])
    PROVE  /\ task' \in [Tasks -> Job] /\ Others(t) /\ Fixed(t)
           /\ task'[t].pc = l /\ task'[t].reply = task[t].reply
           /\ task'[t].me = n /\ task'[t].todo = task[t].todo
<1>1. PICK k \in Job : k = task[t] BY DEF TypeOK
<1>2. PICK r : r = [k EXCEPT !.pc = l, !.me = n] OBVIOUS
<1>3. /\ r \in Job /\ r.pc = l /\ r.reply = k.reply
      /\ r.op = k.op /\ r.who = k.who /\ r.name = k.name /\ r.me = n /\ r.todo = k.todo
  BY <1>2 DEF Job
<1>4. Goes(t, r) BY <1>1, <1>2
<1>5. QED BY <1>1, <1>3, <1>4, GoesMeans DEF Fixed

\* It has q to send to.
LEMMA SendsMeans ==
    ASSUME TypeOK, NEW t \in Tasks, NEW q \in Seq(User),
           \/ Goes(t, [task[t] EXCEPT !.pc = "send", !.todo = q])
           \/ At(t, "send") /\ Goes(t, [task[t] EXCEPT !.todo = q])
    PROVE  /\ task' \in [Tasks -> Job] /\ Others(t) /\ Fixed(t)
           /\ task'[t].pc = "send" /\ task'[t].reply = task[t].reply
           /\ task'[t].me = task[t].me /\ task'[t].todo = q
<1>1. PICK k \in Job : k = task[t] BY DEF TypeOK
<1>2. CASE Goes(t, [task[t] EXCEPT !.pc = "send", !.todo = q])
  <2>1. PICK r : r = [k EXCEPT !.pc = "send", !.todo = q] OBVIOUS
  <2>2. /\ r \in Job /\ r.pc = "send" /\ r.reply = k.reply
        /\ r.op = k.op /\ r.who = k.who /\ r.name = k.name /\ r.me = k.me /\ r.todo = q
    BY <2>1 DEF Job
  <2>3. Goes(t, r) BY <1>1, <1>2, <2>1
  <2>4. QED BY <1>1, <2>2, <2>3, GoesMeans DEF Fixed
<1>3. CASE At(t, "send") /\ Goes(t, [task[t] EXCEPT !.todo = q])
  <2>1. PICK r : r = [k EXCEPT !.todo = q] OBVIOUS
  <2>2. /\ r \in Job /\ r.pc = k.pc /\ r.reply = k.reply
        /\ r.op = k.op /\ r.who = k.who /\ r.name = k.name /\ r.me = k.me /\ r.todo = q
    BY <2>1 DEF Job
  <2>3. Goes(t, r) /\ k.pc = "send" BY <1>1, <1>3, <2>1 DEF At
  <2>4. QED BY <1>1, <2>2, <2>3, GoesMeans DEF Fixed
<1>4. QED BY <1>2, <1>3

\* It begins.
LEMMA StartMeans ==
    ASSUME TypeOK, NEW t \in Tasks, NEW op \in Ops, NEW s \in Sessions,
           NEW n \in Names \cup {NoName}, Start(t, op, s, n)
    PROVE  /\ task' \in [Tasks -> Job] /\ Others(t)
           /\ task'[t].pc = Begins(op) /\ task'[t].reply = task[t].reply
           /\ task'[t].op = op /\ task'[t].who = s /\ task'[t].name = n
           /\ task'[t].me = task[t].me
<1>1. PICK k \in Job : k = task[t] BY DEF TypeOK
<1>2. PICK l : l = Begins(op) OBVIOUS
<1>3. l \in {"check", "list", "find"} BY <1>2, BeginsAre DEF Ops
<1>4. PICK r : r = [k EXCEPT !.pc = l, !.op = op, !.who = s, !.name = n] OBVIOUS
<1>5. /\ r \in Job /\ r.pc = l /\ r.reply = k.reply
      /\ r.op = op /\ r.who = s /\ r.name = n /\ r.me = k.me
  BY <1>3, <1>4 DEF Job
<1>6. Goes(t, r) BY <1>1, <1>2, <1>4 DEF Start
<1>7. QED BY <1>1, <1>2, <1>5, <1>6, GoesMeans

-----------------------------------------------------------------------------
(* What a step of a handler leaves alone                                   *)

LEMMA LoginsStay ==
    ASSUME Typing, NEW t \in Tasks, Handles(t)
    PROVE  \A u \in Tasks : task[u].reply = "ok" => task'[u] = task[u]
BY DEF Typing, Placed, Handles, Others

LEMMA KnownStays ==
    ASSUME \A u \in Tasks : task[u].reply = "ok" => task'[u] = task[u]
    PROVE  /\ \A s, n : Known(s, n) => Known(s, n)'
           /\ \A s : Twice(s) => Twice(s)'
<1>1. \A s : LoggedIn(s) \subseteq LoggedIn(s)' BY DEF LoggedIn
<1>2. \A s : \A u \in LoggedIn(s) : task'[u] = task[u] BY DEF LoggedIn
<1>3. QED BY <1>1, <1>2 DEF Known, Twice

\* Nobody else is placed differently.
LEMMA PlacedStays ==
    ASSUME Typing, NEW t \in Tasks, Handles(t), Placed(t)',
           \A u \in Tasks \ {t} : sent'[u] = sent[u]
    PROVE  \A u \in Tasks : Placed(u)'
<1>1. ASSUME NEW u \in Tasks, u # t PROVE Placed(u)'
  <2>1. Placed(u) /\ task'[u] = task[u] /\ sent'[u] = sent[u]
    BY <1>1 DEF Typing, Handles, Others
  <2>2. QED BY <2>1 DEF Placed
<1>2. QED BY <1>1

\* The other handlers of messages keep what they have to say.
LEMMA PrivateStays ==
    ASSUME Typing, Private, NEW t \in Tasks, Handles(t),
           \A u \in Tasks \ {t} : sent'[u] = sent[u],
           task'[t].op \in {"to", "ping"} => Addressed(t)'
    PROVE  Private'
<1>1. \A s, n : Known(s, n) => Known(s, n)' BY LoginsStay, KnownStays
<1>2. ASSUME NEW u \in Tasks, u # t, task[u].op \in {"to", "ping"} PROVE Addressed(u)'
  <2>1. Addressed(u) /\ task'[u] = task[u] /\ sent'[u] = sent[u]
    BY <1>2 DEF Private, Handles, Others
  <2>2. QED BY <1>1, <2>1 DEF Addressed, At, Receiver
<1>3. ASSUME NEW u \in Tasks, (task[u].op \in {"to", "ping"})' PROVE Addressed(u)'
  <2>1. CASE u = t BY <1>3, <2>1
  <2>2. CASE u # t BY <1>2, <1>3, <2>2 DEF Handles, Others
  <2>3. QED BY <2>1, <2>2
<1>4. QED BY <1>3 DEF Private

\* The other talks keep whom they have to reach, if those who leave the list are gone.
LEMMA TalkingStays ==
    ASSUME Typing, Talking, NEW t \in Tasks, Handles(t),
           \A u \in Tasks \ {t} : sent'[u] = sent[u] /\ audience'[u] = audience[u],
           dict' = dict, Listed \cap dict \subseteq Listed',
           task'[t].op = "talk" => Reaching(t)'
    PROVE  Talking'
<1>1. ASSUME NEW u \in Tasks, u # t, task[u].op = "talk" PROVE Reaching(u)'
  <2>1. /\ Reaching(u) /\ task'[u] = task[u] /\ sent'[u] = sent[u]
        /\ audience'[u] = audience[u]
    BY <1>1 DEF Talking, Handles, Others
  <2>2. ToCome(u)' = ToCome(u) BY <2>1 DEF ToCome
  <2>3. At(u, "list") => audience[u] \cap dict \subseteq Listed' BY <2>1 DEF Reaching
  <2>4. QED BY <2>1, <2>2, <2>3 DEF Reaching, At
<1>2. ASSUME NEW u \in Tasks, (task[u].op = "talk")' PROVE Reaching(u)'
  <2>1. CASE u = t BY <1>2, <2>1
  <2>2. CASE u # t BY <1>1, <1>2, <2>2 DEF Handles, Others
  <2>3. QED BY <2>1, <2>2
<1>3. QED BY <1>2 DEF Talking

\* A step that changes neither the list nor the logins.
LEMMA OrdinaryStep ==
    ASSUME IInv, NEW t \in Tasks, Handles(t), Placed(t)', task' \in [Tasks -> Job],
           UNCHANGED <<stateVars, raced, ghosts>>,
           sent' \in [Tasks -> [Sessions -> Nat]], audience' \in [Tasks -> SUBSET Sessions],
           \A u \in Tasks \ {t} : sent'[u] = sent[u] /\ audience'[u] = audience[u],
           task'[t].pc # "add",
           task'[t].op \in {"to", "ping"} => Addressed(t)',
           task'[t].op = "talk" => Reaching(t)'
    PROVE  IInv'
<1> USE DEF IInv, stateVars
<1>1. Typing'
  <2>1. TypeOK' BY DEF Typing, TypeOK
  <2>2. Removal' BY DEF Typing, Removal, Unlocked
  <2>3. QED BY <2>1, <2>2, PlacedStays DEF Typing
<1>2. Free'
  <2>1. \A u \in Tasks : At(u, "add")' => At(u, "add") /\ task'[u] = task[u]
    BY DEF At, Handles, Others
  <2>2. QED BY <2>1 DEF Free, NamesClashInRaces
<1>3. /\ \A s, n : Known(s, n) => Known(s, n)'
      /\ \A s : Twice(s) => Twice(s)'
  BY LoginsStay, KnownStays
<1>4. Registered' BY <1>3 DEF Registered
<1>5. Private' BY PrivateStays
<1>6. Leaving' BY <1>3 DEF Leaving, Alone, Left, Absent, Unlocked
<1>7. Talking' BY TalkingStays DEF Listed
<1>8. QED BY <1>1, <1>2, <1>4, <1>5, <1>6, <1>7

-----------------------------------------------------------------------------
(* The handlers                                                            *)

LEMMA StartStep ==
    ASSUME IInv, NEW t \in Tasks, NEW op \in Ops, NEW s \in Sessions,
           NEW n \in Names \cup {NoName}, Start(t, op, s, n)
    PROVE  IInv'
<1>1. TypeOK /\ Placed(t) BY DEF IInv, Typing
<1>2. /\ task[t].pc = "idle" /\ (n = NoName <=> op \in {"get_users", "talk"})
      /\ UNCHANGED <<stateVars, raced, ghosts, sent, audience>>
  BY DEF Start, At, historyVars
<1>3. /\ task' \in [Tasks -> Job] /\ Others(t)
      /\ task'[t].pc = Begins(op) /\ task'[t].reply = task[t].reply
      /\ task'[t].op = op /\ task'[t].who = s /\ task'[t].name = n
      /\ task'[t].me = task[t].me
  BY <1>1, StartMeans
<1>4. /\ Begins(op) \in Labels(op) /\ Begins(op) \in {"check", "list", "find"}
      /\ op \in {"to", "ping"} => Begins(op) = "find"
      /\ op = "talk" => Begins(op) = "find"
  BY BeginsAre, LabelsAre DEF Ops
<1>5. /\ task[t].reply = "none" /\ task[t].me = NoName
      /\ \A r \in Sessions : sent[t][r] = 0
  BY <1>1, <1>2 DEF Placed
<1>6. Handles(t) BY <1>2, <1>3 DEF Handles
<1>7. Placed(t)'
  BY <1>2, <1>3, <1>4, <1>5, NoneAssumption DEF Placed
<1>8. task'[t].op \in {"to", "ping"} => Addressed(t)'
  BY <1>2, <1>3, <1>4, <1>5 DEF Addressed, At
<1>9. task'[t].op = "talk" => Reaching(t)'
  BY <1>2, <1>3, <1>4, <1>5 DEF Reaching, At
<1>10. /\ sent' \in [Tasks -> [Sessions -> Nat]]
       /\ audience' \in [Tasks -> SUBSET Sessions]
  BY <1>1, <1>2 DEF TypeOK
<1>11. task'[t].pc # "add" BY <1>3, <1>4
<1>12. \A u \in Tasks \ {t} : sent'[u] = sent[u] /\ audience'[u] = audience[u]
  BY <1>2
<1>13. QED
  BY <1>2, <1>3, <1>6, <1>7, <1>8, <1>9, <1>10, <1>11, <1>12, OrdinaryStep

\* A handler that replies and sends nothing, unless it is a talk or a login that succeeds.
LEMMA RepliesStep ==
    ASSUME IInv, NEW t \in Tasks, NEW reply \in {"ok", "no", "err"}, Replies(t, reply),
           task[t].pc \notin {"idle", "done"},
           UNCHANGED <<stateVars, sent, raced, ghosts>>,
           audience' \in [Tasks -> SUBSET Sessions],
           \A u \in Tasks \ {t} : audience'[u] = audience[u],
           task[t].op # "talk" \/ reply # "ok"
    PROVE  IInv'
<1>1. TypeOK /\ Placed(t) BY DEF IInv, Typing
<1>2. /\ task' \in [Tasks -> Job] /\ Others(t) /\ Fixed(t)
      /\ task'[t].pc = "done" /\ task'[t].reply = reply
      /\ task'[t].me = task[t].me
  BY <1>1, RepliesMeans
<1>3. Handles(t) BY <1>2 DEF Handles
<1>4. Placed(t)'
  <2>1. "done" \in Labels(task[t].op) BY DEF Labels
  <2>2. /\ task[t].who \in Sessions
        /\ task[t].op \notin {"get_users", "talk"} => task[t].name \in Names
    BY <1>1 DEF Placed
  <2>3. QED BY <1>2, <2>1, <2>2 DEF Placed, Fixed
<1>5. task'[t].op \in {"to", "ping"} => Addressed(t)'
  <2>1. ASSUME task[t].op \in {"to", "ping"} PROVE Addressed(t)'
    <3>1. Addressed(t) BY <2>1 DEF IInv, Private
    <3>2. \A s, n : Known(s, n) => Known(s, n)'
      BY <1>3, LoginsStay, KnownStays DEF IInv
    <3>3. QED BY <1>2, <3>1, <3>2 DEF Addressed, At, Fixed
  <2>2. QED BY <1>2, <2>1 DEF Fixed
<1>6. task'[t].op = "talk" => Reaching(t)'
  <2>1. ASSUME task[t].op = "talk" PROVE Reaching(t)'
    <3>1. Reaching(t) BY <2>1 DEF IInv, Talking
    <3>2. QED BY <1>2, <2>1, <3>1 DEF Reaching, At, Fixed
  <2>2. QED BY <1>2, <2>1 DEF Fixed
<1>7. sent' \in [Tasks -> [Sessions -> Nat]] BY <1>1 DEF TypeOK
<1>8. task'[t].pc # "add" BY <1>2
<1>9. QED BY <1>2, <1>3, <1>4, <1>5, <1>6, <1>7, <1>8, OrdinaryStep

\* check_nickname: the second of two logins that find a name free together is noted.
LEMMA CheckStep == ASSUME IInv, NEW t \in Tasks, Check(t) PROVE IInv'
<1>1. TypeOK /\ Placed(t) BY DEF IInv, Typing
<1>2. /\ task[t].pc = "check" /\ UNCHANGED <<stateVars, sent, ghosts, audience>>
  BY DEF Check, At
<1>3. task[t].op = "login" BY <1>1, <1>2, LabelsAre DEF Placed, TypeOK, Job, Ops
<1>4. CASE Replies(t, "no") /\ UNCHANGED raced
  <2>1. audience' \in [Tasks -> SUBSET Sessions] BY <1>1, <1>2 DEF TypeOK
  <2>2. QED BY <1>2, <1>3, <1>4, <2>1, RepliesStep
<1>5. ASSUME check_nickname(task[t].name), Goes(t, [task[t] EXCEPT !.pc = "add"]),
             raced' = raced \cup {m \in {task[t].name} :
                                     \E u \in Tasks : At(u, "add") /\ task[u].name = m}
      PROVE  IInv'
  <2>1. /\ task' \in [Tasks -> Job] /\ Others(t) /\ Fixed(t)
        /\ task'[t].pc = "add" /\ task'[t].reply = task[t].reply
        /\ task'[t].me = task[t].me
    BY <1>1, <1>5, MovesMeans
  <2>2. Handles(t) BY <1>2, <2>1 DEF Handles
  <2>3. /\ raced \subseteq raced' /\ raced' \subseteq Names
        /\ \A u \in Tasks : At(u, "add") /\ task[u].name = task[t].name =>
              task[t].name \in raced'
    <3>1. task[t].name \in Names BY <1>1, <1>2, <1>3 DEF Placed
    <3>2. QED BY <1>1, <1>5, <3>1 DEF TypeOK
  <2>4. Placed(t)' BY <1>1, <1>2, <1>3, <2>1, LabelsAre DEF Placed, Fixed
  <2>5. Typing'
    <3>1. TypeOK' BY <1>1, <1>2, <2>1, <2>3 DEF TypeOK, stateVars
    <3>2. Removal' BY <1>2 DEF IInv, Typing, Removal, Unlocked, stateVars
    <3>3. QED BY <1>2, <2>2, <2>4, <3>1, <3>2, PlacedStays DEF IInv, Typing
  <2>6. Free'
    <3>1. \A u \in Tasks \ {t} : task'[u] = task[u] /\ (At(u, "add")' <=> At(u, "add"))
      BY <2>1 DEF Others, At
    <3>2. task'[t].name = task[t].name BY <2>1 DEF Fixed
    <3>3. users' = users BY <1>2 DEF stateVars
    <3>4. \A u, v \in Tasks :
             u # v /\ At(u, "add")' /\ At(v, "add")' /\ task'[u].name = task'[v].name =>
                 task'[u].name \in raced'
      BY <2>3, <3>1, <3>2 DEF IInv, Free
    <3>5. \A u \in Tasks : At(u, "add")' =>
             \A i \in DOMAIN users : users[i].nickname = task'[u].name => task'[u].name \in raced'
      <4>1. \A i \in DOMAIN users : users[i].nickname # task[t].name
        BY <1>5 DEF check_nickname
      <4>2. QED BY <2>3, <3>1, <3>2, <4>1 DEF IInv, Free
    <3>6. NamesClashInRaces' BY <2>3, <3>3 DEF IInv, Free, NamesClashInRaces
    <3>7. QED BY <3>3, <3>4, <3>5, <3>6 DEF Free
  <2>7. /\ \A s, n : Known(s, n) => Known(s, n)'
        /\ \A s : Twice(s) => Twice(s)'
    BY <2>2, LoginsStay, KnownStays DEF IInv
  <2>8. Registered' BY <1>2, <2>7 DEF IInv, Registered, stateVars
  <2>9. task'[t].op = "login" BY <1>3, <2>1 DEF Fixed
  <2>10. Private' BY <1>2, <2>2, <2>9, PrivateStays DEF IInv
  <2>11. Leaving' BY <1>2, <2>7 DEF IInv, Leaving, Alone, Left, Absent, Unlocked, stateVars
  <2>12. Talking'
    <3>1. dict' = dict /\ Listed' = Listed BY <1>2 DEF stateVars, Listed
    <3>2. QED BY <1>2, <2>2, <2>9, <3>1, TalkingStays DEF IInv
  <2>13. QED BY <2>5, <2>6, <2>8, <2>10, <2>11, <2>12 DEF IInv
<1>6. QED BY <1>4, <1>5 DEF Check

\* add: who has a name by now, and who was about to add it.
LEMMA AddStep == ASSUME IInv, NEW t \in Tasks, Add(t) PROVE IInv'
<1>1. TypeOK /\ Placed(t) BY DEF IInv, Typing
<1>2. /\ task[t].pc = "add" /\ before = << >>
      /\ Replies(t, "ok") /\ UNCHANGED <<dict, closing, before, sent, raced, audience>>
      /\ ghosts' = ghosts \cup {s \in {task[t].who} : Over(s)}
  BY DEF Add, At, Unlocked
<1>3. task[t].op = "login" BY <1>1, <1>2, LabelsAre DEF Placed, TypeOK, Job, Ops
<1>4. PICK k \in Sessions : k = task[t].who BY <1>1, <1>2 DEF Placed
<1>5. PICK n \in Names : n = task[t].name BY <1>1, <1>2, <1>3 DEF Placed
<1>6. PICK e : e = [nickname |-> n, session_id |-> k] OBVIOUS
<1>7. e \in User /\ e.nickname = n /\ e.session_id = k BY <1>6 DEF User
<1>8. /\ users' \in Seq(User) /\ Len(users') = Len(users) + 1 /\ Len(users) \in Nat
      /\ \A i \in 1 .. Len(users) : users'[i] = users[i]
      /\ users'[Len(users) + 1] = e
      /\ DOMAIN users = 1 .. Len(users) /\ DOMAIN users' = 1 .. Len(users')
  <2>1. users' = Append(users, e) BY <1>4, <1>5, <1>6 DEF Add, add
  <2>2. PICK q \in Seq(User) : q = users BY <1>1 DEF TypeOK
  <2>3. PICK r \in Seq(User) : r = Append(q, e) BY <1>7, AppendProperties
  <2>4. /\ Len(r) = Len(q) + 1 /\ Len(q) \in Nat
        /\ \A i \in 1 .. Len(q) : r[i] = q[i]
        /\ r[Len(q) + 1] = e /\ DOMAIN q = 1 .. Len(q) /\ DOMAIN r = 1 .. Len(r)
    BY <1>7, <2>3, AppendProperties, LenProperties
  <2>5. users = q /\ users' = r BY <2>1, <2>2, <2>3
  <2>6. QED BY <2>4, <2>5
<1>9. \A i \in DOMAIN users' : i \in DOMAIN users \/ i = Len(users) + 1 BY <1>8
<1>10. /\ task' \in [Tasks -> Job] /\ Others(t) /\ Fixed(t)
       /\ task'[t].pc = "done" /\ task'[t].reply = "ok"
       /\ task'[t].me = task[t].me
  BY <1>1, <1>2, RepliesMeans
<1>11. Handles(t) BY <1>2, <1>10 DEF Handles
<1>12. Placed(t)' BY <1>1, <1>2, <1>3, <1>10, LabelsAre DEF Placed, Fixed
<1>13. Typing'
  <2>1. ghosts' \subseteq Sessions BY <1>1, <1>2, <1>4 DEF TypeOK
  <2>2. TypeOK' BY <1>1, <1>2, <1>8, <1>10, <2>1 DEF TypeOK
  <2>3. Removal' BY <1>2 DEF IInv, Typing, Removal, Unlocked
  <2>4. QED BY <1>2, <1>11, <1>12, <2>2, <2>3, PlacedStays DEF IInv, Typing
<1>14. /\ \A s, m : Known(s, m) => Known(s, m)'
       /\ \A s : Twice(s) => Twice(s)'
  BY <1>11, LoginsStay, KnownStays DEF IInv
<1>15. task'[t].op = "login" BY <1>3, <1>10 DEF Fixed
<1>16. Free'
  <2>1. \A u \in Tasks : At(u, "add")' => u # t /\ At(u, "add") /\ task'[u] = task[u]
    BY <1>10 DEF Others, At
  <2>2. \A u \in Tasks : At(u, "add")' /\ task'[u].name = n => n \in raced
    BY <1>2, <1>5, <2>1 DEF IInv, Free, At
  <2>3. \A u \in Tasks : At(u, "add")' =>
           \A i \in DOMAIN users' : users'[i].nickname = task'[u].name => task'[u].name \in raced
    <3>1. ASSUME NEW u \in Tasks, At(u, "add")', NEW i \in DOMAIN users',
                 users'[i].nickname = task'[u].name
          PROVE  task'[u].name \in raced
      <4>1. CASE i \in DOMAIN users
        <5>1. users'[i] = users[i] BY <1>8, <4>1
        <5>2. QED BY <2>1, <3>1, <4>1, <5>1 DEF IInv, Free
      <4>2. CASE i = Len(users) + 1
        <5>1. users'[i] = e BY <1>8, <4>2
        <5>2. QED BY <1>7, <2>2, <3>1, <5>1
      <4>3. QED BY <1>9, <4>1, <4>2
    <3>2. QED BY <3>1
  <2>4. \A i \in DOMAIN users : users[i].nickname = n => n \in raced
    BY <1>2, <1>5 DEF IInv, Free, At
  <2>5. NamesClashInRaces'
    <3>1. ASSUME NEW i \in DOMAIN users', NEW j \in DOMAIN users', i # j,
                 users'[i].nickname = users'[j].nickname
          PROVE  users'[i].nickname \in raced
      <4>1. \A x \in DOMAIN users : users'[x] = users[x] BY <1>8
      <4>2. \A x : x = Len(users) + 1 => users'[x].nickname = n BY <1>7, <1>8
      <4>3. CASE i \in DOMAIN users /\ j \in DOMAIN users
        BY <3>1, <4>1, <4>3 DEF IInv, Free, NamesClashInRaces
      <4>4. CASE i \in DOMAIN users /\ j = Len(users) + 1
        BY <2>4, <3>1, <4>1, <4>2, <4>4
      <4>5. CASE i = Len(users) + 1 /\ j \in DOMAIN users
        BY <2>4, <3>1, <4>1, <4>2, <4>5
      <4>6. QED BY <1>9, <3>1, <4>3, <4>4, <4>5
    <3>2. QED BY <1>2, <3>1 DEF NamesClashInRaces
  <2>6. \A u, v \in Tasks :
           u # v /\ At(u, "add")' /\ At(v, "add")' /\ task'[u].name = task'[v].name =>
               task'[u].name \in raced
    BY <2>1 DEF IInv, Free
  <2>7. QED BY <1>2, <2>3, <2>5, <2>6 DEF Free
<1>17. t \in LoggedIn(k)' BY <1>4, <1>10, <1>15 DEF LoggedIn, Fixed
<1>18. Registered'
  <2>1. Known(k, n)' BY <1>5, <1>10, <1>17 DEF Known, Fixed
  <2>2. ASSUME NEW i \in DOMAIN users' PROVE Known(users[i].session_id, users[i].nickname)'
    <3>1. CASE i \in DOMAIN users BY <1>8, <1>14, <3>1 DEF IInv, Registered
    <3>2. CASE i = Len(users) + 1 BY <1>7, <1>8, <2>1, <3>2
    <3>3. QED BY <1>9, <3>1, <3>2
  <2>3. QED BY <2>2 DEF Registered
<1>19. Private' BY <1>2, <1>11, <1>15, PrivateStays DEF IInv
<1>20. Leaving'
  <2>1. \A i \in DOMAIN users : users[i].session_id = k => Twice(k)'
    <3>1. ASSUME NEW i \in DOMAIN users, users[i].session_id = k PROVE Twice(k)'
      <4>1. Known(k, users[i].nickname) BY <3>1 DEF IInv, Registered
      <4>2. PICK v \in LoggedIn(k) : TRUE BY <4>1 DEF Known
      <4>3. v # t BY <1>1, <1>2 DEF LoggedIn, Placed
      <4>4. v \in LoggedIn(k)' BY <1>10, <4>3 DEF LoggedIn, Others
      <4>5. QED BY <1>17, <4>3, <4>4 DEF Twice
    <3>2. QED BY <3>1
  <2>2. \A s \in Sessions : Alone(s)'
    <3>1. ASSUME NEW s \in Sessions, NEW i \in DOMAIN users', NEW j \in DOMAIN users', i # j,
                 users'[i].session_id = s, users'[j].session_id = s
          PROVE  Twice(s)'
      <4>1. \A x \in DOMAIN users : users'[x] = users[x] BY <1>8
      <4>2. \A x : x = Len(users) + 1 => users'[x].session_id = k BY <1>7, <1>8
      <4>3. CASE i \in DOMAIN users /\ j \in DOMAIN users
        BY <1>14, <3>1, <4>1, <4>3 DEF IInv, Leaving, Alone
      <4>4. CASE i \in DOMAIN users /\ j = Len(users) + 1
        BY <2>1, <3>1, <4>1, <4>2, <4>4
      <4>5. CASE i = Len(users) + 1 /\ j \in DOMAIN users
        BY <2>1, <3>1, <4>1, <4>2, <4>5
      <4>6. QED BY <1>9, <3>1, <4>3, <4>4, <4>5
    <3>2. QED BY <3>1 DEF Alone
  <2>3. ASSUME NEW s \in Sessions, s \notin dict, closing # s PROVE Left(s)'
    <3>1. CASE s = k
      <4>1. s \in ghosts' BY <1>2, <1>4, <2>3, <3>1 DEF Over
      <4>2. QED BY <4>1 DEF Left
    <3>2. CASE s # k
      <4>1. Absent(s) \/ s \in ghosts \/ Twice(s) BY <2>3 DEF IInv, Leaving, Left
      <4>2. Absent(s) => Absent(s)' BY <1>7, <1>8, <1>9, <3>2 DEF Absent
      <4>3. QED BY <1>2, <1>14, <4>1, <4>2 DEF Left
    <3>3. QED BY <3>1, <3>2
  <2>4. \A s \in Sessions : Left(s)' BY <1>2, <2>3 DEF Left, Unlocked
  <2>5. QED BY <2>2, <2>4 DEF Leaving
<1>21. Talking'
  <2>1. Listed \subseteq Listed' BY <1>8 DEF Listed
  <2>2. QED BY <1>2, <1>11, <1>15, <2>1, TalkingStays DEF IInv
<1>22. QED BY <1>13, <1>16, <1>18, <1>19, <1>20, <1>21 DEF IInv

LEMMA FindStep == ASSUME IInv, NEW t \in Tasks, Find(t) PROVE IInv'
<1>1. TypeOK /\ Placed(t) BY DEF IInv, Typing
<1>2. /\ task[t].pc = "find" /\ UNCHANGED <<stateVars, sent, raced, ghosts>>
      /\ audience' = [audience EXCEPT ![t] = {users[i].session_id : i \in DOMAIN users}]
  BY DEF Find, At
<1>3. task[t].op \in {"talk", "to", "ping"}
  BY <1>1, <1>2, LabelsAre DEF Placed, TypeOK, Job, Ops
<1>4. \A i \in DOMAIN users : users[i] \in User BY <1>1, LenProperties, ElementOfSeq DEF TypeOK
<1>5. /\ audience' \in [Tasks -> SUBSET Sessions] /\ audience'[t] = Listed
      /\ \A u \in Tasks \ {t} : audience'[u] = audience[u]
  <2>1. Listed \subseteq Sessions BY <1>4 DEF Listed, User
  <2>2. audience' = [audience EXCEPT ![t] = Listed] BY <1>2 DEF Listed
  <2>3. PICK L \in SUBSET Sessions : L = Listed BY <2>1
  <2>4. QED BY <1>1, <2>2, <2>3 DEF TypeOK
<1>6. PICK k \in Sessions : k = task[t].who BY <1>1, <1>2 DEF Placed
<1>7. PICK i : i = find(k) OBVIOUS
<1>8. CASE i = 0 /\ Replies(t, "err") BY <1>2, <1>3, <1>5, <1>8, RepliesStep
<1>9. PICK l \in {"list", "target"} : l = (IF task[t].op = "talk" THEN "list" ELSE "target")
  OBVIOUS
<1>10. ASSUME i # 0, Goes(t, [task[t] EXCEPT !.pc = l, !.me = users[i].nickname]) PROVE IInv'
  <2>1. i \in DOMAIN users /\ users[i].session_id = k
    BY <1>1, <1>7, <1>10, FindMeans DEF TypeOK
  <2>2. PICK n \in Names : n = users[i].nickname BY <1>4, <2>1 DEF User
  <2>3. /\ task' \in [Tasks -> Job] /\ Others(t) /\ Fixed(t)
        /\ task'[t].pc = l /\ task'[t].reply = task[t].reply
        /\ task'[t].me = n
    BY <1>1, <1>10, <2>2, FoundMeans
  <2>4. Handles(t) BY <1>2, <2>3 DEF Handles
  <2>5. Placed(t)' BY <1>1, <1>2, <1>3, <1>9, <2>3, LabelsAre DEF Placed, Fixed
  <2>6. \A s, m : Known(s, m) => Known(s, m)' BY <2>4, LoginsStay, KnownStays DEF IInv
  <2>7. task'[t].op \in {"to", "ping"} => Addressed(t)'
    <3>1. ASSUME task[t].op \in {"to", "ping"} PROVE Addressed(t)'
      <4>1. Addressed(t) /\ l = "target" BY <1>9, <3>1 DEF IInv, Private
      <4>2. Known(k, n) BY <2>1, <2>2 DEF IInv, Registered
      <4>3. Known(k, n)' BY <2>6, <4>2
      <4>4. \A s \in Sessions : sent[t][s] = 0 BY <1>2, <4>1 DEF Addressed
      <4>5. task'[t].who = k /\ task'[t].me = n /\ task'[t].pc = "target"
        BY <1>6, <2>3, <4>1 DEF Fixed
      <4>6. Known(task[t].who, task[t].me)' BY <4>3, <4>5
      <4>7. \A s \in Sessions : sent'[t][s] = 0 /\ ~(sent'[t][s] > 0) BY <1>2, <4>4
      <4>8. QED BY <4>5, <4>6, <4>7 DEF Addressed, At
    <3>2. QED BY <2>3, <3>1 DEF Fixed
  <2>8. task'[t].op = "talk" => Reaching(t)'
    <3>1. ASSUME task[t].op = "talk" PROVE Reaching(t)'
      <4>1. Reaching(t) /\ l = "list" BY <1>9, <3>1 DEF IInv, Talking
      <4>2. task[t].reply = "none" BY <1>1, <1>2 DEF Placed
      <4>3. Listed' = Listed BY <1>2 DEF Listed, stateVars
      <4>4. QED BY <1>2, <1>5, <2>3, <4>1, <4>2, <4>3 DEF Reaching, At, Fixed
    <3>2. QED BY <2>3, <3>1 DEF Fixed
  <2>9. sent' \in [Tasks -> [Sessions -> Nat]] BY <1>1, <1>2 DEF TypeOK
  <2>10. task'[t].pc # "add" BY <2>3
  <2>11. \A u \in Tasks \ {t} : sent'[u] = sent[u] /\ audience'[u] = audience[u]
    BY <1>2, <1>5
  <2>12. UNCHANGED <<stateVars, raced, ghosts>> BY <1>2
  <2>13. QED
    BY <1>5, <2>3, <2>4, <2>5, <2>7, <2>8, <2>9, <2>10, <2>11, <2>12, OrdinaryStep
<1>11. QED BY <1>6, <1>7, <1>8, <1>9, <1>10 DEF Find

\* A reading of the list in the middle of a removal is of users, whatever it misses.
LEMMA GetUsersType ==
    ASSUME TypeOK, Removal, NEW p \in 0 .. Len(before)
    PROVE  get_users(p) \in Seq(User)
<1>1. CASE before = << >> BY <1>1 DEF get_users, TypeOK
<1>2. CASE before # << >>
  <2>1. PICK b \in Seq(User) : b = before BY DEF TypeOK
  <2>2. PICK q \in Seq(User) : q = users BY DEF TypeOK
  <2>3. /\ Len(b) = Len(q) + 1 /\ Len(q) \in Nat /\ Len(b) \in Nat
        /\ \A i \in 1 .. Len(b) : b[i] \in User
    BY <1>2, <2>1, <2>2, LenProperties, ElementOfSeq DEF Removal, Unlocked
  <2>4. PICK e \in User : e = Last(b) BY <2>3 DEF Last
  <2>5. PICK a \in Seq(User) : a = Append(q, e) BY AppendProperties
  <2>6. Len(a) = Len(b) /\ \A i \in 1 .. Len(b) : a[i] \in User
    BY <2>3, <2>5, AppendProperties, ElementOfSeq
  <2>7. p \in Nat /\ p <= Len(b) BY <2>1, <2>3
  <2>8. SubSeq(b, 1, p) \in Seq(User)
    <3>1. 1 \in Int /\ p \in Int /\ \A i \in 1 .. p : b[i] \in User BY <2>3, <2>7
    <3>2. QED BY <3>1, SubSeqProperties
  <2>9. SubSeq(a, p + 1, Len(b)) \in Seq(User)
    <3>1. p + 1 \in Int /\ Len(b) \in Int /\ \A i \in p + 1 .. Len(b) : a[i] \in User
      BY <2>3, <2>6, <2>7
    <3>2. QED BY <3>1, SubSeqProperties
  <2>10. get_users(p) = SubSeq(b, 1, p) \o SubSeq(a, p + 1, Len(b))
    BY <1>2, <2>1, <2>2, <2>4, <2>5 DEF get_users
  <2>11. QED BY <2>8, <2>9, <2>10, ConcatProperties
<1>3. QED BY <1>1, <1>2

LEMMA ListStep ==
    ASSUME IInv, NEW t \in Tasks, NEW p \in 0 .. Len(before), List(t, p) PROVE IInv'
<1>1. TypeOK /\ Placed(t) /\ Removal BY DEF IInv, Typing
<1>2. /\ task[t].pc = "list" /\ UNCHANGED <<stateVars, sent, raced, ghosts>>
      /\ audience' = [audience EXCEPT ![t] = IF Unlocked THEN @ ELSE {}]
  BY DEF List, At
<1>3. /\ audience' \in [Tasks -> SUBSET Sessions]
      /\ audience'[t] = IF Unlocked THEN audience[t] ELSE {}
      /\ \A u \in Tasks \ {t} : audience'[u] = audience[u]
  BY <1>1, <1>2 DEF TypeOK
<1>4. CASE task[t].op = "get_users" /\ Replies(t, "ok") BY <1>2, <1>3, <1>4, RepliesStep
<1>5. CASE task[t].op = "talk" /\ Goes(t, [task[t] EXCEPT !.pc = "send", !.todo = get_users(p)])
  <2>1. PICK q \in Seq(User) : q = get_users(p) BY <1>1, GetUsersType
  <2>2. /\ task' \in [Tasks -> Job] /\ Others(t) /\ Fixed(t)
        /\ task'[t].pc = "send" /\ task'[t].reply = task[t].reply
        /\ task'[t].me = task[t].me /\ task'[t].todo = q
    BY <1>1, <1>5, <2>1, SendsMeans
  <2>3. Handles(t) BY <1>2, <2>2 DEF Handles
  <2>4. Placed(t)' BY <1>1, <1>2, <1>5, <2>2, LabelsAre DEF Placed, Fixed
  <2>5. Reaching(t)'
    <3>1. Reaching(t) /\ task[t].reply = "none" BY <1>1, <1>2, <1>5 DEF IInv, Talking, Placed
    <3>2. ASSUME NEW s \in audience'[t], s \in dict PROVE s \in ToCome(t)'
      <4>1. Unlocked /\ s \in audience[t] BY <1>3, <3>2
      <4>2. s \in Listed BY <1>2, <3>1, <3>2, <4>1 DEF Reaching, At
      <4>3. q = users BY <2>1, <4>1 DEF get_users, Unlocked
      <4>4. QED BY <2>2, <4>2, <4>3 DEF Listed, ToCome
    <3>3. dict' = dict BY <1>2 DEF stateVars
    <3>4. QED BY <1>2, <2>2, <3>1, <3>2, <3>3 DEF Reaching, At, Fixed
  <2>6. task'[t].op = "talk" /\ task'[t].pc # "add" BY <1>5, <2>2 DEF Fixed
  <2>7. sent' \in [Tasks -> [Sessions -> Nat]] BY <1>1, <1>2 DEF TypeOK
  <2>8. \A u \in Tasks \ {t} : sent'[u] = sent[u] /\ audience'[u] = audience[u]
    BY <1>2, <1>3
  <2>9. UNCHANGED <<stateVars, raced, ghosts>> BY <1>2
  <2>10. QED
    BY <1>3, <2>2, <2>3, <2>4, <2>5, <2>6, <2>7, <2>8, <2>9, OrdinaryStep
<1>6. QED BY <1>4, <1>5 DEF List

LEMMA TargetStep == ASSUME IInv, NEW t \in Tasks, Target(t) PROVE IInv'
<1>1. TypeOK /\ Placed(t) BY DEF IInv, Typing
<1>2. task[t].pc = "target" /\ UNCHANGED <<stateVars, sent, raced, ghosts, audience>>
  BY DEF Target, At, historyVars
<1>3. task[t].op \in {"to", "ping"}
  BY <1>1, <1>2, LabelsAre DEF Placed, TypeOK, Job, Ops
<1>4. PICK n \in Names : n = task[t].name BY <1>1, <1>2, <1>3 DEF Placed
<1>5. PICK i : i = find_by_nickname(n) OBVIOUS
<1>6. audience' \in [Tasks -> SUBSET Sessions] BY <1>1, <1>2 DEF TypeOK
<1>7. CASE i = 0 /\ Replies(t, "err") BY <1>2, <1>3, <1>6, <1>7, RepliesStep
<1>8. ASSUME i # 0, Goes(t, [task[t] EXCEPT !.pc = "send", !.todo = <<users[i]>>]) PROVE IInv'
  <2>1. i \in DOMAIN users /\ users[i].nickname = n
    BY <1>1, <1>5, <1>8, FindByNicknameMeans DEF TypeOK
  <2>2. PICK e \in User : e = users[i] BY <1>1, <2>1, LenProperties, ElementOfSeq DEF TypeOK
  <2>3. PICK q \in Seq(User) : q = <<e>>
    <3>1. <<e>> \in [1 .. 1 -> User] OBVIOUS
    <3>2. <<e>> \in Seq(User) BY <3>1, SeqDef
    <3>3. QED BY <3>2
  <2>4. /\ task' \in [Tasks -> Job] /\ Others(t) /\ Fixed(t)
        /\ task'[t].pc = "send" /\ task'[t].reply = task[t].reply
        /\ task'[t].me = task[t].me /\ task'[t].todo = q
    BY <1>1, <1>8, <2>2, <2>3, SendsMeans
  <2>5. Handles(t) BY <1>2, <2>4 DEF Handles
  <2>6. Placed(t)' BY <1>1, <1>2, <1>3, <2>4, LabelsAre DEF Placed, Fixed
  <2>7. \A s, m : Known(s, m) => Known(s, m)' BY <2>5, LoginsStay, KnownStays DEF IInv
  <2>8. Addressed(t)'
    <3>1. Addressed(t) BY <1>3 DEF IInv, Private
    <3>2. PICK s : s = e.session_id OBVIOUS
    <3>3. Known(s, n)' BY <2>1, <2>2, <2>7, <3>2 DEF IInv, Registered
    <3>4. q # << >> /\ Head(q) = e BY <2>3
    <3>5. Receiver(t)' = s /\ task'[t].name = n /\ task'[t].todo # << >>
      BY <1>4, <2>4, <3>2, <3>4 DEF Receiver, Fixed
    <3>6. Known(Receiver(t), task[t].name)' BY <3>3, <3>5
    <3>7. \A r \in Sessions : sent'[t][r] = 0 /\ ~(sent'[t][r] > 0)
      BY <1>2, <3>1 DEF Addressed
    <3>8. task'[t].me # NoName => Known(task[t].who, task[t].me)'
      BY <2>4, <2>7, <3>1 DEF Addressed, Fixed
    <3>9. QED BY <2>4, <3>5, <3>6, <3>7, <3>8 DEF Addressed, At
  <2>9. task'[t].op # "talk" /\ task'[t].pc # "add" BY <1>3, <2>4 DEF Fixed
  <2>10. sent' \in [Tasks -> [Sessions -> Nat]] BY <1>1, <1>2 DEF TypeOK
  <2>11. \A u \in Tasks \ {t} : sent'[u] = sent[u] /\ audience'[u] = audience[u]
    BY <1>2
  <2>12. UNCHANGED <<stateVars, raced, ghosts>> BY <1>2
  <2>13. QED
    BY <1>6, <2>4, <2>5, <2>6, <2>8, <2>9, <2>10, <2>11, <2>12, OrdinaryStep
<1>9. QED BY <1>4, <1>5, <1>7, <1>8 DEF Target

\* A message adds one to what the task has sent to its receiver.
LEMMA MessageMeans ==
    ASSUME TypeOK, NEW t \in Tasks, NEW s \in Sessions, s = Receiver(t), Message(t)
    PROVE  /\ sent' \in [Tasks -> [Sessions -> Nat]]
           /\ sent'[t][s] = sent[t][s] + 1 /\ sent[t][s] \in Nat
           /\ \A r \in Sessions \ {s} : sent'[t][r] = sent[t][r]
           /\ \A u \in Tasks \ {t} : sent'[u] = sent[u]
<1>1. sent' = [sent EXCEPT ![t][s] = @ + 1] BY DEF Message
<1>2. sent[t] \in [Sessions -> Nat] /\ sent[t][s] \in Nat /\ sent[t][s] + 1 \in Nat
  BY DEF TypeOK
<1>3. PICK g \in [Sessions -> Nat] : g = [sent[t] EXCEPT ![s] = sent[t][s] + 1]
  BY <1>2
<1>4. sent' = [sent EXCEPT ![t] = g] BY <1>1, <1>3 DEF TypeOK
<1>5. sent'[t] = g BY <1>4 DEF TypeOK
<1>6. g[s] = sent[t][s] + 1 /\ \A r \in Sessions \ {s} : g[r] = sent[t][r]
  BY <1>2, <1>3
<1>7. sent' \in [Tasks -> [Sessions -> Nat]] BY <1>4 DEF TypeOK
<1>8. \A u \in Tasks \ {t} : sent'[u] = sent[u] BY <1>4 DEF TypeOK
<1>9. QED BY <1>2, <1>5, <1>6, <1>7, <1>8

LEMMA TalkStep == ASSUME IInv, NEW t \in Tasks, Talk(t) PROVE IInv'
<1>1. TypeOK /\ Placed(t) /\ Reaching(t) BY DEF IInv, Typing, Talking, Talk
<1>2. /\ task[t].pc = "send" /\ task[t].op = "talk" /\ task[t].todo # << >>
      /\ UNCHANGED <<stateVars, raced, ghosts, audience>>
      /\ Goes(t, [task[t] EXCEPT !.todo = Tail(@)])
  BY DEF Talk, At, historyVars
<1>3. PICK q \in Seq(User) : q = task[t].todo BY <1>1 DEF TypeOK, Job
<1>4. PICK r \in Seq(User) : r = Tail(q) BY <1>2, <1>3, HeadTailProperties
<1>5. PICK s \in Sessions : s = Receiver(t)
  <2>1. q # << >> /\ Head(q) \in User BY <1>2, <1>3, HeadTailProperties
  <2>2. Head(q).session_id \in Sessions BY <2>1 DEF User
  <2>3. QED BY <1>3, <2>2 DEF Receiver
<1>6. PICK k \in Sessions : k = task[t].who BY <1>1, <1>2 DEF Placed
<1>7. /\ task' \in [Tasks -> Job] /\ Others(t) /\ Fixed(t)
      /\ task'[t].pc = "send" /\ task'[t].reply = task[t].reply
      /\ task'[t].todo = r
  <2>1. Goes(t, [task[t] EXCEPT !.todo = r]) /\ At(t, "send")
    BY <1>1, <1>2, <1>3, <1>4 DEF At, TypeOK, Job
  <2>2. QED BY <1>1, <2>1, SendsMeans
<1>8. Handles(t) BY <1>2, <1>7 DEF Handles
<1>9. Placed(t)'
  BY <1>1, <1>2, <1>7, LabelsAre DEF Placed, Fixed
<1>10. /\ sent' \in [Tasks -> [Sessions -> Nat]] /\ sent'[t][k] = sent[t][k]
       /\ \A u \in Tasks \ {t} : sent'[u] = sent[u]
       /\ \A x \in Sessions : sent[t][x] > 0 => sent'[t][x] > 0
       /\ s # k /\ s \in dict => sent'[t][s] > 0
  <2>1. CASE s = k /\ UNCHANGED sent BY <1>1, <2>1 DEF TypeOK
  <2>2. CASE s # k /\ s \in dict /\ Message(t)
    <3>1. /\ sent' \in [Tasks -> [Sessions -> Nat]]
          /\ sent'[t][s] = sent[t][s] + 1 /\ sent[t][s] \in Nat
          /\ \A x \in Sessions \ {s} : sent'[t][x] = sent[t][x]
          /\ \A u \in Tasks \ {t} : sent'[u] = sent[u]
      BY <1>1, <1>5, <2>2, MessageMeans
    <3>2. sent'[t][s] > 0 BY <3>1
    <3>3. QED BY <2>2, <3>1, <3>2
  <2>3. CASE s # k /\ s \notin dict /\ UNCHANGED sent BY <1>1, <2>3 DEF TypeOK
  <2>4. QED BY <1>5, <1>6, <2>1, <2>2, <2>3 DEF Talk
<1>11. \A x \in ToCome(t) : x = s \/ x \in ToCome(t)'
  <2>1. /\ Len(q) \in Nat /\ Len(r) = Len(q) - 1 /\ DOMAIN q = 1 .. Len(q)
        /\ DOMAIN r = 1 .. Len(r) /\ \A i \in 1 .. Len(r) : r[i] = q[i + 1]
    BY <1>2, <1>3, <1>4, HeadTailProperties, LenProperties
  <2>2. s = q[1].session_id BY <1>2, <1>3, <1>5 DEF Receiver
  <2>3. ASSUME NEW i \in DOMAIN q, i # 1 PROVE i - 1 \in DOMAIN r /\ r[i - 1] = q[i]
    BY <2>1, <2>3
  <2>4. QED BY <1>3, <1>7, <2>2, <2>3 DEF ToCome
<1>12. Reaching(t)'
  <2>1. task'[t].who = k /\ dict' = dict /\ audience' = audience
    BY <1>2, <1>6, <1>7 DEF Fixed, stateVars
  <2>2. sent'[t][k] = 0 BY <1>1, <1>2, <1>6, <1>10 DEF Reaching
  <2>3. ASSUME NEW x \in (audience[t] \cap dict) \ {k}
        PROVE  sent'[t][x] > 0 \/ x \in ToCome(t)'
    <3>1. x \in Sessions BY <1>1, <2>3 DEF TypeOK
    <3>2. sent[t][x] > 0 \/ x \in ToCome(t) BY <1>1, <1>2, <1>6, <2>3 DEF Reaching, At
    <3>3. QED BY <1>10, <1>11, <2>3, <3>1, <3>2
  <2>4. task'[t].reply = "none" BY <1>1, <1>2, <1>7 DEF Placed
  <2>5. QED BY <1>7, <2>1, <2>2, <2>3, <2>4 DEF Reaching, At
<1>13. task'[t].op = "talk" /\ task'[t].pc # "add" BY <1>2, <1>7 DEF Fixed
<1>14. audience' \in [Tasks -> SUBSET Sessions] BY <1>1, <1>2 DEF TypeOK
<1>15. \A u \in Tasks \ {t} : sent'[u] = sent[u] /\ audience'[u] = audience[u]
  BY <1>2, <1>10
<1>16. UNCHANGED <<stateVars, raced, ghosts>> BY <1>2
<1>17. sent' \in [Tasks -> [Sessions -> Nat]] BY <1>10
<1>18. QED
  BY <1>7, <1>8, <1>9, <1>12, <1>13, <1>14, <1>15, <1>16, <1>17, OrdinaryStep

\* A talk that has gone through its list has reached everyone.
LEMMA TalkEndsStep == ASSUME IInv, NEW t \in Tasks, TalkEnds(t) PROVE IInv'
<1>1. TypeOK /\ Placed(t) /\ Reaching(t) BY DEF IInv, Typing, Talking, TalkEnds
<1>2. /\ task[t].pc = "send" /\ task[t].op = "talk" /\ task[t].todo = << >>
      /\ UNCHANGED <<stateVars, sent, raced, ghosts, audience>> /\ Replies(t, "ok")
  BY DEF TalkEnds, At, historyVars
<1>3. /\ task' \in [Tasks -> Job] /\ Others(t) /\ Fixed(t)
      /\ task'[t].pc = "done" /\ task'[t].reply = "ok"
  BY <1>1, <1>2, RepliesMeans
<1>4. Handles(t) BY <1>2, <1>3 DEF Handles
<1>5. Placed(t)' BY <1>1, <1>2, <1>3, LabelsAre DEF Placed, Fixed
<1>6. ToCome(t) = {}
  <2>1. PICK q : q = task[t].todo OBVIOUS
  <2>2. DOMAIN q = {} BY <1>2, <2>1
  <2>3. QED BY <2>1, <2>2 DEF ToCome
<1>7. Reaching(t)'
  <2>1. \A s \in (audience[t] \cap dict) \ {task[t].who} : sent[t][s] > 0
    BY <1>1, <1>2, <1>6 DEF Reaching, At
  <2>2. dict' = dict BY <1>2 DEF stateVars
  <2>3. QED BY <1>1, <1>2, <1>3, <2>1, <2>2 DEF Reaching, At, Fixed
<1>8. task'[t].op = "talk" /\ task'[t].pc # "add" BY <1>2, <1>3 DEF Fixed
<1>9. /\ audience' \in [Tasks -> SUBSET Sessions]
      /\ sent' \in [Tasks -> [Sessions -> Nat]]
  BY <1>1, <1>2 DEF TypeOK
<1>10. \A u \in Tasks \ {t} : sent'[u] = sent[u] /\ audience'[u] = audience[u] BY <1>2
<1>11. UNCHANGED <<stateVars, raced, ghosts>> BY <1>2
<1>12. QED BY <1>3, <1>4, <1>5, <1>7, <1>8, <1>9, <1>10, <1>11, OrdinaryStep

LEMMA ToStep == ASSUME IInv, NEW t \in Tasks, To(t) PROVE IInv'
<1>1. TypeOK /\ Placed(t) /\ Addressed(t) BY DEF IInv, Typing, Private, To
<1>2. /\ task[t].pc = "send" /\ task[t].op \in {"to", "ping"}
      /\ UNCHANGED <<stateVars, raced, ghosts, audience>>
  BY DEF To, At, historyVars
<1>3. audience' \in [Tasks -> SUBSET Sessions] BY <1>1, <1>2 DEF TypeOK
<1>4. CASE Replies(t, "err") /\ UNCHANGED sent BY <1>2, <1>3, <1>4, RepliesStep
<1>5. ASSUME Receiver(t) \in dict, Message(t),
             \/ task[t].op = "to" /\ Replies(t, "ok")
             \/ task[t].op = "ping" /\ Goes(t, [task[t] EXCEPT !.pc = "wait"])
      PROVE  IInv'
  <2>1. PICK s \in Sessions : s = Receiver(t) BY <1>1, <1>5 DEF TypeOK
  <2>2. /\ sent' \in [Tasks -> [Sessions -> Nat]]
        /\ \A r \in Sessions \ {s} : sent'[t][r] = sent[t][r]
        /\ \A u \in Tasks \ {t} : sent'[u] = sent[u]
    BY <1>1, <1>5, <2>1, MessageMeans
  <2>3. /\ task' \in [Tasks -> Job] /\ Others(t) /\ Fixed(t)
        /\ task'[t].me = task[t].me
        /\ \/ task'[t].pc = "done" /\ task'[t].reply = "ok"
           \/ task'[t].pc = "wait" /\ task'[t].reply = task[t].reply /\ task[t].op = "ping"
    <3>1. CASE task[t].op = "to" /\ Replies(t, "ok") BY <1>1, <3>1, RepliesMeans
    <3>2. CASE task[t].op = "ping" /\ Goes(t, [task[t] EXCEPT !.pc = "wait"])
      BY <1>1, <3>2, MovesMeans
    <3>3. QED BY <1>5, <3>1, <3>2
  <2>4. Handles(t) BY <1>2, <2>3 DEF Handles
  <2>5. Placed(t)' BY <1>1, <1>2, <2>3, LabelsAre DEF Placed, Fixed
  <2>6. \A r, m : Known(r, m) => Known(r, m)' BY <2>4, LoginsStay, KnownStays DEF IInv
  <2>7. Addressed(t)'
    <3>1. PICK n : n = task[t].name OBVIOUS
    <3>2. Known(s, n) /\ \A r \in Sessions : sent[t][r] = 0
      BY <1>1, <1>2, <2>1, <3>1 DEF Addressed, At
    <3>3. \A r \in Sessions : sent'[t][r] > 0 => Known(r, n)'
      BY <2>2, <2>6, <3>2
    <3>4. task'[t].name = n BY <2>3, <3>1 DEF Fixed
    <3>5. \A r \in Sessions : sent'[t][r] > 0 => Known(r, task[t].name)' BY <3>3, <3>4
    <3>6. task'[t].me # NoName => Known(task[t].who, task[t].me)'
      BY <1>1, <2>3, <2>6 DEF Addressed, Fixed
    <3>7. QED BY <2>3, <3>5, <3>6 DEF Addressed, At
  <2>8. task'[t].op # "talk" /\ task'[t].pc # "add" BY <1>2, <2>3 DEF Fixed
  <2>9. \A u \in Tasks \ {t} : sent'[u] = sent[u] /\ audience'[u] = audience[u]
    BY <1>2, <2>2
  <2>10. UNCHANGED <<stateVars, raced, ghosts>> BY <1>2
  <2>11. QED
    BY <1>3, <2>2, <2>3, <2>4, <2>5, <2>7, <2>8, <2>9, <2>10, OrdinaryStep
<1>6. QED BY <1>4, <1>5 DEF To

LEMMA PongStep == ASSUME IInv, NEW t \in Tasks, Pong(t) PROVE IInv'
<1>1. TypeOK /\ Placed(t) BY DEF IInv, Typing
<1>2. task[t].pc = "wait" /\ UNCHANGED <<stateVars, sent, raced, ghosts, audience>>
  BY DEF Pong, At, historyVars
<1>3. task[t].op = "ping" BY <1>1, <1>2, LabelsAre DEF Placed, TypeOK, Job, Ops
<1>4. audience' \in [Tasks -> SUBSET Sessions] BY <1>1, <1>2 DEF TypeOK
<1>5. CASE Replies(t, "ok") BY <1>2, <1>3, <1>4, <1>5, RepliesStep
<1>6. CASE Replies(t, "err") BY <1>2, <1>3, <1>4, <1>6, RepliesStep
<1>7. QED BY <1>5, <1>6 DEF Pong

-----------------------------------------------------------------------------
(* The manager                                                             *)

LEMMA SweepStep == ASSUME IInv, NEW s \in Sessions, Sweep(s) PROVE IInv'
<1>1. /\ closing = NoSession /\ s \in dict /\ dict' = dict \ {s} /\ closing' = s
      /\ UNCHANGED <<users, before, task, sent, raced, ghosts, audience>>
  BY DEF Sweep, historyVars
<1>2. before = << >> BY <1>1 DEF IInv, Typing, Removal, Unlocked
<1>3. Typing'
  <2>1. TypeOK' BY <1>1 DEF IInv, Typing, TypeOK
  <2>2. Removal' BY <1>1, <1>2 DEF Removal, Unlocked
  <2>3. \A t \in Tasks : Placed(t)' BY <1>1 DEF IInv, Typing, Placed
  <2>4. QED BY <2>1, <2>2, <2>3 DEF Typing
<1>4. Free' BY <1>1 DEF IInv, Free, At, NamesClashInRaces
<1>5. /\ \A r, n : Known(r, n) <=> Known(r, n)'
      /\ \A r : Twice(r) <=> Twice(r)'
  BY <1>1 DEF Known, Twice, LoggedIn
<1>6. Registered' BY <1>1, <1>5 DEF IInv, Registered
<1>7. Private'
  <2>1. ASSUME NEW t \in Tasks, task[t].op \in {"to", "ping"} PROVE Addressed(t)'
    <3>1. Addressed(t) BY <2>1 DEF IInv, Private
    <3>2. QED BY <1>1, <1>5, <3>1 DEF Addressed, At, Receiver
  <2>2. QED BY <1>1, <2>1 DEF Private
<1>8. Leaving'
  <2>1. \A r \in Sessions : Alone(r)' BY <1>1, <1>5 DEF IInv, Leaving, Alone
  <2>2. ASSUME NEW r \in Sessions, r \notin dict', closing' # r \/ before' # << >>
        PROVE  Absent(r)' \/ r \in ghosts' \/ Twice(r)'
    <3>1. r # s /\ r \notin dict /\ closing # r BY <1>1, <1>2, <2>2, NoneAssumption
    <3>2. Absent(r) \/ r \in ghosts \/ Twice(r) BY <3>1 DEF IInv, Leaving, Left
    <3>3. QED BY <1>1, <1>5, <3>2 DEF Absent
  <2>3. \A r \in Sessions : Left(r)' BY <2>2 DEF Left, Unlocked
  <2>4. QED BY <2>1, <2>3 DEF Leaving
<1>9. Talking'
  <2>1. ASSUME NEW t \in Tasks, task[t].op = "talk" PROVE Reaching(t)'
    <3>1. Reaching(t) BY <2>1 DEF IInv, Talking
    <3>2. Listed' = Listed /\ ToCome(t)' = ToCome(t) BY <1>1 DEF Listed, ToCome
    <3>3. dict' \subseteq dict BY <1>1
    <3>4. QED BY <1>1, <3>1, <3>2, <3>3 DEF Reaching, At
  <2>2. QED BY <1>1, <2>1 DEF Talking
<1>10. QED BY <1>3, <1>4, <1>6, <1>7, <1>8, <1>9 DEF IInv

\* A step of the manager that shortens the list at most, by a user of a session it no
\* longer knows.
LEMMA ManagerStep ==
    ASSUME IInv, TypeOK', Removal', Leaving',
           UNCHANGED <<dict, task, sent, raced, ghosts, audience>>,
           Free', \A j \in DOMAIN users' : \E i \in DOMAIN users : users'[j] = users[i],
           Listed \cap dict \subseteq Listed'
    PROVE  IInv'
<1>1. Typing' BY DEF IInv, Typing, Placed
<1>2. \A r, n : Known(r, n) <=> Known(r, n)' BY DEF Known, LoggedIn
<1>3. Registered'
  <2>1. ASSUME NEW j \in DOMAIN users'
        PROVE  Known(users[j].session_id, users[j].nickname)'
    <3>1. PICK i \in DOMAIN users : users'[j] = users[i] BY <2>1
    <3>2. Known(users[i].session_id, users[i].nickname) BY DEF IInv, Registered
    <3>3. PICK s, n : s = users[i].session_id /\ n = users[i].nickname OBVIOUS
    <3>4. Known(s, n)' BY <1>2, <3>2, <3>3
    <3>5. QED BY <3>1, <3>3, <3>4
  <2>2. QED BY <2>1 DEF Registered
<1>4. Private'
  <2>1. ASSUME NEW t \in Tasks, task[t].op \in {"to", "ping"} PROVE Addressed(t)'
    <3>1. Addressed(t) BY <2>1 DEF IInv, Private
    <3>2. QED BY <1>2, <3>1 DEF Addressed, At, Receiver
  <2>2. QED BY <2>1 DEF Private
<1>5. Talking'
  <2>1. ASSUME NEW t \in Tasks, task[t].op = "talk" PROVE Reaching(t)'
    <3>1. Reaching(t) BY <2>1 DEF IInv, Talking
    <3>2. ToCome(t)' = ToCome(t) BY DEF ToCome
    <3>3. At(t, "list") => audience[t] \cap dict \subseteq Listed' BY <3>1 DEF Reaching
    <3>4. QED BY <3>1, <3>2, <3>3 DEF Reaching, At
  <2>2. QED BY <2>1 DEF Talking
<1>6. QED BY <1>1, <1>3, <1>4, <1>5 DEF IInv

LEMMA CloseStep == ASSUME IInv, Close PROVE IInv'
<1>1. /\ closing # NoSession /\ before = << >> /\ users' = remove(closing)
      /\ UNCHANGED <<dict, task, sent, raced, ghosts, audience>>
  BY DEF Close, Unlocked, historyVars
<1>2. TypeOK /\ Removal BY DEF IInv, Typing
<1>3. PICK k \in Sessions : k = closing BY <1>1, <1>2 DEF TypeOK
<1>4. k \notin dict BY <1>1, <1>2, <1>3 DEF Removal
<1>5. PICK i : i = find(k) OBVIOUS
<1>6. PICK q \in Seq(User) : q = users BY <1>2 DEF TypeOK
<1>7. DOMAIN q = 1 .. Len(q) /\ Len(q) \in Nat BY LenProperties
<1>8. \A s : Twice(s) <=> Twice(s)' BY <1>1 DEF Twice, LoggedIn
<1>9. CASE i = 0
  <2>1. users' = users BY <1>1, <1>3, <1>5, <1>9 DEF remove
  <2>2. closing' = NoSession /\ before' = before BY <2>1 DEF Close
  <2>3. Absent(k)
    <3>1. \/ find(k) = 0 /\ \A x \in DOMAIN users : users[x].session_id # k
          \/ find(k) \in DOMAIN users
      BY <1>2, FindMeans DEF TypeOK
    <3>2. find(k) \notin DOMAIN users BY <1>5, <1>6, <1>7, <1>9
    <3>3. QED BY <3>1, <3>2 DEF Absent
  <2>4. TypeOK' BY <1>1, <1>2, <2>1, <2>2 DEF TypeOK
  <2>5. Removal' BY <1>1, <2>2 DEF Removal, Unlocked
  <2>6. Leaving'
    <3>1. \A s \in Sessions : Alone(s)' BY <1>8, <2>1 DEF IInv, Leaving, Alone
    <3>2. ASSUME NEW s \in Sessions, s \notin dict PROVE Absent(s) \/ s \in ghosts \/ Twice(s)
      <4>1. CASE s = k BY <2>3, <4>1
      <4>2. CASE s # k BY <1>3, <3>2, <4>2 DEF IInv, Leaving, Left
      <4>3. QED BY <4>1, <4>2
    <3>3. \A s \in Sessions : Absent(s)' <=> Absent(s) BY <2>1 DEF Absent
    <3>4. \A s \in Sessions : Left(s)' BY <1>1, <1>8, <3>2, <3>3 DEF Left
    <3>5. QED BY <3>1, <3>4 DEF Leaving
  <2>7. Free' BY <1>1, <2>1 DEF IInv, Free, At, NamesClashInRaces
  <2>8. /\ \A j \in DOMAIN users' : \E x \in DOMAIN users : users'[j] = users[x]
        /\ Listed \cap dict \subseteq Listed'
    BY <2>1 DEF Listed
  <2>9. QED BY <1>1, <2>4, <2>5, <2>6, <2>7, <2>8, ManagerStep
<1>10. CASE i # 0
  <2>1. i \in 1 .. Len(q) /\ q[i].session_id = k
    BY <1>2, <1>5, <1>6, <1>7, <1>10, FindMeans DEF TypeOK
  <2>2. PICK r \in Seq(User) : r = RemoveAt(q, i) BY <2>1, RemoveAtMeans
  <2>3. /\ Len(r) = Len(q) - 1 /\ \A j \in 1 .. Len(q) - 1 : r[j] = q[From(i, j)]
        /\ DOMAIN r = 1 .. Len(q) - 1
    BY <2>1, <2>2, RemoveAtMeans, LenProperties
  <2>4. users' = r BY <1>1, <1>3, <1>5, <1>6, <1>10, <2>2 DEF remove
  <2>5. users' # users BY <1>6, <1>7, <2>1, <2>3, <2>4
  <2>6. before' = users /\ closing' = closing BY <2>5 DEF Close
  <2>7. before' # << >>
    <3>1. Len(q) # 0 BY <1>7, <2>1
    <3>2. QED BY <1>6, <2>6, <3>1, EmptySeq
  \* Every user that is left has a place of its own in the old list.
  <2>8. /\ \A j \in DOMAIN r : From(i, j) \in DOMAIN q /\ From(i, j) # i
        /\ \A j, x \in DOMAIN r : j # x => From(i, j) # From(i, x)
        /\ \A x \in DOMAIN q : x # i => \E j \in DOMAIN r : From(i, j) = x
    <3>1. \A j \in DOMAIN r : From(i, j) \in DOMAIN q /\ From(i, j) # i
      BY <1>7, <2>1, <2>3 DEF From
    <3>2. \A j, x \in DOMAIN r : j # x => From(i, j) # From(i, x)
      BY <1>7, <2>1, <2>3 DEF From
    <3>3. ASSUME NEW x \in DOMAIN q, x # i PROVE \E j \in DOMAIN r : From(i, j) = x
      <4>1. CASE x < i
        <5>1. x \in DOMAIN r /\ From(i, x) = x BY <1>7, <2>1, <2>3, <3>3, <4>1 DEF From
        <5>2. QED BY <5>1
      <4>2. CASE ~(x < i)
        <5>1. x - 1 \in DOMAIN r /\ From(i, x - 1) = x
          BY <1>7, <2>1, <2>3, <3>3, <4>2 DEF From
        <5>2. QED BY <5>1
      <4>3. QED BY <4>1, <4>2
    <3>4. QED BY <3>1, <3>2, <3>3
  <2>9. TypeOK' BY <1>1, <1>2, <2>4, <2>6 DEF TypeOK
  <2>10. Removal'
    <3>1. closing' # NoSession /\ closing' \notin dict' BY <1>1, <1>3, <1>4, <2>6
    <3>2. Len(r) + 1 = Len(q) BY <1>7, <2>3
    <3>3. Len(users') + 1 = Len(before') BY <1>6, <2>4, <2>6, <3>2
    <3>4. QED BY <3>1, <3>3 DEF Removal, Unlocked
  <2>11. \A j \in DOMAIN r : r[j] = q[From(i, j)] BY <2>3
  <2>12. \A s \in Sessions : Alone(s)'
    <3>1. ASSUME NEW s \in Sessions, NEW j \in DOMAIN r, NEW x \in DOMAIN r, j # x,
                 r[j].session_id = s, r[x].session_id = s
          PROVE  Twice(s)
      BY <1>6, <2>8, <2>11, <3>1 DEF IInv, Leaving, Alone
    <3>2. QED BY <1>8, <2>4, <3>1 DEF Alone
  <2>13. \A s \in Sessions : Left(s)'
    <3>1. ASSUME NEW s \in Sessions, s \notin dict
          PROVE  (\A j \in DOMAIN r : r[j].session_id # s) \/ s \in ghosts \/ Twice(s)
      <4>1. CASE s = k
        <5>1. ASSUME NEW j \in DOMAIN r, r[j].session_id = k PROVE Twice(k)
          BY <1>6, <1>7, <2>1, <2>8, <2>11, <5>1 DEF IInv, Leaving, Alone
        <5>2. QED BY <4>1, <5>1
      <4>2. CASE s # k
        <5>1. Absent(s) \/ s \in ghosts \/ Twice(s)
          BY <1>3, <3>1, <4>2 DEF IInv, Leaving, Left
        <5>2. Absent(s) => \A j \in DOMAIN r : r[j].session_id # s
          BY <1>6, <2>8, <2>11 DEF Absent
        <5>3. QED BY <5>1, <5>2
      <4>3. QED BY <4>1, <4>2
    <3>2. QED BY <1>1, <1>8, <2>4, <3>1 DEF Left, Absent
  <2>14. Leaving' BY <2>12, <2>13 DEF Leaving
  <2>15. Free'
    <3>1. \A t \in Tasks : At(t, "add")' <=> At(t, "add") BY <1>1 DEF At
    <3>2. NamesClashInRaces'
      <4>1. ASSUME NEW j \in DOMAIN r, NEW x \in DOMAIN r, j # x,
                   r[j].nickname = r[x].nickname
            PROVE  r[j].nickname \in raced
        BY <1>6, <2>8, <2>11, <4>1 DEF IInv, Free, NamesClashInRaces
      <4>2. QED BY <1>1, <2>4, <4>1 DEF NamesClashInRaces
    <3>3. ASSUME NEW t \in Tasks, At(t, "add"), NEW j \in DOMAIN r,
                 r[j].nickname = task[t].name
          PROVE  task[t].name \in raced
      BY <1>6, <2>8, <2>11, <3>3 DEF IInv, Free
    <3>4. \A t, u \in Tasks :
             t # u /\ At(t, "add") /\ At(u, "add") /\ task[t].name = task[u].name =>
                 task[t].name \in raced
      BY DEF IInv, Free
    <3>5. QED BY <1>1, <2>4, <3>1, <3>2, <3>3, <3>4 DEF Free
  <2>16. \A j \in DOMAIN users' : \E x \in DOMAIN users : users'[j] = users[x]
    BY <1>6, <2>4, <2>8, <2>11
  <2>17. Listed \cap dict \subseteq Listed'
    <3>1. ASSUME NEW x \in DOMAIN q, q[x].session_id \in dict
          PROVE  \E j \in DOMAIN r : r[j].session_id = q[x].session_id
      BY <1>4, <2>1, <2>8, <2>11, <3>1
    <3>2. QED BY <1>6, <2>4, <3>1 DEF Listed
  <2>18. QED BY <1>1, <2>9, <2>10, <2>14, <2>15, <2>16, <2>17, ManagerStep
<1>11. QED BY <1>9, <1>10

LEMMA ClosedStep == ASSUME IInv, Closed PROVE IInv'
<1>1. /\ before # << >> /\ before' = << >> /\ closing' = NoSession
      /\ UNCHANGED <<users, dict, task, sent, raced, ghosts, audience>>
  BY DEF Closed, Unlocked, historyVars
<1>2. TypeOK' BY <1>1 DEF IInv, Typing, TypeOK
<1>3. Removal' BY <1>1 DEF Removal, Unlocked
<1>4. \A s : Twice(s) <=> Twice(s)' BY <1>1 DEF Twice, LoggedIn
<1>5. Leaving'
  <2>1. \A s \in Sessions : Alone(s)' BY <1>1, <1>4 DEF IInv, Leaving, Alone
  <2>2. \A s \in Sessions : Left(s)'
    BY <1>1, <1>4 DEF IInv, Leaving, Left, Absent, Unlocked
  <2>3. QED BY <2>1, <2>2 DEF Leaving
<1>6. Free' BY <1>1 DEF IInv, Free, At, NamesClashInRaces
<1>7. /\ \A j \in DOMAIN users' : \E i \in DOMAIN users : users'[j] = users[i]
      /\ Listed \cap dict \subseteq Listed'
  BY <1>1 DEF Listed
<1>8. QED BY <1>1, <1>2, <1>3, <1>5, <1>6, <1>7, ManagerStep

-----------------------------------------------------------------------------
(* The invariant                                                           *)

LEMMA InitInv == Init => IInv
<1> SUFFICES ASSUME Init PROVE IInv OBVIOUS
<1> USE DEF Init
<1>1. PICK k : k = [pc |-> "idle", op |-> "login", who |-> NoSession, name |-> NoName,
                    me |-> NoName, todo |-> << >>, reply |-> "none"]
  OBVIOUS
<1>2. << >> \in Seq(User) BY EmptySeq
<1>3. /\ k \in Job /\ k.pc = "idle" /\ k.op = "login" /\ k.reply = "none" /\ k.me = NoName
  BY <1>1, <1>2 DEF Job, Ops
<1>4. task = [t \in Tasks |-> k] BY <1>1
<1>5. \A t \in Tasks : task[t] = k BY <1>4
<1>6. \A t \in Tasks, s \in Sessions : sent[t][s] = 0 OBVIOUS
<1>7. TypeOK
  <2>1. task \in [Tasks -> Job] BY <1>3, <1>4
  <2>2. sent \in [Tasks -> [Sessions -> Nat]] OBVIOUS
  <2>3. audience \in [Tasks -> SUBSET Sessions] OBVIOUS
  <2>4. QED BY <1>2, <2>1, <2>2, <2>3 DEF TypeOK
<1>8. Typing
  <2>1. Removal BY DEF Removal, Unlocked
  <2>2. \A t \in Tasks : Placed(t) BY <1>3, <1>5, <1>6, LabelsAre DEF Placed
  <2>3. QED BY <1>7, <2>1, <2>2 DEF Typing
<1>9. DOMAIN users = {} OBVIOUS
<1>10. Free /\ Registered /\ Leaving
  BY <1>3, <1>5, <1>9 DEF Free, At, NamesClashInRaces, Registered, Leaving, Alone, Left, Absent
<1>11. Private /\ Talking BY <1>3, <1>5 DEF Private, Talking
<1>12. QED BY <1>8, <1>10, <1>11 DEF IInv

LEMMA NextInv == IInv /\ [Next]_vars => IInv'
<1> SUFFICES ASSUME IInv, [Next]_vars PROVE IInv' OBVIOUS
<1>1. ASSUME NEW t \in Tasks, Handler(t) PROVE IInv'
  <2>1. ASSUME NEW op \in Ops, NEW s \in Sessions, NEW n \in Names \cup {NoName},
               Start(t, op, s, n)
        PROVE  IInv'
    BY <2>1, StartStep
  <2>2. CASE Check(t) BY <2>2, CheckStep
  <2>3. CASE Add(t) BY <2>3, AddStep
  <2>4. CASE Find(t) BY <2>4, FindStep
  <2>5. CASE Target(t) BY <2>5, TargetStep
  <2>6. CASE Talk(t) BY <2>6, TalkStep
  <2>7. CASE TalkEnds(t) BY <2>7, TalkEndsStep
  <2>8. CASE To(t) BY <2>8, ToStep
  <2>9. CASE Pong(t) BY <2>9, PongStep
  <2>10. ASSUME NEW p \in 0 .. Len(before), List(t, p) PROVE IInv' BY <2>10, ListStep
  <2>11. QED
    BY <1>1, <2>1, <2>2, <2>3, <2>4, <2>5, <2>6, <2>7, <2>8, <2>9, <2>10 DEF Handler
<1>2. ASSUME NEW s \in Sessions, Sweep(s) PROVE IInv' BY <1>2, SweepStep
<1>3. CASE Close BY <1>3, CloseStep
<1>4. CASE Closed BY <1>4, ClosedStep
<1>5. CASE UNCHANGED vars
  <2>1. UNCHANGED <<users, dict, closing, before, task, sent, raced, ghosts, audience>>
    BY <1>5 DEF vars, stateVars, historyVars
  <2>2. TypeOK' BY <2>1 DEF IInv, Typing, TypeOK
  <2>3. Removal' BY <2>1 DEF IInv, Typing, Removal, Unlocked
  <2>4. \A s : Twice(s) <=> Twice(s)' BY <2>1 DEF Twice, LoggedIn
  <2>5. Leaving' BY <2>1, <2>4 DEF IInv, Leaving, Alone, Left, Absent, Unlocked
  <2>6. Free' BY <2>1 DEF IInv, Free, At, NamesClashInRaces
  <2>7. /\ \A j \in DOMAIN users' : \E i \in DOMAIN users : users'[j] = users[i]
        /\ Listed \cap dict \subseteq Listed'
    BY <2>1 DEF Listed
  <2>8. QED BY <2>1, <2>2, <2>3, <2>5, <2>6, <2>7, ManagerStep
<1>6. QED BY <1>1, <1>2, <1>3, <1>4, <1>5 DEF Next

LEMMA Invariant == Spec => []IInv
<1>1. Init => IInv BY InitInv
<1>2. IInv /\ [Next]_vars => IInv' BY NextInv
<1>3. QED BY <1>1, <1>2, PTL DEF Spec

-----------------------------------------------------------------------------
(* The theorems                                                            *)

\* Every variable keeps its type; in particular, a reading of the list that meets a
\* removal in its middle still reads users, and every handler is where its request lets
\* it be.
THEOREM TypeCorrect == Spec => []TypeOK
<1>1. IInv => TypeOK BY DEF IInv, Typing
<1>2. QED BY <1>1, Invariant, PTL

\* Two users share a nickname only if two logins found it free together, between
\* check_nickname and add, however many log in and leave.
THEOREM NamesClashOnlyInRaces == Spec => []NamesClashInRaces
<1>1. IInv => NamesClashInRaces BY DEF IInv, Free
<1>2. QED BY <1>1, Invariant, PTL

\* Once its Closed function has run, a session is not in the list, unless it logged in
\* twice or a login of it was late.
THEOREM ClosedSessionsLeave == Spec => []ClosedHasLeft
<1>1. ASSUME IInv PROVE ClosedHasLeft
  <2>1. ASSUME NEW s \in Sessions, Over(s), find(s) # 0
        PROVE  s \in ghosts \/ \E t, u \in LoggedIn(s) : t # u
    <3>1. ~Absent(s) BY <1>1, <2>1, FindMeans DEF IInv, Typing, TypeOK, Absent
    <3>2. s \in ghosts \/ Twice(s)
      BY <1>1, <2>1, <3>1 DEF IInv, Leaving, Left, Over
    <3>3. QED BY <3>2 DEF Twice
  <2>2. QED BY <2>1 DEF ClosedHasLeft
<1>2. QED BY <1>1, Invariant, PTL

\* A talk that is done was sent to everyone who was listed when it began and is still
\* known, and not to its sender.
THEOREM TalkReachesAll == Spec => []TalkReaches
<1>1. ASSUME IInv PROVE TalkReaches
  <2>1. ASSUME NEW t \in Tasks, task[t].op = "talk", task[t].reply = "ok"
        PROVE  /\ sent[t][task[t].who] = 0
               /\ \A s \in (audience[t] \cap dict) \ {task[t].who} : sent[t][s] > 0
    <3>1. Reaching(t) /\ Placed(t) BY <1>1, <2>1 DEF IInv, Talking, Typing
    <3>2. task[t].pc # "idle" BY <2>1, <3>1 DEF Placed
    <3>3. QED BY <2>1, <3>1, <3>2 DEF Reaching
  <2>2. QED BY <2>1 DEF TalkReaches
<1>2. QED BY <1>1, Invariant, PTL

\* A private message or a ping goes to a session that logged in under the name that was
\* asked for, and shows a name under which the sender's own session did.
THEOREM PrivateReachesTheNamed == Spec => []PrivateIsForTheNamed
<1>1. IInv => PrivateIsForTheNamed
  BY DEF IInv, Private, Addressed, Known, PrivateIsForTheNamed
<1>2. QED BY <1>1, Invariant, PTL
=============================================================================
