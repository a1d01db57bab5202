--------------------------- MODULE CallPathProofs ---------------------------
(* Proofs of the safety properties of CallPath, for every number of calls *)
(* and any methods of either side.                                         *)
EXTENDS CallPath, SequenceFacts, TLAPS

-----------------------------------------------------------------------------
(* The invariants                                                          *)

Pending == ToSet(requests) \cup tasks
Replied == results \cup ToSet(answers)

\* A request, on its way or in a task, is what its call asked for; the call has no reply
\* yet, and its function has not run.
Asked(f) ==
    /\ f.tag = stub.tag /\ f.count = stub.args
    /\ form[f.call] \in Forms /\ f.tt = TtOf(form[f.call])
    /\ outcome[f.call] \in {"sent", Waiting, "timeout"}
    /\ body[f.call] = "none" /\ ~Ran(f.call)
    /\ \A r \in Replied : r.call # f.call

\* A call has one request at most.
Apart(q) == \A i, j \in 1 .. Len(q) : i # j => q[i].call # q[j].call

Alone ==
    /\ Apart(requests)
    /\ \A f \in ToSet(requests), g \in tasks : f.call # g.call
    /\ \A f, g \in tasks : f.call = g.call => f = g

\* Whether the function of a call ended well, or there was none to run.
Spared(c) == stub.tag \in Special /\ ~Ran(c)

\* A reply is to a call that waits, or has timed out, and says a success only if the
\* call's function did.
Backed(r) ==
    /\ outcome[r.call] # "none"
    /\ form[r.call] \in {"value", "result", "checkrun"}
    /\ ~r.result.is_error /\ r.result.arguments = 1 => body[r.call] = "ok"
    /\ ~r.result.is_error /\ form[r.call] = "checkrun" => body[r.call] = "ok" \/ Spared(r.call)

\* What has not been issued has no history; a call is issued when the ones before it
\* have returned.
Ordered ==
    /\ \A c \in Calls : outcome[c] = "none" => body[c] = "none" /\ ~Ran(c)
    /\ \A c, d \in Calls : d < c /\ outcome[c] # "none" => outcome[d] \in Returned

Framed == \A f \in Pending : Asked(f)
Honest == \A r \in Replied : Backed(r)

IInv ==
    /\ Framed /\ Alone /\ Honest /\ Ordered
    /\ RunsAsDeclared /\ SuccessIsEarned /\ AnsweredRunFirst

-----------------------------------------------------------------------------
(* Sequences of requests                                                   *)

LEMMA ApartAppend ==
    ASSUME NEW q \in Seq(Requests), NEW e \in Requests, Apart(q),
           \A f \in ToSet(q) : f.call # e.call
    PROVE  Apart(Append(q, e))
<1>1. PICK r \in Seq(Requests) : r = Append(q, e) BY AppendProperties
<1>2. /\ Len(r) = Len(q) + 1 /\ Len(q) \in Nat /\ r[Len(q) + 1] = e
      /\ \A i \in 1 .. Len(q) : r[i] = q[i]
      /\ DOMAIN q = 1 .. Len(q)
  BY <1>1, AppendProperties, LenProperties
<1>3. \A i \in 1 .. Len(r) : i \in 1 .. Len(q) \/ i = Len(q) + 1 BY <1>2
<1>4. \A i \in 1 .. Len(q) : q[i].call # e.call BY <1>2 DEF ToSet
<1>5. Apart(r) BY <1>2, <1>3, <1>4 DEF Apart
<1>6. QED BY <1>1, <1>5

LEMMA ApartTail ==
    ASSUME NEW q \in Seq(Requests), q # << >>, Apart(q)
    PROVE  Apart(Tail(q)) /\ \A f \in ToSet(Tail(q)) : f.call # Head(q).call
<1>1. PICK r \in Seq(Requests) : r = Tail(q) BY HeadTailProperties
<1>2. /\ Len(r) = Len(q) - 1 /\ Len(q) \in Nat /\ Len(q) > 0 /\ Len(r) \in Nat
      /\ \A i \in 1 .. Len(r) : r[i] = q[i + 1]
      /\ DOMAIN r = 1 .. Len(r)
  BY <1>1, HeadTailProperties, LenProperties, EmptySeq
<1>3. Head(q) = q[1] OBVIOUS
<1>4. \A i \in 1 .. Len(r) : i + 1 \in 1 .. Len(q) /\ i + 1 # 1 BY <1>2
<1>5. 1 \in 1 .. Len(q) BY <1>2
<1>6. \A i \in 1 .. Len(r) : r[i].call # q[1].call BY <1>2, <1>4, <1>5 DEF Apart
<1>7. Apart(r)
  <2>1. ASSUME NEW i \in 1 .. Len(r), NEW j \in 1 .. Len(r), i # j
        PROVE  r[i].call # r[j].call
    <3>1. i + 1 # j + 1 BY <2>1
    <3>2. QED BY <1>2, <1>4, <3>1 DEF Apart
  <2>2. QED BY <2>1 DEF Apart
<1>8. QED BY <1>1, <1>2, <1>3, <1>6, <1>7 DEF ToSet

\* A call has run when it is appended.
LEMMA RanAppend ==
    ASSUME TypeOK, NEW d \in Calls, ran' = Append(ran, d)
    PROVE  \A c : Ran(c)' <=> Ran(c) \/ c = d
<1>1. PICK q \in Seq(Calls) : q = ran BY DEF TypeOK
<1>2. PICK r \in Seq(Calls) : r = Append(q, d) BY AppendProperties
<1>3. /\ Len(r) = Len(q) + 1 /\ Len(q) \in Nat /\ r[Len(q) + 1] = d
      /\ \A i \in 1 .. Len(q) : r[i] = q[i]
      /\ DOMAIN r = 1 .. Len(r) /\ DOMAIN q = 1 .. Len(q)
  BY <1>2, AppendProperties, LenProperties
<1>4. \A i : i \in 1 .. Len(r) <=> i \in 1 .. Len(q) \/ i = Len(q) + 1 BY <1>3
<1>5. \A c : (\E i \in DOMAIN r : r[i] = c) <=> (\E i \in DOMAIN q : q[i] = c) \/ c = d
  BY <1>3, <1>4
<1>6. ran' = r BY <1>1, <1>2
<1>7. QED BY <1>1, <1>5, <1>6 DEF Ran

-----------------------------------------------------------------------------
(* The operators of the model                                              *)

\* The type of a form, whichever side calls.
LEMMA TtIs ==
    ASSUME NEW f \in Forms
    PROVE  /\ TtOf(f) \in 0 .. 2
           /\ TtOf(f) = 2 <=> f \in {"value", "result"}
           /\ TtOf(f) = 1 <=> f = "checkrun"
           /\ TtOf(f) = 0 <=> f \in {"run", "run_not_err"}
BY DEF TtOf, call, call_peer, Forms

LEMMA FormIs == ASSUME TypeOK PROVE FormOf(stub) \in {"run_not_err", "checkrun", "value"}
BY TraitsAssumption DEF TypeOK, FormOf, get_impl_func_client, get_impl_func_server, Methods

\* The arm of a tag is a method of the trait that has it.
LEMMA ArmIs ==
    ASSUME TypeOK, NEW tag, ArmOf(tag) # 0
    PROVE  Arm(tag) \in ToSet(trait) /\ Arm(tag).tag = tag /\ Arm(tag) \in Methods
<1>1. PICK arms : arms = {i \in get_funcs_info(trait) : trait[i].tag = tag} OBVIOUS
<1>2. trait \in Seq(Methods) BY TraitsAssumption DEF TypeOK
<1>3. DOMAIN trait = 1 .. Len(trait) /\ Len(trait) \in Nat BY <1>2, LenProperties
<1>4. arms \subseteq DOMAIN trait BY <1>1 DEF get_funcs_info
<1>5. arms \subseteq Nat BY <1>3, <1>4
<1>6. arms # {} /\ ArmOf(tag) = Min(arms) BY <1>1 DEF ArmOf
<1>7. ArmOf(tag) \in arms BY <1>5, <1>6, MinIn
<1>8. ArmOf(tag) \in DOMAIN trait /\ trait[ArmOf(tag)].tag = tag BY <1>1, <1>4, <1>7
<1>9. Arm(tag) \in ToSet(trait) /\ Arm(tag).tag = tag BY <1>8 DEF Arm, ToSet
<1>10. QED BY <1>2, <1>9, ToSetIn

\* What an arm has made sure of.
LEMMA AcceptsMeans ==
    ASSUME NEW m, NEW f, Accepts(m, f)
    PROVE  get_function_tt(m.ret) = f.tt /\ m.args = f.count
BY DEF Accepts, build_client_accepts, build_server_accepts

LEMMA FunctionTt ==
    ASSUME NEW ret \in {"none", "unit", "value"}
    PROVE  /\ get_function_tt(ret) = 0 <=> ret = "none"
           /\ get_function_tt(ret) = 1 <=> ret = "unit"
           /\ get_function_tt(ret) = 2 <=> ret = "value"
           /\ Ends(ret) \subseteq {"ok", "err", "unpacked"}
           /\ ret = "unit" => Ends(ret) = {"ok", "err"}
BY DEF get_function_tt, Ends

LEMMA ResultTypes ==
    /\ success \in RetResult /\ ~success.is_error /\ success.arguments = 0
    /\ execute_controller \in RetResult /\ execute_controller.is_error
    /\ \A b : /\ add_arg_buff(success, b) \in RetResult
              /\ add_arg_buff(success, b).arguments = 1 => b = "ok"
<1>1. PICK n : n = (IF callee = "server" THEN -1 ELSE 1) OBVIOUS
<1>2. n \in {-1, 0, 1} BY <1>1
<1>3. execute_controller = [is_error |-> TRUE, error_id |-> n, arguments |-> 0]
  BY <1>1 DEF execute_controller, error
<1>4. execute_controller \in RetResult /\ execute_controller.is_error
  BY <1>2, <1>3 DEF RetResult
<1>5. success \in RetResult /\ ~success.is_error /\ success.arguments = 0
  BY DEF success, RetResult
<1>6. ASSUME NEW b
      PROVE  /\ add_arg_buff(success, b) \in RetResult
             /\ add_arg_buff(success, b).arguments = 1 => b = "ok"
  <2>1. PICK a : a = (IF b = "ok" THEN 1 ELSE 0) OBVIOUS
  <2>2. a \in 0 .. 1 /\ (a = 1 => b = "ok") BY <2>1
  <2>3. PICK r \in RetResult : r = success BY <1>5
  <2>4. [r EXCEPT !.arguments = a] \in RetResult /\ [r EXCEPT !.arguments = a].arguments = a
    BY <2>2 DEF RetResult
  <2>5. add_arg_buff(success, b) = [r EXCEPT !.arguments = a]
    BY <2>1, <2>3 DEF add_arg_buff
  <2>6. QED BY <2>2, <2>4, <2>5
<1>7. QED BY <1>4, <1>5, <1>6

\* What a caller makes of a reply that has been on the wire.
LEMMA VerdictIs ==
    ASSUME NEW f \in {"value", "result", "checkrun"}, NEW r \in RetResult
    PROVE  /\ Verdict(f, from(r)) \in {"raw", "CallError", "value", "IOError", "ok"}
           /\ Verdict(f, from(r)) = "value" => ~r.is_error /\ r.arguments = 1
           /\ Verdict(f, from(r)) = "ok" => ~r.is_error /\ f = "checkrun"
<1>1. from(r).is_error = r.is_error
  BY DEF from, error, success, RetResult
<1>2. ~r.is_error => from(r).arguments = r.arguments
  BY DEF from, error, success, RetResult
<1>3. r.arguments \in 0 .. 1 /\ r.is_error \in BOOLEAN BY DEF RetResult
<1>4. PICK v : v = from(r) OBVIOUS
<1>5. CASE f = "result" BY <1>5 DEF Verdict
<1>6. CASE f # "result" /\ r.is_error
  BY <1>1, <1>4, <1>6 DEF Verdict, check
<1>7. CASE f = "value" /\ ~r.is_error
  BY <1>1, <1>2, <1>3, <1>4, <1>7 DEF Verdict, check, deserialize
<1>8. CASE f = "checkrun" /\ ~r.is_error
  BY <1>1, <1>2, <1>3, <1>4, <1>8 DEF Verdict, check, deserialize
<1>9. QED BY <1>3, <1>5, <1>6, <1>7, <1>8

-----------------------------------------------------------------------------
(* The steps, by what they change                                          *)

LEMMA InReplied ==
    ASSUME TypeOK PROVE Pending \subseteq Requests /\ Replied \subseteq Replies
BY ToSetIn DEF TypeOK, Pending, Replied

\* Requests and replies only pass from one hand to the next.
LEMMA PassStep ==
    ASSUME TypeOK, IInv, UNCHANGED <<apiVars, form, outcome, ran, body>>,
           Pending' = Pending, Replied' = Replied, Alone'
    PROVE  IInv'
<1> USE DEF apiVars
<1>1. Framed'
  <2>1. \A f \in Pending : Asked(f)'
    BY DEF IInv, Framed, Asked, TtOf, call_peer, Ran
  <2>2. QED BY <2>1 DEF Framed
<1>2. Honest'
  <2>1. \A r \in Replied : Backed(r)' BY DEF IInv, Honest, Backed, Spared, Ran
  <2>2. QED BY <2>1 DEF Honest
<1>3. Ordered' BY DEF IInv, Ordered, Ran
<1>4. RunsAsDeclared' BY DEF IInv, RunsAsDeclared, Ran
<1>5. SuccessIsEarned' /\ AnsweredRunFirst'
  BY DEF IInv, SuccessIsEarned, AnsweredRunFirst, Ran
<1>6. QED BY <1>1, <1>2, <1>3, <1>4, <1>5 DEF IInv

\* A call of form g returns v.
Returns(c, v, g) ==
    /\ outcome' = [outcome EXCEPT ![c] = v]
    /\ form' = [form EXCEPT ![c] = g]
    /\ UNCHANGED <<apiVars, requests, tasks, ran, body>>

\* It may do so at once.
LEMMA ReturnStep ==
    ASSUME TypeOK, IInv, NEW c \in Calls, NEW v \in Returned, NEW g,
           outcome[c] \in {"none", Waiting}, outcome[c] = "none" => Idle(c),
           outcome[c] # "none" => g = form[c],
           Returns(c, v, g), Replied' \subseteq Replied,
           \A f \in Pending : f.call = c => v = "timeout",
           v = "value" => body[c] = "ok",
           v = "ok" => body[c] = "ok" \/ Spared(c)
    PROVE  IInv'
<1> USE DEF apiVars, Returns
<1>1. /\ outcome'[c] = v /\ form'[c] = g
      /\ \A d \in Calls \ {c} : outcome'[d] = outcome[d] /\ form'[d] = form[d]
  BY DEF TypeOK
<1>2. Pending' = Pending /\ Pending \subseteq Requests /\ Replied \subseteq Replies
  BY InReplied DEF Pending
<1>3. \A d : Ran(d)' <=> Ran(d) BY DEF Ran
<1>4. v # "none" /\ v # Waiting BY DEF Returned, Waiting
<1>5. Framed'
  <2>1. ASSUME NEW f \in Pending PROVE Asked(f)'
    <3>1. Asked(f) /\ f.call \in Calls BY <1>2 DEF IInv, Framed, Requests
    <3>2. form'[f.call] = form[f.call]
      BY <1>1, <3>1 DEF Asked, Waiting
    <3>3. outcome'[f.call] \in {"sent", Waiting, "timeout"} BY <1>1, <3>1 DEF Asked
    <3>4. TtOf(form[f.call])' = TtOf(form[f.call]) BY <3>2 DEF TtOf, call_peer
    <3>5. QED BY <1>3, <3>1, <3>2, <3>3, <3>4 DEF Asked
  <2>2. QED BY <1>2, <2>1 DEF Framed
<1>6. Alone' BY DEF IInv, Alone
<1>7. Honest'
  <2>1. ASSUME NEW r \in Replied PROVE Backed(r)'
    <3>1. Backed(r) /\ r.call \in Calls BY <1>2 DEF IInv, Honest, Replies
    <3>2. form'[r.call] = form[r.call] /\ outcome'[r.call] # "none"
      BY <1>1, <1>4, <3>1 DEF Backed
    <3>3. QED BY <1>3, <3>1, <3>2 DEF Backed, Spared
  <2>2. QED BY <2>1 DEF Honest
<1>8. Ordered'
  <2>1. \A d \in Calls : outcome'[d] = "none" => body[d] = "none" /\ ~Ran(d)
    BY <1>1, <1>4 DEF IInv, Ordered
  <2>2. ASSUME NEW e \in Calls, NEW d \in Calls, d < e, outcome'[e] # "none"
        PROVE  outcome'[d] \in Returned
    <3>1. CASE outcome[e] # "none"
      BY <1>1, <2>2, <3>1 DEF IInv, Ordered
    <3>2. CASE outcome[e] = "none"
      <4>1. e = c /\ Idle(c) BY <1>1, <2>2, <3>2
      <4>2. d # c /\ outcome[d] \in Returned BY <2>2, <4>1 DEF Idle, Calls
      <4>3. QED BY <1>1, <4>2
    <3>3. QED BY <3>1, <3>2
  <2>3. QED BY <1>3, <2>1, <2>2 DEF Ordered
<1>9. RunsAsDeclared'
  <2>1. \A d \in Calls : Ran(d) => form'[d] = form[d]
    BY <1>1 DEF IInv, Ordered
  <2>2. QED BY <1>3, <2>1 DEF IInv, RunsAsDeclared
<1>10. SuccessIsEarned' BY <1>1, <1>3 DEF IInv, SuccessIsEarned, Spared
<1>11. AnsweredRunFirst'
  <2>1. DOMAIN ran = 1 .. Len(ran) /\ \A q \in DOMAIN ran : ran[q] \in Calls
    BY LenProperties, ElementOfSeq DEF TypeOK
  <2>2. \A q \in DOMAIN ran :
           outcome[ran[q]] \in {"sent", "timeout"} => outcome'[ran[q]] = outcome[ran[q]]
    BY <1>1, <2>1 DEF Waiting
  <2>3. QED BY <2>1, <2>2 DEF IInv, AnsweredRunFirst
<1>12. QED BY <1>5, <1>6, <1>7, <1>8, <1>9, <1>10, <1>11 DEF IInv

LEMMA IssueStep ==
    ASSUME TypeOK, IInv, NEW c \in Calls, NEW f \in Forms, NEW n \in Nat, Issue(c, f, n)
    PROVE  TypeOK' /\ IInv'
<1> USE DEF apiVars
<1>i. Idle(c) /\ UNCHANGED <<apiVars, controller, tasks, results, answers, ran, body>>
  BY DEF Issue
<1>tt. TtOf(f) \in 0 .. 2 BY TtIs
<1>1. PICK new : new = [call |-> c, tt |-> TtOf(f), tag |-> stub.tag, count |-> stub.args,
                        packed |-> n]
  OBVIOUS
<1>2. /\ new \in Requests /\ new.call = c /\ new.tt = TtOf(f) /\ new.tag = stub.tag
      /\ new.count = stub.args
  <2>1. stub \in Methods BY TraitsAssumption DEF TypeOK
  <2>2. stub.tag \in STRING /\ stub.args \in Nat BY <2>1 DEF Methods
  <2>3. QED BY <1>tt, <1>1, <2>2 DEF Requests
<1>3. requests' = Append(requests, new) BY <1>1 DEF Issue
<1>4. PICK v \in {"sent", Waiting} : outcome' = [outcome EXCEPT ![c] = v] BY DEF Issue
<1>5. /\ outcome'[c] = v /\ form'[c] = f
      /\ \A d \in Calls \ {c} : outcome'[d] = outcome[d] /\ form'[d] = form[d]
  BY <1>4 DEF TypeOK, Issue
<1>6. requests \in Seq(Requests) BY DEF TypeOK
<1>7. requests' \in Seq(Requests) /\ ToSet(requests') = ToSet(requests) \cup {new}
  BY <1>2, <1>3, <1>6, AppendProperties, ToSetAppend
<1>8. Pending' = Pending \cup {new} /\ Replied' = Replied
  BY <1>i, <1>7 DEF Pending, Replied
<1>9. Pending \subseteq Requests /\ Replied \subseteq Replies BY InReplied
<1>10. \A d : Ran(d)' <=> Ran(d) BY <1>i DEF Ran
<1>11. outcome[c] = "none" BY <1>i DEF Idle
<1>12. TypeOK'
  <2>1. form' \in [Calls -> Forms \cup {"none"}] BY DEF TypeOK, Issue
  <2>2. outcome' \in [Calls -> Returned \cup {"none", Waiting}]
    BY <1>4 DEF TypeOK, Returned
  <2>3. QED BY <1>i, <1>7, <2>1, <2>2 DEF TypeOK
<1>13. Framed'
  <2>1. ASSUME NEW g \in Pending PROVE Asked(g)'
    <3>1. Asked(g) /\ g.call \in Calls BY <1>9 DEF IInv, Framed, Requests
    <3>2. g.call # c BY <1>11, <3>1 DEF Asked, Waiting
    <3>3. TtOf(form[g.call])' = TtOf(form[g.call])
      BY <1>i, <1>5, <3>1, <3>2 DEF TtOf, call_peer
    <3>4. QED BY <1>i, <1>5, <1>8, <1>10, <3>1, <3>2, <3>3 DEF Asked
  <2>2. Asked(new)'
    <3>1. TtOf(form[c])' = TtOf(f) BY <1>i, <1>5 DEF TtOf, call_peer
    <3>2. body[c] = "none" /\ ~Ran(c) BY <1>11 DEF IInv, Ordered
    <3>3. \A r \in Replied : r.call # c BY <1>11 DEF IInv, Honest, Backed
    <3>4. QED BY <1>i, <1>2, <1>5, <1>8, <1>10, <3>1, <3>2, <3>3 DEF Asked
  <2>3. QED BY <1>8, <2>1, <2>2 DEF Framed
<1>14. Alone'
  <2>1. \A g \in Pending : g.call # c
    BY <1>11 DEF IInv, Framed, Asked, Waiting
  <2>2. Apart(requests')
    <3>1. \A g \in ToSet(requests) : g.call # new.call BY <1>2, <2>1 DEF Pending
    <3>2. Apart(requests) BY DEF IInv, Alone
    <3>3. QED BY <1>2, <1>3, <1>6, <3>1, <3>2, ApartAppend
  <2>3. \A g \in ToSet(requests'), h \in tasks : g.call # h.call
    BY <1>2, <1>7, <2>1 DEF IInv, Alone, Pending
  <2>4. QED BY <1>i, <2>2, <2>3 DEF IInv, Alone, Apart
<1>15. Honest'
  <2>1. ASSUME NEW r \in Replied PROVE Backed(r)'
    <3>1. Backed(r) /\ r.call \in Calls BY <1>9 DEF IInv, Honest, Replies
    <3>2. r.call # c BY <1>11, <3>1 DEF Backed
    <3>3. QED BY <1>i, <1>5, <1>10, <3>1, <3>2 DEF Backed, Spared
  <2>2. QED BY <1>8, <2>1 DEF Honest
<1>16. Ordered'
  <2>1. \A d \in Calls : outcome'[d] = "none" => body[d] = "none" /\ ~Ran(d)
    BY <1>5 DEF IInv, Ordered, Waiting
  <2>2. ASSUME NEW e \in Calls, NEW d \in Calls, d < e, outcome'[e] # "none"
        PROVE  outcome'[d] \in Returned
    <3>1. CASE outcome[e] # "none"
      <4>1. outcome[d] \in Returned BY <2>2, <3>1 DEF IInv, Ordered
      <4>2. d # c BY <1>11, <4>1 DEF Returned
      <4>3. QED BY <1>5, <4>1, <4>2
    <3>2. CASE outcome[e] = "none"
      <4>1. e = c BY <1>5, <2>2, <3>2
      <4>2. d # c /\ outcome[d] \in Returned BY <1>i, <2>2, <4>1 DEF Idle, Calls
      <4>3. QED BY <1>5, <4>2
    <3>3. QED BY <3>1, <3>2
  <2>3. QED BY <1>i, <1>10, <2>1, <2>2 DEF Ordered
<1>17. RunsAsDeclared'
  <2>1. \A d \in Calls : Ran(d) => form'[d] = form[d] BY <1>5, <1>11 DEF IInv, Ordered
  <2>2. QED BY <1>i, <1>10, <2>1 DEF IInv, RunsAsDeclared
<1>18. SuccessIsEarned' BY <1>i, <1>5, <1>10 DEF IInv, SuccessIsEarned, Waiting
<1>19. AnsweredRunFirst'
  <2>1. DOMAIN ran = 1 .. Len(ran) /\ \A q \in DOMAIN ran : ran[q] \in Calls
    BY LenProperties, ElementOfSeq DEF TypeOK
  <2>2. \A q \in DOMAIN ran :
           outcome[ran[q]] \in {"sent", "timeout"} => outcome'[ran[q]] = outcome[ran[q]]
    BY <1>5, <1>11, <2>1
  <2>3. QED BY <1>i, <2>1, <2>2 DEF IInv, AnsweredRunFirst
<1>20. QED BY <1>12, <1>13, <1>14, <1>15, <1>16, <1>17, <1>18, <1>19 DEF IInv

\* What a task leaves to be answered when it ends.
Reply(f, r) == [call |-> f.call, result |-> r]

LEMMA FinishTypes ==
    ASSUME TypeOK, NEW f \in tasks, NEW r \in RetResult, Finish(f, r)
    PROVE  /\ f \in Requests /\ f.call \in Calls
           /\ Reply(f, r) \in Replies /\ Reply(f, r).call = f.call /\ Reply(f, r).result = r
           /\ tasks' = tasks \ {f} /\ tasks' \in SUBSET Requests
           /\ results' = IF f.tt = 0 THEN results ELSE results \cup {Reply(f, r)}
           /\ results' \in SUBSET Replies
           /\ UNCHANGED <<apiVars, controller, form, outcome, requests, answers>>
<1>1. f \in Requests /\ f.call \in Calls BY DEF TypeOK, Requests
<1>2. Reply(f, r) \in Replies /\ Reply(f, r).call = f.call /\ Reply(f, r).result = r
  BY <1>1 DEF Reply, Replies
<1>3. results' = IF f.tt = 0 THEN results ELSE results \cup {Reply(f, r)}
  BY DEF Finish, Reply
<1>4. QED BY <1>1, <1>2, <1>3 DEF Finish, TypeOK

\* The requests that a task leaves behind are not of its call.
LEMMA OthersPending ==
    ASSUME TypeOK, IInv, NEW f \in tasks, tasks' = tasks \ {f}, UNCHANGED requests
    PROVE  /\ Asked(f)
           /\ Pending' \subseteq Pending
           /\ \A g \in Pending' : Asked(g) /\ g.call # f.call
           /\ Alone'
<1>1. f \in Pending BY DEF Pending
<1>2. Pending' \subseteq Pending BY DEF Pending
<1>3. \A g \in Pending' : g.call # f.call BY DEF Pending, IInv, Alone
<1>4. Alone' BY DEF IInv, Alone, Apart
<1>5. QED BY <1>1, <1>2, <1>3, <1>4 DEF IInv, Framed

\* A task ends and no function has run.
LEMMA DeclineStep ==
    ASSUME TypeOK, IInv, NEW f \in tasks, NEW r \in RetResult, Finish(f, r),
           UNCHANGED <<ran, body>>,
           r.is_error \/ (r.arguments = 0 /\ f.tag \in Special)
    PROVE  TypeOK' /\ IInv'
<1> USE DEF apiVars
<1>f. /\ f \in Requests /\ f.call \in Calls
      /\ Reply(f, r) \in Replies /\ Reply(f, r).call = f.call /\ Reply(f, r).result = r
      /\ tasks' = tasks \ {f} /\ tasks' \in SUBSET Requests
      /\ results' = IF f.tt = 0 THEN results ELSE results \cup {Reply(f, r)}
      /\ results' \in SUBSET Replies
      /\ UNCHANGED <<apiVars, controller, form, outcome, requests, answers>>
  BY FinishTypes
<1>o. /\ Asked(f) /\ Pending' \subseteq Pending
      /\ \A g \in Pending' : Asked(g) /\ g.call # f.call
      /\ Alone'
  BY <1>f, OthersPending
<1>1. TypeOK' BY <1>f DEF TypeOK
<1>2. Replied' \subseteq Replied \cup {Reply(f, r)} /\ (f.tt = 0 => Replied' = Replied)
  BY <1>f DEF Replied
<1>3. \A d : Ran(d)' <=> Ran(d) BY DEF Ran
<1>4. Framed'
  <2>1. ASSUME NEW g \in Pending' PROVE Asked(g)'
    <3>1. Asked(g) /\ g.call # f.call BY <1>o
    <3>2. TtOf(form[g.call])' = TtOf(form[g.call]) BY <1>f DEF TtOf, call_peer
    <3>3. \A x \in Replied' : x.call # g.call BY <1>f, <1>2, <3>1 DEF Asked
    <3>4. QED BY <1>f, <1>3, <3>1, <3>2, <3>3 DEF Asked
  <2>2. QED BY <2>1 DEF Framed
<1>5. Honest'
  <2>1. ASSUME NEW x \in Replied PROVE Backed(x)'
    BY <1>f, <1>3 DEF IInv, Honest, Backed, Spared
  <2>2. ASSUME f.tt # 0 PROVE Backed(Reply(f, r))'
    <3>1. form[f.call] \in {"value", "result", "checkrun"}
      BY <1>o, <2>2, TtIs DEF Asked, Forms
    <3>2. ~r.is_error => r.arguments = 0 /\ Spared(f.call) BY <1>o DEF Asked, Spared
    <3>3. PICK x : x = Reply(f, r) OBVIOUS
    <3>4. x.call = f.call /\ x.result = r BY <1>f, <3>3
    <3>5. outcome[f.call] # "none" BY <1>o DEF Asked, Waiting
    <3>6. Backed(x)' BY <1>f, <1>3, <3>1, <3>2, <3>4, <3>5 DEF Backed, Spared
    <3>7. Reply(f, r)' = Reply(f, r) BY DEF Reply
    <3>8. QED BY <3>3, <3>6, <3>7
  <2>3. QED
    <3>1. ASSUME NEW x \in Replied' PROVE Backed(x)'
      <4>1. CASE x \in Replied BY <2>1, <4>1
      <4>2. CASE x = Reply(f, r) /\ x \notin Replied BY <1>2, <2>2, <3>1, <4>2
      <4>3. QED BY <1>2, <3>1, <4>1, <4>2
    <3>2. QED BY <3>1 DEF Honest
<1>6. Ordered' BY <1>f, <1>3 DEF IInv, Ordered
<1>7. RunsAsDeclared' BY <1>f, <1>3 DEF IInv, RunsAsDeclared
<1>8. SuccessIsEarned' BY <1>f, <1>3 DEF IInv, SuccessIsEarned
<1>9. AnsweredRunFirst' BY <1>f DEF IInv, AnsweredRunFirst
<1>10. QED BY <1>1, <1>o, <1>4, <1>5, <1>6, <1>7, <1>8, <1>9 DEF IInv

\* A task ends when its function has run, with a reply or without.
LEMMA RanStep ==
    ASSUME TypeOK, IInv, NEW f \in tasks, NEW r \in RetResult,
           NEW b \in {"ok", "err", "unpacked", "panic"},
           ArmOf(f.tag) # 0, Accepts(Arm(f.tag), f),
           tasks' = tasks \ {f},
           UNCHANGED results \/ (f.tt # 0 /\ results' = results \cup {Reply(f, r)}),
           ran' = Append(ran, f.call), body' = [body EXCEPT ![f.call] = b],
           UNCHANGED <<apiVars, controller, form, outcome, requests, answers>>,
           ~r.is_error /\ r.arguments = 1 => b = "ok",
           ~r.is_error /\ f.tt = 1 => b = "ok"
    PROVE  TypeOK' /\ IInv'
<1> USE DEF apiVars
<1>f. /\ f \in Requests /\ f.call \in Calls
      /\ Reply(f, r) \in Replies /\ Reply(f, r).call = f.call /\ Reply(f, r).result = r
  <2>1. f \in Requests /\ f.call \in Calls BY DEF TypeOK, Requests
  <2>2. QED BY <2>1 DEF Reply, Replies
<1>o. /\ Asked(f) /\ Pending' \subseteq Pending
      /\ \A g \in Pending' : Asked(g) /\ g.call # f.call
      /\ Alone'
  BY OthersPending
<1>r. \A d : Ran(d)' <=> Ran(d) \/ d = f.call BY <1>f, RanAppend
<1>b. body'[f.call] = b /\ \A d \in Calls \ {f.call} : body'[d] = body[d]
  BY <1>f DEF TypeOK
<1>u. outcome[f.call] \in {"sent", Waiting, "timeout"} /\ form[f.call] \in Forms
      /\ f.tt = TtOf(form[f.call]) /\ f.tag = stub.tag /\ f.count = stub.args
      /\ ~Ran(f.call)
  BY <1>o DEF Asked
<1>1. TypeOK'
  <2>1. ran' \in Seq(Calls) BY <1>f, AppendProperties DEF TypeOK
  <2>2. body' \in [Calls -> {"none", "ok", "err", "unpacked", "panic"}] BY <1>f DEF TypeOK
  <2>3. tasks' \in SUBSET Requests /\ results' \in SUBSET Replies BY <1>f DEF TypeOK
  <2>4. QED BY <2>1, <2>2, <2>3 DEF TypeOK
<1>2. /\ Replied' \subseteq Replied \cup {Reply(f, r)}
      /\ f.tt = 0 => Replied' = Replied
  BY DEF Replied
<1>3. Replied \subseteq Replies /\ Pending \subseteq Requests BY InReplied
<1>4. Framed'
  <2>1. ASSUME NEW g \in Pending' PROVE Asked(g)'
    <3>1. Asked(g) /\ g.call # f.call /\ g.call \in Calls
      BY <1>o, <1>3 DEF Requests
    <3>2. TtOf(form[g.call])' = TtOf(form[g.call]) BY DEF TtOf, call_peer
    <3>3. \A x \in Replied' : x.call # g.call BY <1>f, <1>2, <3>1 DEF Asked
    <3>4. body'[g.call] = "none" /\ ~Ran(g.call)' BY <1>b, <1>r, <3>1 DEF Asked
    <3>5. QED BY <3>1, <3>2, <3>3, <3>4 DEF Asked
  <2>2. QED BY <2>1 DEF Framed
<1>5. Honest'
  <2>1. ASSUME NEW x \in Replied PROVE Backed(x)'
    <3>1. Backed(x) /\ x.call \in Calls BY <1>3 DEF IInv, Honest, Replies
    <3>2. x.call # f.call BY <1>o DEF Asked
    <3>3. QED BY <1>b, <1>r, <3>1, <3>2 DEF Backed, Spared
  <2>2. ASSUME f.tt # 0 PROVE Backed(Reply(f, r))'
    <3>1. /\ form[f.call] \in {"value", "result", "checkrun"}
          /\ form[f.call] = "checkrun" => f.tt = 1
      BY <1>u, <2>2, TtIs DEF Forms
    <3>2. PICK x : x = Reply(f, r) OBVIOUS
    <3>3. x.call = f.call /\ x.result = r BY <1>f, <3>2
    <3>4. outcome[f.call] # "none" BY <1>u DEF Waiting
    <3>5. Backed(x)' BY <1>b, <3>1, <3>3, <3>4 DEF Backed
    <3>6. Reply(f, r)' = Reply(f, r) BY DEF Reply
    <3>7. QED BY <3>2, <3>5, <3>6
  <2>3. QED
    <3>1. ASSUME NEW x \in Replied' PROVE Backed(x)'
      <4>1. CASE x \in Replied BY <2>1, <4>1
      <4>2. CASE x = Reply(f, r) /\ x \notin Replied BY <1>2, <2>2, <3>1, <4>2
      <4>3. QED BY <1>2, <3>1, <4>1, <4>2
    <3>2. QED BY <3>1 DEF Honest
<1>6. Ordered'
  <2>1. outcome[f.call] # "none" BY <1>u DEF Waiting
  <2>2. QED BY <1>b, <1>r, <2>1 DEF IInv, Ordered
<1>7. RunsAsDeclared'
  <2>1. PICK m : m = Arm(f.tag) OBVIOUS
  <2>2. m \in ToSet(trait) /\ m.tag = f.tag /\ m.ret \in {"none", "unit", "value"}
    BY <2>1, ArmIs DEF Methods
  <2>3. get_function_tt(m.ret) = f.tt /\ m.args = f.count BY <2>1, AcceptsMeans
  <2>4. m.ret = (CASE form[f.call] \in {"value", "result"} -> "value"
                   [] form[f.call] = "checkrun" -> "unit"
                   [] OTHER -> "none")
    <3>1. CASE f.tt = 2
      <4>1. form[f.call] \in {"value", "result"} BY <1>u, <3>1, TtIs
      <4>2. m.ret = "value" BY <2>2, <2>3, <3>1, FunctionTt
      <4>3. QED BY <4>1, <4>2
    <3>2. CASE f.tt = 1
      <4>1. form[f.call] = "checkrun" BY <1>u, <3>2, TtIs
      <4>2. m.ret = "unit" BY <2>2, <2>3, <3>2, FunctionTt
      <4>3. QED BY <4>1, <4>2
    <3>3. CASE f.tt = 0
      <4>1. form[f.call] \in {"run", "run_not_err"} BY <1>u, <3>3, TtIs
      <4>2. m.ret = "none" BY <2>2, <2>3, <3>3, FunctionTt
      <4>3. QED BY <4>1, <4>2
    <3>4. QED BY <1>f, <3>1, <3>2, <3>3 DEF Requests
  <2>5. ASSUME NEW d \in Calls, Ran(d)'
        PROVE  \E x \in ToSet(trait) :
                 /\ x.tag = stub.tag /\ x.args = stub.args
                 /\ x.ret = (CASE form[d] \in {"value", "result"} -> "value"
                               [] form[d] = "checkrun" -> "unit"
                               [] OTHER -> "none")
    <3>1. CASE d = f.call BY <1>u, <2>2, <2>3, <2>4, <3>1
    <3>2. CASE Ran(d) BY <3>2 DEF IInv, RunsAsDeclared
    <3>3. QED BY <1>r, <2>5, <3>1, <3>2
  <2>6. QED BY <2>5 DEF RunsAsDeclared
<1>8. SuccessIsEarned'
  <2>1. outcome[f.call] # "value" /\ outcome[f.call] # "ok" BY <1>u DEF Waiting
  <2>2. QED BY <1>b, <1>r, <2>1 DEF IInv, SuccessIsEarned
<1>9. AnsweredRunFirst'
  <2>1. PICK q \in Seq(Calls) : q = ran BY DEF TypeOK
  <2>2. PICK z \in Seq(Calls) : z = Append(q, f.call) BY <1>f, AppendProperties
  <2>3. /\ Len(z) = Len(q) + 1 /\ Len(q) \in Nat /\ z[Len(q) + 1] = f.call
        /\ \A i \in 1 .. Len(q) : z[i] = q[i] /\ q[i] \in Calls
        /\ DOMAIN z = 1 .. Len(z) /\ DOMAIN q = 1 .. Len(q)
    BY <1>f, <2>2, AppendProperties, LenProperties, ElementOfSeq
  <2>4. ran' = z BY <2>1, <2>2
  <2>5. \A i \in 1 .. Len(q) : Ran(q[i]) BY <2>1, <2>3 DEF Ran
  <2>6. \A i \in 1 .. Len(q) : q[i] # f.call /\ outcome[q[i]] # "none"
    BY <1>u, <2>3, <2>5 DEF IInv, Ordered
  <2>7. ASSUME NEW i \in DOMAIN z, NEW j \in DOMAIN z, i < j
        PROVE  z[i] # z[j] /\ (z[i] > z[j] => outcome[z[j]] \in {"sent", "timeout"})
    <3>1. i \in 1 .. Len(q) BY <2>3, <2>7
    <3>2. CASE j \in 1 .. Len(q)
      BY <2>1, <2>3, <2>7, <3>1, <3>2 DEF IInv, AnsweredRunFirst
    <3>3. CASE j = Len(q) + 1
      <4>1. z[i] = q[i] /\ q[i] \in Calls /\ z[j] = f.call BY <2>3, <3>1, <3>3
      <4>2. z[i] # z[j] BY <2>6, <3>1, <4>1
      <4>3. ASSUME z[i] > z[j] PROVE outcome[z[j]] \in {"sent", "timeout"}
        <5>1. f.call < q[i] BY <1>f, <4>1, <4>3 DEF Calls
        <5>2. outcome[f.call] \in Returned BY <1>f, <2>6, <3>1, <4>1, <5>1 DEF IInv, Ordered
        <5>3. QED BY <1>u, <4>1, <5>2 DEF Returned, Waiting
      <4>4. QED BY <4>2, <4>3
    <3>4. QED BY <2>3, <2>7, <3>2, <3>3
  <2>8. QED BY <2>4, <2>7 DEF AnsweredRunFirst
<1>10. QED BY <1>1, <1>o, <1>4, <1>5, <1>6, <1>7, <1>8, <1>9 DEF IInv

-----------------------------------------------------------------------------
(* The actions                                                             *)

LEMMA CallerStep == ASSUME TypeOK, IInv, Caller PROVE TypeOK' /\ IInv'
<1>s. stub.args \in Nat BY TraitsAssumption DEF TypeOK, Methods
<1>1. ASSUME NEW c \in Calls, NEW f \in Forms, Issue(c, f, stub.args) PROVE TypeOK' /\ IInv'
  BY <1>s, <1>1, IssueStep
<1>2. ASSUME NEW c \in Calls, NEW n \in 0 .. stub.args, Issue(c, "run_not_err", n)
      PROVE  TypeOK' /\ IInv'
  <2>1. n \in Nat /\ "run_not_err" \in Forms BY <1>s DEF Forms
  <2>2. QED BY <1>2, <2>1, IssueStep
<1>3. ASSUME NEW c \in Calls, NEW f \in Forms, IssueFails(c, f) PROVE TypeOK' /\ IInv'
  <2>1. /\ Idle(c) /\ outcome[c] = "none"
        /\ form' = [form EXCEPT ![c] = f] /\ outcome' = [outcome EXCEPT ![c] = "unsent"]
        /\ UNCHANGED <<apiVars, controller, requests, tasks, results, answers, ran, body>>
    BY <1>3 DEF IssueFails, Idle
  <2>2. TypeOK' BY <2>1 DEF TypeOK, Returned, apiVars
  <2>3. Replied' = Replied BY <2>1 DEF Replied
  <2>4. \A g \in Pending : g.call # c BY <2>1 DEF IInv, Framed, Asked, Waiting
  <2>5. PICK v : v = "unsent" OBVIOUS
  <2>6. /\ v \in Returned /\ v # "value" /\ v # "ok"
        /\ outcome[c] \in {"none", Waiting}
        /\ outcome' = [outcome EXCEPT ![c] = v] /\ form' = [form EXCEPT ![c] = f]
        /\ Replied' \subseteq Replied
        /\ \A g \in Pending : g.call = c => v = "timeout"
    BY <2>1, <2>3, <2>4, <2>5 DEF Returned
  <2>7. UNCHANGED <<apiVars, requests, tasks, ran, body>> BY <2>1
  <2>8. Returns(c, v, f) BY <2>6, <2>7 DEF Returns
  <2>9. IInv' BY <2>1, <2>6, <2>8, ReturnStep
  <2>10. QED BY <2>2, <2>9
<1>4. ASSUME NEW c \in Calls, Timeout(c) PROVE TypeOK' /\ IInv'
  <2>1. /\ outcome[c] = Waiting /\ outcome' = [outcome EXCEPT ![c] = "timeout"]
        /\ UNCHANGED <<apiVars, controller, form, requests, tasks, results, answers, ran, body>>
    BY <1>4 DEF Timeout
  <2>2. TypeOK' BY <2>1 DEF TypeOK, Returned, apiVars
  <2>3. Replied' = Replied BY <2>1 DEF Replied
  <2>4. outcome[c] # "none" BY <2>1 DEF Waiting
  <2>5. PICK g : g = form[c] OBVIOUS
  <2>6. form' = [form EXCEPT ![c] = g] BY <2>1, <2>5 DEF TypeOK
  <2>7. PICK v : v = "timeout" OBVIOUS
  <2>8. /\ v \in Returned /\ v # "value" /\ v # "ok"
        /\ outcome[c] \in {"none", Waiting}
        /\ outcome' = [outcome EXCEPT ![c] = v]
        /\ Replied' \subseteq Replied
    BY <2>1, <2>3, <2>7 DEF Returned
  <2>9. UNCHANGED <<apiVars, requests, tasks, ran, body>> BY <2>1
  <2>10. Returns(c, v, g) BY <2>6, <2>8, <2>9 DEF Returns
  <2>11. IInv' BY <2>4, <2>5, <2>7, <2>8, <2>10, ReturnStep
  <2>12. QED BY <2>2, <2>11
<1>5. QED BY <1>1, <1>2, <1>3, <1>4 DEF Caller

LEMMA ReceiveStep == ASSUME TypeOK, IInv, Receive PROVE TypeOK' /\ IInv'
<1>1. /\ answers \in Seq(Replies) /\ answers # << >> /\ answers' = Tail(answers)
      /\ UNCHANGED <<apiVars, controller, form, requests, tasks, results, ran, body>>
  BY DEF TypeOK, Receive
<1>2. PICK a : a = Head(answers) OBVIOUS
<1>3. /\ a \in Replies /\ answers' \in Seq(Replies)
      /\ ToSet(answers) = ToSet(answers') \cup {a}
  BY <1>1, <1>2, HeadTailProperties, ToSetTail
<1>4. a \in Replied /\ Replied' \subseteq Replied BY <1>1, <1>3 DEF Replied
<1>5. Backed(a) /\ a.call \in Calls /\ a.result \in RetResult
  BY <1>3, <1>4 DEF IInv, Honest, Replies
<1>6. \A g \in Pending : g.call # a.call BY <1>4 DEF IInv, Framed, Asked
<1>7. CASE outcome[a.call] = Waiting
  <2>1. PICK c \in Calls : c = a.call BY <1>5
  <2>2. PICK g : g = form[c] OBVIOUS
  <2>3. PICK v : v = Verdict(g, from(a.result)) OBVIOUS
  <2>4. outcome' = [outcome EXCEPT ![c] = v]
    BY <1>2, <1>7, <2>1, <2>2, <2>3 DEF Receive
  <2>5. /\ g \in {"value", "result", "checkrun"}
        /\ ~a.result.is_error /\ a.result.arguments = 1 => body[c] = "ok"
        /\ ~a.result.is_error /\ g = "checkrun" => body[c] = "ok" \/ Spared(c)
    BY <1>5, <2>1, <2>2 DEF Backed
  <2>6. /\ v \in {"raw", "CallError", "value", "IOError", "ok"}
        /\ v = "value" => ~a.result.is_error /\ a.result.arguments = 1
        /\ v = "ok" => ~a.result.is_error /\ g = "checkrun"
    BY <1>5, <2>3, <2>5, VerdictIs
  <2>7. v \in Returned BY <2>6 DEF Returned
  <2>8. TypeOK' BY <1>1, <1>3, <2>4, <2>7 DEF TypeOK, apiVars
  <2>9. form' = [form EXCEPT ![c] = g] BY <1>1, <2>2 DEF TypeOK
  <2>10. outcome[c] \in {"none", Waiting} /\ outcome[c] # "none" BY <1>7, <2>1 DEF Waiting
  <2>11. \A f \in Pending : f.call = c => v = "timeout" BY <1>6, <2>1
  <2>12. UNCHANGED <<apiVars, requests, tasks, ran, body>> BY <1>1
  <2>13. v = "value" => body[c] = "ok" BY <2>5, <2>6
  <2>14. v = "ok" => body[c] = "ok" \/ Spared(c) BY <2>5, <2>6
  <2>15. Returns(c, v, g) BY <2>4, <2>9, <2>12 DEF Returns
  <2>16. IInv'
    BY <1>4, <2>2, <2>7, <2>10, <2>11, <2>13, <2>14, <2>15, ReturnStep
  <2>17. QED BY <2>8, <2>16
<1>8. CASE UNCHANGED outcome
  <2>1. TypeOK' BY <1>1, <1>3, <1>8 DEF TypeOK, apiVars
  <2>2. Pending' = Pending BY <1>1 DEF Pending
  <2>3. Framed'
    <3>1. \A f \in Pending : Asked(f)'
      BY <1>1, <1>4, <1>8 DEF IInv, Framed, Asked, TtOf, call_peer, Ran, apiVars
    <3>2. QED BY <2>2, <3>1 DEF Framed
  <2>4. Honest'
    <3>1. \A r \in Replied : Backed(r)'
      BY <1>1, <1>8 DEF IInv, Honest, Backed, Spared, Ran, apiVars
    <3>2. QED BY <1>4, <3>1 DEF Honest
  <2>5. Alone' /\ Ordered' BY <1>1, <1>8 DEF IInv, Alone, Ordered, Ran
  <2>6. RunsAsDeclared' /\ SuccessIsEarned' /\ AnsweredRunFirst'
    BY <1>1, <1>8 DEF IInv, RunsAsDeclared, SuccessIsEarned, AnsweredRunFirst, Ran, apiVars
  <2>7. QED BY <2>1, <2>3, <2>4, <2>5, <2>6 DEF IInv
<1>9. QED BY <1>2, <1>7, <1>8 DEF Receive

LEMMA SpawnStep == ASSUME TypeOK, IInv, Spawn PROVE TypeOK' /\ IInv'
<1>1. /\ requests \in Seq(Requests) /\ requests # << >> /\ requests' = Tail(requests)
      /\ UNCHANGED <<apiVars, controller, form, outcome, results, answers, ran, body>>
  BY DEF TypeOK, Spawn
<1>2. PICK f : f = Head(requests) OBVIOUS
<1>3. tasks' = tasks \cup {f} BY <1>2 DEF Spawn
<1>4. /\ f \in Requests /\ requests' \in Seq(Requests)
      /\ ToSet(requests) = ToSet(requests') \cup {f}
  BY <1>1, <1>2, HeadTailProperties, ToSetTail
<1>5. Pending' = Pending /\ Replied' = Replied
  BY <1>1, <1>3, <1>4 DEF Pending, Replied
<1>6. TypeOK' BY <1>1, <1>3, <1>4 DEF TypeOK, apiVars
<1>7. Alone'
  <2>1. Apart(requests') /\ \A g \in ToSet(requests') : g.call # f.call
    BY <1>1, <1>2, ApartTail DEF IInv, Alone
  <2>2. \A g \in ToSet(requests'), h \in tasks' : g.call # h.call
    BY <1>3, <1>4, <2>1 DEF IInv, Alone
  <2>3. \A g, h \in tasks' : g.call = h.call => g = h
    BY <1>3, <1>4 DEF IInv, Alone
  <2>4. QED BY <2>1, <2>2, <2>3 DEF Alone, Apart
<1>8. QED BY <1>1, <1>5, <1>6, <1>7, PassStep

LEMMA SendStep == ASSUME TypeOK, IInv, NEW r \in results, Answer(r) PROVE TypeOK' /\ IInv'
<1>1. /\ results' = results \ {r} /\ answers' = Append(answers, r)
      /\ UNCHANGED <<apiVars, controller, form, outcome, requests, tasks, ran, body>>
  BY DEF Answer
<1>2. r \in Replies /\ answers \in Seq(Replies) BY DEF TypeOK
<1>3. answers' \in Seq(Replies) /\ ToSet(answers') = ToSet(answers) \cup {r}
  BY <1>1, <1>2, AppendProperties, ToSetAppend
<1>4. Pending' = Pending /\ Replied' = Replied BY <1>1, <1>3 DEF Pending, Replied
<1>5. TypeOK' BY <1>1, <1>2, <1>3 DEF TypeOK, apiVars
<1>6. Alone' BY <1>1 DEF IInv, Alone, Apart
<1>7. QED BY <1>1, <1>4, <1>5, <1>6, PassStep

LEMMA ClearStep == ASSUME TypeOK, IInv, Clear PROVE TypeOK' /\ IInv'
<1>1. /\ controller' = FALSE
      /\ UNCHANGED <<apiVars, form, outcome, requests, tasks, results, answers, ran, body>>
  BY DEF Clear
<1>2. TypeOK' BY <1>1 DEF TypeOK, apiVars
<1>3. Pending' = Pending /\ Replied' = Replied BY <1>1 DEF Pending, Replied
<1>4. Alone' BY <1>1 DEF IInv, Alone, Apart
<1>5. QED BY <1>1, <1>2, <1>3, <1>4, PassStep

LEMMA TaskStep == ASSUME TypeOK, IInv, Task PROVE TypeOK' /\ IInv'
<1>1. PICK f \in tasks : NoController(f) \/ NoFunction(f) \/ Rejects(f) \/ Runs(f) \/ Panics(f)
  BY DEF Task
<1>f. f \in Requests /\ f.tt \in 0 .. 2 BY DEF TypeOK, Requests
<1>2. CASE NoController(f) \/ Rejects(f)
  <2>1. Finish(f, execute_controller) /\ UNCHANGED <<ran, body>>
    BY <1>2 DEF NoController, Rejects
  <2>2. QED BY <2>1, DeclineStep, ResultTypes
<1>3. CASE NoFunction(f)
  <2>1. PICK r : r = (IF f.tag \in Special THEN success ELSE execute_controller) OBVIOUS
  <2>2. Finish(f, r) /\ UNCHANGED <<ran, body>> BY <1>3, <2>1 DEF NoFunction
  <2>3. r \in RetResult /\ (r.is_error \/ (r.arguments = 0 /\ f.tag \in Special))
    BY <2>1, ResultTypes
  <2>4. QED BY <2>2, <2>3, DeclineStep
<1>4. CASE Runs(f)
  <2>1. ArmOf(f.tag) # 0 /\ Accepts(Arm(f.tag), f) /\ ran' = Append(ran, f.call)
    BY <1>4 DEF Runs
  <2>2. PICK m : m = Arm(f.tag) OBVIOUS
  <2>3. m.ret \in {"none", "unit", "value"} /\ get_function_tt(m.ret) = f.tt
    BY <2>1, <2>2, ArmIs, AcceptsMeans DEF Methods
  <2>4. PICK b \in Ends(m.ret) :
           /\ body' = [body EXCEPT ![f.call] = b]
           /\ Finish(f, IF b = "err" THEN execute_controller
                        ELSE IF f.tt = 2 THEN add_arg_buff(success, b) ELSE success)
    BY <1>4, <2>2 DEF Runs
  <2>5. PICK r : r = (IF b = "err" THEN execute_controller
                      ELSE IF f.tt = 2 THEN add_arg_buff(success, b) ELSE success)
    OBVIOUS
  <2>6. b \in {"ok", "err", "unpacked"} /\ (f.tt = 1 => b \in {"ok", "err"})
    BY <2>3, <2>4, FunctionTt
  <2>7. /\ r \in RetResult
        /\ ~r.is_error /\ r.arguments = 1 => b = "ok"
        /\ b = "err" => r.is_error
    BY <2>5, ResultTypes
  <2>8. ~r.is_error /\ f.tt = 1 => b = "ok" BY <2>6, <2>7
  <2>9. Finish(f, r) BY <2>4, <2>5
  <2>10. /\ tasks' = tasks \ {f}
         /\ results' = IF f.tt = 0 THEN results ELSE results \cup {Reply(f, r)}
         /\ UNCHANGED <<apiVars, controller, form, outcome, requests, answers>>
    BY <2>7, <2>9, FinishTypes
  <2>11. UNCHANGED results \/ (f.tt # 0 /\ results' = results \cup {Reply(f, r)}) BY <2>10
  <2>12. body' = [body EXCEPT ![f.call] = b] BY <2>4
  <2>13. b \in {"ok", "err", "unpacked", "panic"} BY <2>6
  <2>14. QED BY <2>1, <2>7, <2>8, <2>10, <2>11, <2>12, <2>13, RanStep
<1>5. CASE Panics(f)
  <2>1. /\ ArmOf(f.tag) # 0 /\ Accepts(Arm(f.tag), f) /\ tasks' = tasks \ {f}
        /\ ran' = Append(ran, f.call) /\ body' = [body EXCEPT ![f.call] = "panic"]
        /\ UNCHANGED results
        /\ UNCHANGED <<apiVars, controller, form, outcome, requests, answers>>
    BY <1>5 DEF Panics
  <2>2. execute_controller \in RetResult /\ execute_controller.is_error BY ResultTypes
  <2>3. PICK r \in RetResult : r.is_error BY <2>2
  <2>4. QED BY <2>1, <2>3, RanStep
<1>6. QED BY <1>1, <1>2, <1>3, <1>4, <1>5

-----------------------------------------------------------------------------
(* The theorems                                                            *)

LEMMA InitInv == Init => TypeOK /\ IInv
<1> SUFFICES ASSUME Init PROVE TypeOK /\ IInv
  OBVIOUS
<1>1. /\ requests \in Seq(Requests) /\ answers \in Seq(Replies) /\ ran \in Seq(Calls)
  <2>1. << >> \in Seq(Requests) /\ << >> \in Seq(Replies) /\ << >> \in Seq(Calls)
    BY EmptySeq
  <2>2. QED BY <2>1 DEF Init
<1>2. DOMAIN ran = {} /\ Len(requests) = 0 /\ Pending = {} /\ Replied = {}
  BY EmptySeq DEF Init, Pending, Replied, ToSet
<1>3. TypeOK BY <1>1 DEF Init, TypeOK
<1>4. Framed /\ Honest BY <1>2 DEF Framed, Honest
<1>5. Alone BY <1>2 DEF Init, Alone, Apart, Pending
<1>6. Ordered /\ RunsAsDeclared /\ SuccessIsEarned /\ AnsweredRunFirst
  BY <1>2 DEF Init, Ordered, RunsAsDeclared, SuccessIsEarned, AnsweredRunFirst, Ran
<1>7. QED BY <1>3, <1>4, <1>5, <1>6 DEF IInv

LEMMA NextInv == TypeOK /\ IInv /\ [Next]_vars => TypeOK' /\ IInv'
<1> SUFFICES ASSUME TypeOK, IInv, [Next]_vars PROVE TypeOK' /\ IInv'
  OBVIOUS
<1>1. CASE UNCHANGED vars
  <2>1. TypeOK' BY <1>1 DEF vars, apiVars, TypeOK
  <2>2. Pending' = Pending /\ Replied' = Replied BY <1>1 DEF vars, Pending, Replied
  <2>3. Alone' BY <1>1 DEF vars, IInv, Alone, Apart
  <2>4. UNCHANGED <<apiVars, form, outcome, ran, body>> BY <1>1 DEF vars
  <2>5. QED BY <2>1, <2>2, <2>3, <2>4, PassStep
<1>2. CASE Next
  BY <1>2, CallerStep, ReceiveStep, SpawnStep, TaskStep, SendStep, ClearStep DEF Next, Send
<1>3. QED BY <1>1, <1>2

LEMMA Invariant == Spec => [](TypeOK /\ IInv)
BY InitInv, NextInv, PTL DEF Spec

\* Every value of the state has its type.
THEOREM TypeCorrect == Spec => []TypeOK
BY Invariant, PTL

\* Whatever the traits of the two sides, a function runs for a call only if they agree on
\* its tag, on its number of arguments and on what it returns.
THEOREM Agreement == Spec => []RunsAsDeclared
BY Invariant, PTL DEF IInv

\* A call returns a success only if its function ran to a good end, or has a special tag
\* for which the callee has no function.
THEOREM EarnedSuccess == Spec => []SuccessIsEarned
BY Invariant, PTL DEF IInv

\* No function runs twice for a call, and none overtakes a call whose answer the caller
\* has waited for.
THEOREM RunOrder == Spec => []AnsweredRunFirst
BY Invariant, PTL DEF IInv
=============================================================================
