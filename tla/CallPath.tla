------------------------------ MODULE CallPath ------------------------------
(***************************************************************************)
(* A remote call from the caller's interface to the callee's function and *)
(* back: the code netx_builder generates for both sides, the call! and    *)
(* call_peer! macros, the dispatch of frame 2400, and RetResult on the    *)
(* wire.  Either side may be the callee; they differ in little.           *)
(*                                                                         *)
(* The two sides are compiled from traits of their own, which may differ: *)
(* the caller uses one method (its stub), the callee has a list of them.  *)
(* A method is its tag, what it returns and how many arguments it takes;  *)
(* values and argument types are left out.  One task makes the calls, in  *)
(* order, over one connection that stays; each request runs in a task of  *)
(* its own.  The serials and the timeouts' queue are in ClientCalls and   *)
(* TokenCalls: here a call is its own serial, and may time out.           *)
(***************************************************************************)
EXTENDS Integers, SequencesExt

CONSTANTS
    MaxCalls,  (* bound: calls made in a behaviour                 *)
    Stubs,     (* the methods the caller may have been built with  *)
    Traits     (* the traits the callee may have been built from   *)

ASSUME MaxCallsAssumption == MaxCalls \in Nat

Methods == [tag : STRING, ret : {"none", "unit", "value"}, args : Nat]

ASSUME TraitsAssumption == Stubs \subseteq Methods /\ Traits \subseteq Seq(Methods)

VARIABLES
    callee,    \* "client" or "server"
    stub,      \* the caller's method
    trait,     \* the callee's methods, in order
    controller, \* whether the callee has its controller
    form,      \* which form of the macro each call uses
    outcome,   \* what each call has returned
    requests,  \* frames 2400 under way
    tasks,     \* requests spawned
    results,   \* what each task is about to answer
    answers,   \* frames 2500 under way
    ran,       \* the calls whose function has run, in order
    body       \* what became of the function of each call

apiVars == <<callee, stub, trait>>
vars == <<apiVars, controller, form, outcome, requests, tasks, results, answers, ran, body>>

Calls   == 1 .. MaxCalls
Special == {"connect", "disconnect", "closed"}
Forms   == {"value", "result", "run", "run_not_err", "checkrun"}

\* A frame carries the number of arguments and the arguments that could be packed.
Requests == [call : Calls, tt : 0 .. 2, tag : STRING, count : Nat, packed : Nat]
RetResult == [is_error : BOOLEAN, error_id : {-1, 0, 1}, arguments : 0 .. 1]
Replies  == [call : Calls, result : RetResult]
Waiting  == "waiting"
Returned == {"sent", "unsent", "value", "ok", "raw", "CallError", "IOError", "timeout"}

TypeOK ==
    /\ callee \in {"client", "server"}
    /\ stub \in Stubs /\ trait \in Traits
    /\ controller \in BOOLEAN
    /\ form \in [Calls -> Forms \cup {"none"}]
    /\ outcome \in [Calls -> Returned \cup {"none", Waiting}]
    /\ requests \in Seq(Requests) /\ tasks \in SUBSET Requests
    /\ results \in SUBSET Replies /\ answers \in Seq(Replies)
    /\ ran \in Seq(Calls)
    /\ body \in [Calls -> {"none", "ok", "err", "unpacked", "panic"}]

Init ==
    /\ callee \in {"client", "server"}
    /\ stub \in Stubs /\ trait \in Traits
    /\ controller \in {TRUE, callee = "server"}
    /\ form = [c \in Calls |-> "none"] /\ outcome = [c \in Calls |-> "none"]
    /\ requests = << >> /\ tasks = {} /\ results = {} /\ answers = << >>
    /\ ran = << >>
    /\ body = [c \in Calls |-> "none"]

-----------------------------------------------------------------------------
(* netx_builder                                                            *)

have_tag(m) == m.tag # "untagged"

get_function_tt(ret) == [none |-> 0, unit |-> 1, value |-> 2][ret]

\* The methods that have a tag, by their places in the trait.
get_funcs_info(t) == {i \in DOMAIN t : have_tag(t[i])}

get_impl_func_client(m) == [none |-> "run_not_err", unit |-> "checkrun", value |-> "value"][m.ret]

get_impl_func_server(m) == get_impl_func_client(m)

FormOf(m) == IF callee = "server" THEN get_impl_func_client(m) ELSE get_impl_func_server(m)

\* The type the macros write for each form; call_peer! writes the same.
call(f) == CASE f \in {"value", "result"} -> 2
             [] f \in {"run", "run_not_err"} -> 0
             [] f = "checkrun" -> 1

call_peer(f) == call(f)

TtOf(f) == IF callee = "server" THEN call(f) ELSE call_peer(f)

\* The arms of the generated match, in the order of the methods: the first one counts;
\* 0 for none.
ArmOf(tag) ==
    LET arms == {i \in get_funcs_info(trait) : trait[i].tag = tag}
    IN  IF arms = {} THEN 0 ELSE Min(arms)

Arm(tag) == trait[ArmOf(tag)]

\* Mutant: the number of arguments is not compared.
build_client_accepts_any(m, f) == get_function_tt(m.ret) = f.tt

\* What an arm checks before it calls the function, in either macro.
build_client_accepts(m, f) ==
    /\ get_function_tt(m.ret) = f.tt
    /\ m.args = f.count
    /\ f.packed >= m.args

build_server_accepts(m, f) == build_client_accepts(m, f)

Accepts(m, f) == IF callee = "client" THEN build_client_accepts(m, f) ELSE build_server_accepts(m, f)

-----------------------------------------------------------------------------
(* RetResult                                                               *)

success == [is_error |-> FALSE, error_id |-> 0, arguments |-> 0]

error(id) == [is_error |-> TRUE, error_id |-> id, arguments |-> 0]

\* execute_controller turns an Err into an error result, with an id of its side.
execute_controller == error(IF callee = "server" THEN -1 ELSE 1)

\* A value that cannot be packed is logged and left out.
add_arg_buff(r, b) == [r EXCEPT !.arguments = IF b = "ok" THEN 1 ELSE 0]

\* What a result looks like once it has been through get_result_buff and from: an
\* error loses its arguments, a success its id.
from(r) == IF r.is_error THEN error(r.error_id) ELSE [success EXCEPT !.arguments = r.arguments]

\* Mutant: an error result is a result.
check_not(r) == TRUE

check(r) == ~r.is_error

\* What each form makes of the answer.
deserialize(r) == IF r.arguments = 0 THEN "IOError" ELSE "value"

Verdict(f, r) ==
    CASE f = "result" -> "raw"
      [] f # "result" /\ ~check(r) -> "CallError"
      [] f = "value" /\ check(r) -> deserialize(r)
      [] f = "checkrun" /\ check(r) -> "ok"

-----------------------------------------------------------------------------
(* The caller                                                              *)

\* Mutant: the caller does not wait.
Idle_hasty(c) == outcome[c] = "none" /\ \A d \in Calls : d < c => outcome[d] # "none"

Idle(c) == outcome[c] = "none" /\ \A d \in Calls : d < c => outcome[d] \in Returned

\* The interface uses its own form; result and run are used by hand.
Issue(c, f, packed) ==
    /\ Idle(c)
    /\ form' = [form EXCEPT ![c] = f]
    /\ outcome' = [outcome EXCEPT ![c] = IF TtOf(f) = 0 THEN "sent" ELSE Waiting]
    /\ requests' = Append(requests, [call |-> c, tt |-> TtOf(f), tag |-> stub.tag,
                                     count |-> stub.args, packed |-> packed])
    /\ UNCHANGED <<apiVars, controller, tasks, results, answers, ran, body>>

\* An argument cannot be packed: every form but run_not_err returns the error.
IssueFails(c, f) ==
    /\ Idle(c) /\ f # "run_not_err"
    /\ stub.args > 0
    /\ form' = [form EXCEPT ![c] = f]
    /\ outcome' = [outcome EXCEPT ![c] = "unsent"]
    /\ UNCHANGED <<apiVars, controller, requests, tasks, results, answers, ran, body>>

\* set_result, then RetResult::from in the caller; an answer nobody waits for is logged.
Receive ==
    /\ answers # << >>
    /\ answers' = Tail(answers)
    /\ LET a == Head(answers) IN
          \/ /\ outcome[a.call] = Waiting
             /\ outcome' = [outcome EXCEPT ![a.call] = Verdict(form[a.call], from(a.result))]
          \/ /\ outcome[a.call] # Waiting
             /\ UNCHANGED outcome
    /\ UNCHANGED <<apiVars, controller, form, requests, tasks, results, ran, body>>

Timeout(c) ==
    /\ outcome[c] = Waiting
    /\ outcome' = [outcome EXCEPT ![c] = "timeout"]
    /\ UNCHANGED <<apiVars, controller, form, requests, tasks, results, answers, ran, body>>

-----------------------------------------------------------------------------
(* The callee: frame 2400 in data_reading and read_buffer                 *)

Spawn ==
    /\ requests # << >>
    /\ requests' = Tail(requests)
    /\ tasks' = tasks \cup {Head(requests)}
    /\ UNCHANGED <<apiVars, controller, form, outcome, results, answers, ran, body>>

\* Mutant: only a request of type 2 is answered.
Finish_values(f, r) ==
    /\ tasks' = tasks \ {f}
    /\ results' = IF f.tt # 2 THEN results ELSE results \cup {[call |-> f.call, result |-> r]}
    /\ UNCHANGED <<apiVars, controller, form, outcome, requests, answers>>

\* A task ends; a request of type 0 is not answered.
Finish(f, r) ==
    /\ tasks' = tasks \ {f}
    /\ results' = IF f.tt = 0 THEN results ELSE results \cup {[call |-> f.call, result |-> r]}
    /\ UNCHANGED <<apiVars, controller, form, outcome, requests, answers>>

\* clear_controller_fun_maps, or close.  A function that is running then goes on with a
\* controller that is dropped, which is undefined: here it ends as usual or panics.
Clear ==
    /\ controller
    /\ controller' = FALSE
    /\ UNCHANGED <<apiVars, form, outcome, requests, tasks, results, answers, ran, body>>

NoController(f) ==
    /\ ~controller
    /\ Finish(f, execute_controller)
    /\ UNCHANGED <<ran, body>>

\* No function has the tag: the special ones are taken to succeed.
NoFunction(f) ==
    /\ controller /\ ArmOf(f.tag) = 0
    /\ Finish(f, IF f.tag \in Special THEN success ELSE execute_controller)
    /\ UNCHANGED <<ran, body>>

Rejects(f) ==
    /\ controller /\ ArmOf(f.tag) # 0 /\ ~Accepts(Arm(f.tag), f)
    /\ Finish(f, execute_controller)
    /\ UNCHANGED <<ran, body>>

\* How a function of type tt may end, but for a panic.
Ends(tt) == [none |-> {"ok"}, unit |-> {"ok", "err"}, value |-> {"ok", "err", "unpacked"}][tt]

Runs(f) ==
    /\ controller /\ ArmOf(f.tag) # 0 /\ Accepts(Arm(f.tag), f)
    /\ ran' = Append(ran, f.call)
    /\ \E b \in Ends(Arm(f.tag).ret) :
          /\ body' = [body EXCEPT ![f.call] = b]
          /\ Finish(f, IF b = "err" THEN execute_controller
                       ELSE IF f.tt = 2 THEN add_arg_buff(success, b) ELSE success)

\* The function panics, and its task with it: there is no answer.
Panics(f) ==
    /\ controller /\ ArmOf(f.tag) # 0 /\ Accepts(Arm(f.tag), f)
    /\ ran' = Append(ran, f.call)
    /\ body' = [body EXCEPT ![f.call] = "panic"]
    /\ tasks' = tasks \ {f}
    /\ UNCHANGED <<apiVars, controller, form, outcome, requests, results, answers>>

\* get_result_buff and send.
Answer(r) ==
    /\ results' = results \ {r}
    /\ answers' = Append(answers, r)
    /\ UNCHANGED <<apiVars, controller, form, outcome, requests, tasks, ran, body>>

-----------------------------------------------------------------------------
MayUse(f) == f \in {FormOf(stub), "result", "run"}

Caller ==
    \/ \E c \in Calls, f \in Forms : MayUse(f) /\ Issue(c, f, stub.args)
    \/ \E c \in Calls, n \in 0 .. stub.args : FormOf(stub) = "run_not_err" /\ Issue(c, "run_not_err", n)
    \/ \E c \in Calls, f \in Forms : MayUse(f) /\ IssueFails(c, f)
    \/ \E c \in Calls : Timeout(c)
Task == \E f \in tasks : NoController(f) \/ NoFunction(f) \/ Rejects(f) \/ Runs(f) \/ Panics(f)
Send == \E r \in results : Answer(r)

Next == Caller \/ Receive \/ Spawn \/ Task \/ Send \/ Clear

\* Tasks are scheduled, the connection delivers.  Nothing times out of necessity.
Fairness == WF_vars(Receive) /\ WF_vars(Spawn) /\ WF_vars(Task) /\ WF_vars(Send)

Spec     == Init /\ [][Next]_vars
FairSpec == Spec /\ Fairness
-----------------------------------------------------------------------------
(* Safety                                                                  *)

Ran(c) == \E i \in DOMAIN ran : ran[i] = c

\* A function runs for a call only if the two sides agree on it: the number of
\* arguments, and what it returns as far as the form of the call shows.
RunsAsDeclared ==
    \A c \in Calls : Ran(c) =>
        \E m \in ToSet(trait) :
            /\ m.tag = stub.tag /\ m.args = stub.args
            /\ m.ret = (CASE form[c] \in {"value", "result"} -> "value"
                          [] form[c] = "checkrun" -> "unit"
                          [] OTHER -> "none")

\* A call returns a success only if its function ran to a good end; a special tag
\* without a function is the one exception.
SuccessIsEarned ==
    \A c \in Calls :
        /\ outcome[c] = "value" => body[c] = "ok"
        /\ outcome[c] = "ok" => body[c] = "ok" \/ (stub.tag \in Special /\ ~Ran(c))

\* Requests run in tasks of their own and overtake each other, but none runs twice and
\* none overtakes a call whose answer the caller waited for.
AnsweredRunFirst ==
    \A p, q \in DOMAIN ran :
        p < q => /\ ran[p] # ran[q]
                 /\ ran[p] > ran[q] => outcome[ran[q]] \in {"sent", "timeout"}

(* Liveness                                                                *)

\* Every call that waits is answered, with an error where the callee has no such
\* function, unless its function panics: no path of the dispatch forgets the answer.
WaitIsAnswered ==
    \A c \in Calls : outcome[c] = Waiting ~> outcome[c] # Waiting \/ body[c] = "panic"
=============================================================================
