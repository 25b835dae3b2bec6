------------------------------ MODULE RpcProvider ------------------------------
(***************************************************************************)
(* RpcProvider (include/rpc_provider.hpp): functions registered under a    *)
(* name, with the names and types of their parameters; calls that give     *)
(* JSON arguments by name and wait for the function with a timeout.        *)
(*                                                                         *)
(* A call runs in its caller's frame, where ordered_args and the future    *)
(* live.  The function runs as a task of std::async that refers to         *)
(* ordered_args and to the map entry.  A function stands for what it is    *)
(* given: its value is the sequence of its arguments.  Time is left out: a *)
(* wait may end at any moment while the function runs, so that set_timeout *)
(* has nothing to change here.                                             *)
(*                                                                         *)
(* Numbers that need not be whole are counted in units, 1/Unit each, so    *)
(* that a float or a double is an integer number of units.  A float and a  *)
(* double have finitely many values: what they do not have is rounded, and *)
(* an int takes no fraction.  NaN and infinite arguments, which JSON text  *)
(* cannot hold, are left out.                                              *)
(***************************************************************************)
EXTENDS Integers, Sequences

CONSTANTS Calls,       \* the calls
          Names,       \* names of functions
          Signatures,  \* what is registered: [ret, params], params a sequence
                       \* of [name, type]
          Requests,    \* what calls ask for: [name, ret, args], args a record of
                       \* JSON values [kind, value] by parameter name
          IntHalf,     \* half the number of values of int and of long:
          LongHalf,    \* 2^31 and 2^63
          Unit,        \* units in one: 2^1074 makes every double whole
          FloatValues, \* the finite values of float and of double,
          DoubleValues, \* in units
          FloatInfinity, \* 2^128, where the floats end, in units
          None         \* "not registered", "no request"

Numeric == {"integer", "float", "boolean"}

\* A whole number for the JSON kinds integer and boolean, units for a double.
IsNumber(json) == /\ json.kind \in {"integer", "boolean"} => json.value \in Int
                  /\ json.kind = "float" => json.value \in DoubleValues

ASSUME ProviderAssumption == /\ IntHalf \in Nat \ {0} /\ LongHalf \in Nat \ {0}
                             /\ None \notin Signatures \cup Requests
                             /\ \A s \in Signatures : Len(s.params) \in Nat
                             /\ \A r \in Requests : r.name \in Names
                             /\ Unit \in Nat \ {0}
                             /\ FloatValues \subseteq Int /\ 0 \in FloatValues
                             /\ DoubleValues \subseteq Int /\ 0 \in DoubleValues
                             /\ FloatInfinity \in Nat
                             /\ \A v \in FloatValues : -FloatInfinity < v /\ v < FloatInfinity
                             /\ \A r \in Requests : \A a \in DOMAIN r.args :
                                  LET json == r.args[a]
                                  IN IF json.kind = "array"
                                     THEN /\ Len(json.value) \in Nat
                                          /\ \A i \in 1 .. Len(json.value) : IsNumber(json.value[i])
                                     ELSE IsNumber(json)

VARIABLES
  functions,   \* functions[n]: the signature under name n, or None
  pc,          \* pc[k]: where call k stands in call_function_named
  request,     \* request[k]: its name, return type and arguments
  found,       \* found[k]: the entry it found (kept for the properties)
  orderedArgs, \* orderedArgs[k]: ordered_args in its frame
  task,        \* task[k]: "none", "running", and then how the function ended
  value,       \* value[k]: what the function returned
  outcome      \* outcome[k]: "none", "value", "threw", an RpcException's type, ...

callVars == <<pc, request, found, orderedArgs, outcome>>
taskVars == <<task, value>>
vars == <<functions, callVars, taskVars>>

Init == /\ functions = [n \in Names |-> None]
        /\ pc = [k \in Calls |-> "idle"] /\ request = [k \in Calls |-> None]
        /\ found = [k \in Calls |-> None] /\ orderedArgs = [k \in Calls |-> << >>]
        /\ task = [k \in Calls |-> "none"] /\ value = [k \in Calls |-> << >>]
        /\ outcome = [k \in Calls |-> "none"]

-------------------------------------------------------------------------------
(* convert_json_to_any.                                                    *)

Kinds(type) == CASE type = "int" -> Numeric
                 [] type \in {"long", "double"} -> {"integer", "float"}
                 [] type = "float" -> Numeric
                 [] type = "bool" -> {"boolean"}
                 [] type = "string" -> {"string"}
                 [] OTHER -> {}

Half(type) == IF type = "int" THEN IntHalf ELSE LongHalf
WidthRange(half) == -half .. half - 1

\* Seeded fault: a number is passed on as it is, whatever its type.
AsItIs(n, half) == n

Narrow(n, half) == CHOOSE m \in WidthRange(half) : (n - m) % (2 * half) = 0

\* The number that was sent, in units.
Sent(json) == IF json.kind = "float" THEN json.value ELSE json.value * Unit

\* static_cast to an integer drops the fraction.
Cut(u) == IF u >= 0 THEN u \div Unit ELSE -((-u) \div Unit)

\* The integers a JSON number may become: a double beyond their range is undefined.
Integral(json, half) ==
    IF json.kind # "float" THEN {Narrow(json.value, half)}
    ELSE IF Cut(json.value) \in WidthRange(half) THEN {Cut(json.value)}
    ELSE WidthRange(half)

\* static_cast to float or double takes a nearest value; a tie is left open.
Distance(u, v) == IF u <= v THEN v - u ELSE u - v
Nearest(S, u) == {v \in S : \A w \in S : Distance(u, v) <= Distance(u, w)}

Floats == FloatValues \cup {-FloatInfinity, FloatInfinity}

\* What a JSON value may become, numbers in units; a boolean is 0 or 1.
Scalar(type, json) ==
    CASE json.kind \notin Kinds(type) -> {}
      [] json.kind \in Kinds(type) /\ type \in {"int", "long"} ->
           {n * Unit : n \in Integral(json, Half(type))}
      [] json.kind \in Kinds(type) /\ type = "float" -> Nearest(Floats, Sent(json))
      [] json.kind \in Kinds(type) /\ type = "double" -> Nearest(DoubleValues, Sent(json))
      [] OTHER -> {json.value}

Vector(type, json) ==
    IF json.kind # "array" THEN {}
    ELSE LET elements == [i \in 1 .. Len(json.value) |-> Scalar(type, json.value[i])]
         IN {v \in [1 .. Len(json.value) -> UNION {elements[i] : i \in 1 .. Len(json.value)}] :
               \A i \in 1 .. Len(json.value) : v[i] \in elements[i]}

Converted(type, json) == CASE type = "vector<int>" -> Vector("int", json)
                           [] type = "vector<string>" -> Vector("string", json)
                           [] OTHER -> Scalar(type, json)

-------------------------------------------------------------------------------
(* register_function.  The map has no lock: an application registers where *)
(* no call uses the map, as in the body of a function whose caller waits,  *)
(* and not the entry of a call under way.  A registration with another     *)
(* number of names than parameters throws before anything has changed, and *)
(* is left out: a signature has one name for each type.                    *)

Reading(k) == pc[k] \in {"lookup", "convert"}
InCall(k) == pc[k] \in {"lookup", "convert", "wait", "unwind"}

Register(n, signature) ==
    /\ \A k \in Calls : ~Reading(k) /\ (InCall(k) => request[k].name # n)
    /\ functions' = [functions EXCEPT ![n] = signature]
    /\ UNCHANGED <<callVars, taskVars>>

-------------------------------------------------------------------------------
(* call_function_named.                                                    *)

Goto(k, from, to) == pc[k] = from /\ pc' = [pc EXCEPT ![k] = to]

\* The end of a call: its frame goes, and ordered_args with it.
Return(k, from, how) == /\ Goto(k, from, "done")
                        /\ outcome' = [outcome EXCEPT ![k] = how]
                        /\ orderedArgs' = [orderedArgs EXCEPT ![k] = << >>]

Begin(k) == /\ Goto(k, "idle", "lookup")
            /\ \E r \in Requests : request' = [request EXCEPT ![k] = r]
            /\ UNCHANGED <<functions, found, orderedArgs, outcome, taskVars>>

Info(k) == functions[request[k].name]        \* it->second, by reference

Lookup(k) ==
    /\ pc[k] = "lookup"
    /\ found' = [found EXCEPT ![k] = Info(k)]
    /\ \/ Info(k) = None /\ Return(k, "lookup", "FUNCTION_NOT_FOUND")
       \/ /\ Info(k) # None /\ Info(k).ret # request[k].ret
          /\ Return(k, "lookup", "TYPE_MISMATCH")
       \/ /\ Info(k) # None /\ Info(k).ret = request[k].ret
          /\ Goto(k, "lookup", "convert") /\ UNCHANGED <<orderedArgs, outcome>>
    /\ UNCHANGED <<functions, request, taskVars>>

\* Seeded fault: the arguments are put in front of those already converted.
Prepended(args, v) == <<v>> \o args

Appended(args, v) == Append(args, v)

\* Seeded fault: the last parameter is left out.
AllButOne(k) == Len(orderedArgs[k]) + 1 < Len(Info(k).params)

NextParam(k) == Info(k).params[Len(orderedArgs[k]) + 1]
ParamsLeft(k) == Len(orderedArgs[k]) < Len(Info(k).params)

\* One turn of the loop over the registered parameters; arguments that no
\* parameter names are not looked at.
Convert(k) ==
    /\ pc[k] = "convert" /\ ParamsLeft(k)
    /\ LET p == NextParam(k)
           given == p.name \in DOMAIN request[k].args
           converted == Converted(p.type, request[k].args[p.name])
       IN \/ ~given /\ Return(k, "convert", "ARGUMENT_ERROR")
          \/ given /\ converted = {} /\ Return(k, "convert", "TYPE_MISMATCH")
          \/ /\ given
             /\ \E v \in converted :
                  orderedArgs' = [orderedArgs EXCEPT ![k] = Appended(@, v)]
             /\ UNCHANGED <<pc, outcome>>
    /\ UNCHANGED <<functions, request, found, taskVars>>

\* std::async with std::launch::async; it may throw for want of a thread.
Launch(k) ==
    /\ pc[k] = "convert" /\ ~ParamsLeft(k)
    /\ \/ /\ Goto(k, "convert", "wait") /\ task' = [task EXCEPT ![k] = "running"]
          /\ UNCHANGED <<orderedArgs, outcome>>
       \/ Return(k, "convert", "system_error") /\ UNCHANGED task
    /\ UNCHANGED <<functions, request, found, value>>

\* Seeded fault: the call does not wait for the task.
NotAwaited(k) == TRUE

\* Seeded fault: a function that throws does not make the future ready.
EndedWithValue(k) == task[k] = "value"

TaskEnded(k) == task[k] # "running"

\* future.get(): the value, or what the function threw; bad_any_cast is caught.
GetResult(k) ==
    /\ TaskEnded(k)
    /\ \/ task[k] = "value" /\ Return(k, "wait", "value")
       \/ task[k] = "threw" /\ Return(k, "wait", "threw")
       \/ task[k] = "bad_any_cast" /\ Return(k, "wait", "TYPE_MISMATCH")
    /\ UNCHANGED <<functions, request, found, taskVars>>

\* wait_for times out: TIMEOUT_ERROR is thrown, and the unwinding destroys the
\* future, whose destructor waits for the task.
Timeout(k) == /\ task[k] = "running" /\ Goto(k, "wait", "unwind")
              /\ UNCHANGED <<functions, request, found, orderedArgs, outcome, taskVars>>

Unwind(k) == /\ TaskEnded(k) /\ Return(k, "unwind", "TIMEOUT_ERROR")
             /\ UNCHANGED <<functions, request, found, taskVars>>

\* The function, in its own thread. It reads its arguments until it ends.
RunFunction(k) ==
    /\ task[k] = "running"
    /\ \/ /\ task' = [task EXCEPT ![k] = "value"]
          /\ value' = [value EXCEPT ![k] = orderedArgs[k]]
       \/ \E how \in {"threw", "bad_any_cast"} : task' = [task EXCEPT ![k] = how] /\ UNCHANGED value
    /\ UNCHANGED <<functions, callVars>>

CallStep(k) == Lookup(k) \/ Convert(k) \/ Launch(k) \/ GetResult(k) \/ Unwind(k)

-------------------------------------------------------------------------------
Next == \/ \E n \in Names, s \in Signatures : Register(n, s)
        \/ \E k \in Calls : Begin(k) \/ CallStep(k) \/ Timeout(k) \/ RunFunction(k)

Spec == Init /\ [][Next]_vars

(***************************************************************************)
(* A caller's thread runs, and a wait ends: by the function or the timeout.*)
(* Nothing obliges a function to end.                                      *)
(***************************************************************************)
Fairness == \A k \in Calls : WF_vars(CallStep(k)) /\ WF_vars(Timeout(k))

FairSpec == Spec /\ Fairness

-------------------------------------------------------------------------------
Errors == {"FUNCTION_NOT_FOUND", "TYPE_MISMATCH", "ARGUMENT_ERROR", "TIMEOUT_ERROR"}

\* The finite values of a type of numbers, in units.
NumberTypes == {"int", "long", "float", "double"}
TypeValues(type) == CASE type = "float" -> FloatValues
                      [] type = "double" -> DoubleValues
                      [] OTHER -> {n * Unit : n \in WidthRange(Half(type))}

TypeOK ==
    /\ functions \in [Names -> Signatures \cup {None}]
    /\ pc \in [Calls -> {"idle", "lookup", "convert", "wait", "unwind", "done"}]
    /\ request \in [Calls -> Requests \cup {None}]
    /\ found \in [Calls -> Signatures \cup {None}]
    /\ \A k \in Calls : \A i \in 1 .. Len(orderedArgs[k]) :
         LET type == found[k].params[i].type
         IN type \in {"int", "long"} => orderedArgs[k][i] \in TypeValues(type)
    /\ task \in [Calls -> {"none", "running", "value", "threw", "bad_any_cast"}]
    /\ outcome \in [Calls -> Errors \cup {"none", "value", "threw", "system_error"}]

\* A function never outlives its call: while it runs, the caller's frame is there,
\* with the arguments the function refers to, also when the call has timed out;
\* and the entry it was found under is still the one it was.
TaskWithinCall ==
    \A k \in Calls : task[k] = "running" =>
        /\ pc[k] \in {"wait", "unwind"} /\ Info(k) = found[k]
        /\ Len(orderedArgs[k]) = Len(found[k].params)

\* v is the number s, or where the type has no value s one next to s: no value of
\* the type, s included, lies on the way from s to v.
NextTo(S, s, v) == v \in S /\ \A x \in S : ~(s <= x /\ x < v) /\ ~(v < x /\ x <= s)

\* v is what was sent; of a number outside the range of its type nothing is said.
ScalarAsSent(type, json, v) ==
    IF type \in NumberTypes
    THEN (\E lo, hi \in TypeValues(type) : lo <= Sent(json) /\ Sent(json) <= hi)
           => NextTo(TypeValues(type), Sent(json), v)
    ELSE v = json.value

AsSent(type, json, v) ==
    IF type \in {"vector<int>", "vector<string>"}
    THEN LET element == IF type = "vector<int>" THEN "int" ELSE "string"
         IN /\ Len(v) = Len(json.value)
            /\ \A i \in 1 .. Len(v) : ScalarAsSent(element, json.value[i], v[i])
    ELSE ScalarAsSent(type, json, v)

\* A call returns what its own function made of its own arguments: each as it was
\* sent under the name of its parameter, in the order of registration, whatever
\* the order of names in the request and whatever other calls do. A number its type
\* has arrives unchanged; of another within the type's range (a fraction for an int,
\* too many digits for a float) a neighbouring value arrives.
ArgumentsAsSent ==
    \A k \in Calls : outcome[k] = "value" =>
        /\ Len(value[k]) = Len(found[k].params)
        /\ \A i \in 1 .. Len(value[k]) :
             LET p == found[k].params[i]
             IN AsSent(p.type, request[k].args[p.name], value[k][i])

\* The error request r earns of the entry s before any function runs: the first
\* fault in the order of the parameters decides.
Faulty(s, r, i) == LET p == s.params[i]
                   IN p.name \notin DOMAIN r.args \/ Converted(p.type, r.args[p.name]) = {}

Verdict(s, r) ==
    IF s = None THEN "FUNCTION_NOT_FOUND"
    ELSE IF s.ret # r.ret THEN "TYPE_MISMATCH"
    ELSE IF \E i \in 1 .. Len(s.params) : Faulty(s, r, i)
         THEN LET first == CHOOSE i \in 1 .. Len(s.params) :
                             Faulty(s, r, i) /\ \A j \in 1 .. i - 1 : ~Faulty(s, r, j)
              IN IF s.params[first].name \in DOMAIN r.args
                 THEN "TYPE_MISMATCH" ELSE "ARGUMENT_ERROR"
    ELSE "runs"

\* A call whose request is at fault ends with the error of the first fault, and
\* its function has not run; one that is not at fault ends as its function did,
\* or with the timeout, or because no thread could be had.
EndsRightly(k) ==
    LET verdict == Verdict(found[k], request[k])
    IN IF verdict # "runs" THEN outcome[k] = verdict /\ task[k] = "none"
       ELSE \/ outcome[k] = task[k] /\ task[k] \in {"value", "threw"}
            \/ outcome[k] = "TYPE_MISMATCH" /\ task[k] = "bad_any_cast"
            \/ outcome[k] = "TIMEOUT_ERROR" /\ task[k] # "none"
            \/ outcome[k] = "system_error" /\ task[k] = "none"

ErrorsNameTheirCause == \A k \in Calls : pc[k] = "done" => EndsRightly(k)

\* Every call ends, with an error or once its function has ended, in whatever way;
\* a call whose function is still running need not.
EveryCallEnds ==
    \A k \in Calls : (pc[k] # "idle" /\ task[k] # "running")
                       ~> (pc[k] = "done" \/ task[k] = "running")

\* A call that has timed out ends, whatever its function does.
TimeoutEndsCall == \A k \in Calls : pc[k] = "unwind" ~> pc[k] = "done"
===============================================================================
