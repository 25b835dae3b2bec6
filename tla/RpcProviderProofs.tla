--------------------------- MODULE RpcProviderProofs ---------------------------
(***************************************************************************)
(* Proofs about RpcProvider, for any calls, signatures and requests: the   *)
(* function of a call runs within the call, with the arguments of its      *)
(* request, and the call ends for the reason it gives.                     *)
(***************************************************************************)
EXTENDS RpcProvider, SequenceTheorems, TLAPS

\* What convert_json_to_any may make of the arguments of r for the parameters of s.
Given(s, r) == {i \in 1 .. Len(s.params) : s.params[i].name \in DOMAIN r.args}
ValuesOf(s, r) == UNION {Converted(s.params[i].type, r.args[s.params[i].name]) :
                           i \in Given(s, r)}
Values == UNION {ValuesOf(s, r) : s \in Signatures, r \in Requests}

Types ==
    /\ functions \in [Names -> Signatures \cup {None}]
    /\ pc \in [Calls -> {"idle", "lookup", "convert", "wait", "unwind", "done"}]
    /\ request \in [Calls -> Requests \cup {None}]
    /\ found \in [Calls -> Signatures \cup {None}]
    /\ task \in [Calls -> {"none", "running", "value", "threw", "bad_any_cast"}]

ArgTypes == orderedArgs \in [Calls -> Seq(Values)]

\* The entry a call has found stays, it collects one argument for each parameter,
\* and only then is there a task, that the call does not return before.
CallInv(k) ==
    /\ pc[k] # "idle" => request[k] \in Requests
    /\ pc[k] \in {"idle", "lookup"} => orderedArgs[k] = << >>
    /\ pc[k] \in {"idle", "lookup", "convert"} => task[k] = "none"
    /\ pc[k] \in {"convert", "wait", "unwind"} =>
         /\ found[k] \in Signatures /\ Info(k) = found[k]
         /\ Len(orderedArgs[k]) <= Len(found[k].params)
    /\ pc[k] \in {"wait", "unwind"} => Len(orderedArgs[k]) = Len(found[k].params)
    /\ task[k] = "running" => pc[k] \in {"wait", "unwind"}

Inv == Types /\ ArgTypes /\ \A k \in Calls : CallInv(k)

USE DEF vars, callVars, taskVars

LEMMA InitInv ==
  ASSUME Init
  PROVE  Inv
<1>1. << >> \in Seq(Values)
  BY EmptySeq
<1>2. Types
  BY DEF Init, Types
<1>3. ArgTypes
  BY <1>1 DEF Init, ArgTypes
<1>4. \A k \in Calls : CallInv(k)
  BY DEF Init, CallInv
<1> QED
  BY <1>2, <1>3, <1>4 DEF Inv

\* A step of k leaves the other calls alone.
LEMMA OthersKeep ==
  ASSUME Inv, NEW k \in Calls, NEW j \in Calls, j # k, UNCHANGED functions,
         UNCHANGED <<pc[j], request[j], found[j], orderedArgs[j], task[j]>>
  PROVE  CallInv(j)'
BY DEF Inv, CallInv, Info

LEMMA CallKeeps ==
  ASSUME Inv, NEW k \in Calls, Begin(k) \/ CallStep(k) \/ Timeout(k) \/ RunFunction(k)
  PROVE  Inv'
<1> USE DEF Goto, Return
<1>1. Types'
  <2>1. UNCHANGED functions
    BY DEF Begin, CallStep, Timeout, RunFunction, Lookup, Convert, Launch, GetResult, Unwind
  <2>2. pc' \in [Calls -> {"idle", "lookup", "convert", "wait", "unwind", "done"}]
    BY DEF Inv, Types, Begin, CallStep, Timeout, RunFunction, Lookup, Convert, Launch, GetResult,
           Unwind
  <2>3. request' \in [Calls -> Requests \cup {None}]
    BY DEF Inv, Types, Begin, CallStep, Timeout, RunFunction, Lookup, Convert, Launch, GetResult,
           Unwind
  <2>4. found' \in [Calls -> Signatures \cup {None}]
    <3>1. UNCHANGED found \/ (Lookup(k) /\ found' = [found EXCEPT ![k] = Info(k)])
      BY DEF Begin, CallStep, Timeout, RunFunction, Lookup, Convert, Launch, GetResult, Unwind
    <3>2. CASE Lookup(k) /\ found' = [found EXCEPT ![k] = Info(k)]
      <4>1. request[k] \in Requests
        BY <3>2 DEF Inv, CallInv, Lookup
      <4>2. Info(k) \in Signatures \cup {None}
        BY <4>1, ProviderAssumption DEF Inv, Types, Info
      <4> QED
        BY <3>2, <4>2 DEF Inv, Types
    <3> QED
      BY <3>1, <3>2 DEF Inv, Types
  <2>5. task' \in [Calls -> {"none", "running", "value", "threw", "bad_any_cast"}]
    BY DEF Inv, Types, Begin, CallStep, Timeout, RunFunction, Lookup, Convert, Launch, GetResult,
           Unwind
  <2> QED
    BY <2>1, <2>2, <2>3, <2>4, <2>5 DEF Inv, Types
<1>2. ArgTypes'
  <2>1. << >> \in Seq(Values) /\ ArgTypes
    BY EmptySeq DEF Inv
  <2>2. CASE \E v \in Values : orderedArgs' = [orderedArgs EXCEPT ![k] = Append(@, v)]
    BY <2>1, <2>2, AppendProperties DEF ArgTypes
  <2>3. CASE UNCHANGED orderedArgs \/ orderedArgs' = [orderedArgs EXCEPT ![k] = << >>]
    BY <2>1, <2>3 DEF ArgTypes
  <2>4. CASE Convert(k)
    <3> DEFINE p == NextParam(k)
               i == Len(orderedArgs[k]) + 1
               converted == Converted(p.type, request[k].args[p.name])
    <3>1. /\ found[k] \in Signatures /\ Info(k) = found[k] /\ request[k] \in Requests
          /\ ParamsLeft(k)
      BY <2>4 DEF Convert, Inv, CallInv
    <3>2. i \in 1 .. Len(found[k].params) /\ p = found[k].params[i]
      <4>1. Len(orderedArgs[k]) \in Nat
        BY <2>1, LenProperties DEF ArgTypes
      <4> QED
        BY <3>1, <4>1, ProviderAssumption DEF ParamsLeft, NextParam
    <3>3. p.name \in DOMAIN request[k].args => converted \subseteq Values
      <4> SUFFICES ASSUME p.name \in DOMAIN request[k].args, NEW v \in converted
                   PROVE  v \in Values
        OBVIOUS
      <4> HIDE DEF i, p
      <4>1. i \in Given(found[k], request[k])
        BY <3>2 DEF Given
      <4>2. v \in ValuesOf(found[k], request[k])
        BY <3>2, <4>1 DEF ValuesOf
      <4> QED
        BY <3>1, <4>2 DEF Values
    <3>4. \/ orderedArgs' = [orderedArgs EXCEPT ![k] = << >>]
          \/ /\ p.name \in DOMAIN request[k].args
             /\ \E v \in converted : orderedArgs' = [orderedArgs EXCEPT ![k] = Append(@, v)]
      BY <2>4 DEF Convert, Appended
    <3> QED
      BY <2>2, <2>3, <3>3, <3>4
  <2>5. CASE ~Convert(k)
    BY <2>3, <2>5 DEF Begin, CallStep, Timeout, RunFunction, Lookup, Launch, GetResult, Unwind
  <2> QED
    BY <2>4, <2>5
<1>3. ASSUME NEW j \in Calls, j # k PROVE CallInv(j)'
  <2>1. UNCHANGED functions
    BY DEF Begin, CallStep, Timeout, RunFunction, Lookup, Convert, Launch, GetResult, Unwind
  <2>2. UNCHANGED <<pc[j], request[j], found[j], task[j]>>
    BY <1>3 DEF Inv, Types, Begin, CallStep, Timeout, RunFunction, Lookup, Convert, Launch,
                GetResult, Unwind
  <2>3. UNCHANGED orderedArgs[j]
    BY <1>3 DEF Inv, ArgTypes, Begin, CallStep, Timeout, RunFunction, Lookup, Convert, Launch,
                GetResult, Unwind, Appended
  <2> QED
    BY <1>3, <2>1, <2>2, <2>3, OthersKeep
<1>4. CallInv(k)'
  <2>1. CASE Begin(k)
    BY <2>1 DEF Begin, Inv, Types, CallInv, Info
  <2>2. CASE Lookup(k)
    <3>1. Len(<< >>) = 0 /\ request[k] \in Requests /\ task[k] = "none" /\ orderedArgs[k] = << >>
      BY <2>2, EmptySeq DEF Lookup, Inv, CallInv
    <3>2. /\ found'[k] = Info(k) /\ Info(k)' = Info(k) /\ request'[k] = request[k]
          /\ task'[k] = task[k] /\ pc'[k] \in {"convert", "done"}
          /\ pc'[k] = "convert" => Info(k) # None /\ UNCHANGED orderedArgs
      BY <2>2 DEF Lookup, Info, Inv, Types
    <3>3. Info(k) # None => Info(k) \in Signatures /\ Len(Info(k).params) \in Nat
      BY <3>1, ProviderAssumption DEF Inv, Types, Info
    <3> QED
      BY <3>1, <3>2, <3>3 DEF CallInv
  <2>3. CASE Convert(k)
    <3>1. /\ found[k] \in Signatures /\ Info(k) = found[k] /\ request[k] \in Requests
          /\ task[k] = "none" /\ Len(orderedArgs[k]) < Len(found[k].params)
          /\ UNCHANGED <<found, request, task>> /\ Info(k)' = Info(k)
      BY <2>3 DEF Convert, Inv, CallInv, ParamsLeft, Info
    <3>2. CASE pc'[k] = "done"
      BY <3>1, <3>2 DEF CallInv
    <3>3. CASE UNCHANGED pc /\ \E v : orderedArgs' = [orderedArgs EXCEPT ![k] = Append(@, v)]
      <4>1. PICK v : orderedArgs' = [orderedArgs EXCEPT ![k] = Append(@, v)]
        BY <3>3
      <4>2. /\ Len(orderedArgs'[k]) = Len(orderedArgs[k]) + 1
            /\ Len(orderedArgs[k]) \in Nat /\ Len(found[k].params) \in Nat
        BY <1>2, <3>1, <4>1, ProviderAssumption, LenProperties DEF Inv, ArgTypes
      <4>3. pc[k] = "convert"
        BY <2>3 DEF Convert
      <4> QED
        BY <3>1, <3>3, <4>2, <4>3 DEF CallInv
    <3> QED
      BY <2>3, <3>2, <3>3 DEF Convert, Appended, Inv, Types
  <2>4. CASE Launch(k)
    <3>1. /\ found[k] \in Signatures /\ Info(k) = found[k] /\ request[k] \in Requests
          /\ task[k] = "none" /\ Len(orderedArgs[k]) <= Len(found[k].params)
          /\ ~(Len(orderedArgs[k]) < Len(found[k].params))
          /\ UNCHANGED <<found, request>> /\ Info(k)' = Info(k)
      BY <2>4 DEF Launch, Inv, CallInv, ParamsLeft, Info
    <3>2. Len(orderedArgs[k]) = Len(found[k].params)
      <4>1. Len(orderedArgs[k]) \in Nat /\ Len(found[k].params) \in Nat
        BY <3>1, ProviderAssumption, LenProperties DEF Inv, ArgTypes
      <4> QED
        BY <3>1, <4>1
    <3>3. \/ pc'[k] = "wait" /\ task'[k] = "running" /\ UNCHANGED orderedArgs
          \/ pc'[k] = "done" /\ UNCHANGED task
      BY <2>4 DEF Launch, Inv, Types
    <3> QED
      BY <3>1, <3>2, <3>3 DEF CallInv
  <2>5. CASE GetResult(k) \/ Unwind(k)
    <3>1. pc'[k] = "done" /\ task[k] # "running" /\ UNCHANGED <<task, request>>
          /\ request[k] \in Requests
      BY <2>5 DEF GetResult, Unwind, TaskEnded, Inv, Types, CallInv
    <3> QED
      BY <3>1 DEF CallInv
  <2>6. CASE Timeout(k)
    BY <2>6 DEF Timeout, Inv, Types, CallInv, Info
  <2>7. CASE RunFunction(k)
    BY <2>7 DEF RunFunction, Inv, Types, CallInv, Info
  <2> QED
    BY <2>1, <2>2, <2>3, <2>4, <2>5, <2>6, <2>7 DEF CallStep
<1> QED
  BY <1>1, <1>2, <1>3, <1>4 DEF Inv

\* The map has no lock: what register_function does, the entries of the calls under way stay.
LEMMA RegisterKeeps ==
  ASSUME Inv, NEW n \in Names, NEW s \in Signatures, Register(n, s)
  PROVE  Inv'
<1>1. Types' /\ ArgTypes'
  BY DEF Register, Inv, Types, ArgTypes
<1>2. ASSUME NEW k \in Calls PROVE CallInv(k)'
  <2>1. UNCHANGED <<pc, request, found, orderedArgs, task>>
    BY DEF Register
  <2>2. InCall(k) => request[k] \in Requests /\ Info(k)' = Info(k)
    BY ProviderAssumption DEF Register, Inv, Types, CallInv, InCall, Info
  <2> QED
    BY <2>1, <2>2 DEF Inv, CallInv, InCall
<1> QED
  BY <1>1, <1>2 DEF Inv

\* Every call goes through call_function_named in the order of its parameters.
THEOREM CallInvariant == Spec => []Inv
<1>1. Init => Inv
  BY InitInv
<1>2. Inv /\ [Next]_vars => Inv'
  <2>1. Inv /\ UNCHANGED vars => Inv'
    BY DEF Inv, Types, ArgTypes, CallInv, Info
  <2> QED
    BY <2>1, CallKeeps, RegisterKeeps DEF Next
<1> QED
  BY <1>1, <1>2, PTL DEF Spec

\* The task that std::async has started refers to ordered_args and to the map entry, and
\* neither goes away while it runs, timeout or not.
THEOREM TasksWithinCalls == Spec => []TaskWithinCall
<1>1. Inv => TaskWithinCall
  BY DEF Inv, CallInv, TaskWithinCall
<1> QED
  BY <1>1, CallInvariant, PTL

-------------------------------------------------------------------------------
\* The loop over the parameters stops at the first fault.
LEMMA FirstFault ==
  ASSUME NEW s, NEW r, NEW n \in 1 .. Len(s.params), Len(s.params) \in Nat,
         s # None, s.ret = r.ret, Faulty(s, r, n),
         \A i \in 1 .. n - 1 : ~Faulty(s, r, i)
  PROVE  Verdict(s, r) = IF s.params[n].name \in DOMAIN r.args
                         THEN "TYPE_MISMATCH" ELSE "ARGUMENT_ERROR"
<1> DEFINE IsFirst(i) == Faulty(s, r, i) /\ \A j \in 1 .. i - 1 : ~Faulty(s, r, j)
           first == CHOOSE i \in 1 .. Len(s.params) : IsFirst(i)
<1>1. first \in 1 .. Len(s.params) /\ IsFirst(first)
  <2>1. \E i \in 1 .. Len(s.params) : IsFirst(i)
    OBVIOUS
  <2> QED
    BY <2>1
<1>2. first = n
  <2> HIDE DEF first
  <2>1. ~(first < n)
    BY <1>1
  <2>2. ~(n < first)
    BY <1>1
  <2> QED
    BY <1>1, <2>1, <2>2
<1>3. Verdict(s, r) = IF s.params[first].name \in DOMAIN r.args
                      THEN "TYPE_MISMATCH" ELSE "ARGUMENT_ERROR"
  BY DEF Verdict
<1> QED
  BY <1>2, <1>3

LEMMA NoFault ==
  ASSUME NEW s, NEW r, s # None, s.ret = r.ret,
         \A i \in 1 .. Len(s.params) : ~Faulty(s, r, i)
  PROVE  Verdict(s, r) = "runs"
BY DEF Verdict

\* A call in the loop has found no fault so far, one that waits has started its task.
FaultInv(k) ==
    /\ pc[k] \in {"convert", "wait", "unwind"} =>
         /\ found[k].ret = request[k].ret
         /\ \A i \in 1 .. Len(orderedArgs[k]) : ~Faulty(found[k], request[k], i)
    /\ pc[k] \in {"wait", "unwind"} => task[k] # "none"
    /\ pc[k] = "done" => task[k] # "running" /\ EndsRightly(k)

Outcomes == Errors \cup {"none", "value", "threw", "system_error"}
EndInv == outcome \in [Calls -> Outcomes] /\ \A k \in Calls : FaultInv(k)

LEMMA InitEnd ==
  ASSUME Init
  PROVE  EndInv
BY DEF Init, EndInv, FaultInv, Outcomes

LEMMA EndStep ==
  ASSUME Inv, Inv', EndInv, NEW k \in Calls, Begin(k) \/ CallStep(k) \/ Timeout(k) \/ RunFunction(k)
  PROVE  EndInv'
<1> USE DEF Goto, Return
<1>a. outcome \in [Calls -> Outcomes] /\ FaultInv(k)
  BY DEF EndInv
<1>b. Types /\ ArgTypes /\ CallInv(k)
  BY DEF Inv
<1>1. outcome' \in [Calls -> Outcomes]
  <2>1. UNCHANGED outcome \/ \E how \in Outcomes : outcome' = [outcome EXCEPT ![k] = how]
    BY DEF Begin, CallStep, Timeout, RunFunction, Lookup, Convert, Launch, GetResult, Unwind,
       Outcomes, Errors
  <2> QED
    BY <2>1, <1>a
<1>2. ASSUME NEW j \in Calls, j # k PROVE FaultInv(j)'
  <2>1. UNCHANGED <<pc[j], request[j], found[j], task[j]>>
    BY <1>2, <1>b DEF Types, Begin, CallStep, Timeout, RunFunction, Lookup, Convert, Launch,
                GetResult, Unwind
  <2>2. UNCHANGED orderedArgs[j]
    BY <1>2, <1>b DEF ArgTypes, Begin, CallStep, Timeout, RunFunction, Lookup, Convert, Launch,
                GetResult, Unwind, Appended
  <2>3. UNCHANGED outcome[j]
    BY <1>2, <1>a DEF Begin, CallStep, Timeout, RunFunction, Lookup, Convert, Launch,
                GetResult, Unwind
  <2> QED
    BY <1>2, <2>1, <2>2, <2>3 DEF EndInv, FaultInv, EndsRightly
<1>3. FaultInv(k)'
  <2>1. CASE Begin(k)
    BY <2>1, <1>b DEF Begin, FaultInv, Types
  <2>2. CASE Lookup(k)
    <3>1. /\ found'[k] = Info(k) /\ request'[k] = request[k] /\ task'[k] = "none"
          /\ orderedArgs[k] = << >>
      BY <2>2, <1>b DEF Lookup, Types, CallInv
    <3>2. CASE pc'[k] = "done"
      <4>1. /\ Info(k) = None \/ Info(k).ret # request[k].ret
            /\ outcome'[k] = IF Info(k) = None THEN "FUNCTION_NOT_FOUND" ELSE "TYPE_MISMATCH"
        BY <2>2, <3>2, <1>a, <1>b DEF Lookup, Types
      <4>2. Verdict(Info(k), request[k]) = outcome'[k]
        BY <4>1 DEF Verdict
      <4> QED
        BY <3>1, <3>2, <4>1, <4>2 DEF FaultInv, EndsRightly
    <3>3. CASE pc'[k] = "convert"
      <4>1. Info(k).ret = request[k].ret /\ UNCHANGED orderedArgs /\ Len(orderedArgs[k]) = 0
        BY <2>2, <3>1, <3>3, <1>b, EmptySeq DEF Lookup, Types
      <4> QED
        BY <3>1, <3>3, <4>1 DEF FaultInv
    <3> QED
      BY <2>2, <3>2, <3>3, <1>b DEF Lookup, Types
  <2>3. CASE Convert(k)
    <3> DEFINE s == found[k]
               r == request[k]
               n == Len(orderedArgs[k]) + 1
    <3>1. /\ s \in Signatures /\ Info(k) = s /\ s # None /\ s.ret = r.ret
          /\ Len(s.params) \in Nat /\ Len(orderedArgs[k]) \in Nat
          /\ Len(orderedArgs[k]) < Len(s.params)
          /\ task[k] = "none" /\ pc[k] = "convert"
          /\ \A i \in 1 .. n - 1 : ~Faulty(s, r, i)
      <4>1. Len(orderedArgs[k]) \in Nat /\ n - 1 = Len(orderedArgs[k])
        BY <1>b, LenProperties DEF ArgTypes
      <4> QED
        BY <2>3, <4>1, <1>a, <1>b, ProviderAssumption DEF Convert, CallInv, FaultInv, ParamsLeft
    <3>2. n \in 1 .. Len(s.params) /\ NextParam(k) = s.params[n]
      BY <3>1 DEF NextParam
    <3>3. UNCHANGED <<found, request, task>>
      BY <2>3 DEF Convert
    <3>4. CASE pc'[k] = "done"
      <4>1. /\ Faulty(s, r, n)
            /\ outcome'[k] = IF s.params[n].name \in DOMAIN r.args
                             THEN "TYPE_MISMATCH" ELSE "ARGUMENT_ERROR"
        BY <2>3, <3>1, <3>2, <3>4, <1>a DEF Convert, Faulty
      <4>2. Verdict(s, r) = outcome'[k]
        BY <3>1, <3>2, <4>1, FirstFault
      <4>3. outcome'[k] # "runs"
        BY <4>1
      <4> QED
        BY <3>1, <3>3, <3>4, <4>2, <4>3 DEF FaultInv, EndsRightly
    <3>5. CASE pc'[k] # "done"
      <4>1. /\ UNCHANGED pc /\ ~Faulty(s, r, n)
            /\ \E v : orderedArgs' = [orderedArgs EXCEPT ![k] = Append(@, v)]
        BY <2>3, <3>2, <3>5, <1>b DEF Convert, Faulty, Appended, Types
      <4>2. Len(orderedArgs'[k]) = n
        BY <4>1, <1>b DEF ArgTypes
      <4>3. \A i \in 1 .. n : ~Faulty(s, r, i)
        BY <3>1, <4>1
      <4> QED
        BY <3>1, <3>3, <4>1, <4>2, <4>3 DEF FaultInv
    <3> QED
      BY <3>4, <3>5
  <2>4. CASE Launch(k)
    <3>1. /\ found[k] \in Signatures /\ found[k] # None /\ found[k].ret = request[k].ret
          /\ Len(orderedArgs[k]) = Len(found[k].params) /\ task[k] = "none"
          /\ \A i \in 1 .. Len(orderedArgs[k]) : ~Faulty(found[k], request[k], i)
      <4>1. /\ found[k] \in Signatures /\ Info(k) = found[k] /\ task[k] = "none"
            /\ Len(orderedArgs[k]) <= Len(found[k].params)
            /\ ~(Len(orderedArgs[k]) < Len(found[k].params))
        BY <2>4, <1>b DEF Launch, CallInv, ParamsLeft
      <4>2. Len(orderedArgs[k]) \in Nat /\ Len(found[k].params) \in Nat
        BY <4>1, <1>b, ProviderAssumption, LenProperties DEF ArgTypes
      <4> QED
        BY <2>4, <4>1, <4>2, <1>a, ProviderAssumption DEF Launch, FaultInv
    <3>2. Verdict(found[k], request[k]) = "runs"
      BY <3>1, NoFault
    <3>3. /\ UNCHANGED <<found, request>>
          /\ \/ pc'[k] = "wait" /\ task'[k] = "running" /\ UNCHANGED orderedArgs
             \/ pc'[k] = "done" /\ UNCHANGED task /\ outcome'[k] = "system_error"
      BY <2>4, <1>a, <1>b DEF Launch, Types
    <3> QED
      BY <3>1, <3>2, <3>3 DEF FaultInv, EndsRightly
  <2>5. CASE GetResult(k) \/ Unwind(k)
    <3>1. /\ pc[k] \in {"wait", "unwind"} /\ pc'[k] = "done"
          /\ task[k] \notin {"running", "none"} /\ UNCHANGED <<found, request, task>>
          /\ \/ outcome'[k] = task[k] /\ task[k] \in {"value", "threw"}
             \/ outcome'[k] = "TYPE_MISMATCH" /\ task[k] = "bad_any_cast"
             \/ outcome'[k] = "TIMEOUT_ERROR"
      BY <2>5, <1>a, <1>b DEF GetResult, Unwind, TaskEnded, FaultInv, Types
    <3>2. Verdict(found[k], request[k]) = "runs"
      <4>1. /\ found[k] # None /\ found[k].ret = request[k].ret
            /\ \A i \in 1 .. Len(found[k].params) : ~Faulty(found[k], request[k], i)
        BY <3>1, <1>a, <1>b, ProviderAssumption DEF CallInv, FaultInv
      <4> QED
        BY <4>1, NoFault
    <3> QED
      BY <3>1, <3>2 DEF FaultInv, EndsRightly
  <2>6. CASE Timeout(k)
    BY <2>6, <1>a, <1>b DEF Timeout, FaultInv, Types
  <2>7. CASE RunFunction(k)
    <3>1. /\ pc[k] \in {"wait", "unwind"} /\ UNCHANGED <<pc, found, request, orderedArgs>>
          /\ task'[k] # "none"
      BY <2>7, <1>b DEF RunFunction, CallInv, Types
    <3> QED
      BY <3>1, <1>a DEF FaultInv
  <2> QED
    BY <2>1, <2>2, <2>3, <2>4, <2>5, <2>6, <2>7 DEF CallStep
<1> QED
  BY <1>1, <1>2, <1>3 DEF EndInv

\* call_function_named reports the first fault of a request and runs no function then;
\* otherwise it ends as its function did, with the timeout, or for want of a thread.
THEOREM ErrorsAreTrue == Spec => []ErrorsNameTheirCause
<1>1. Init => EndInv
  BY InitEnd
<1>2. Inv /\ Inv' /\ EndInv /\ [Next]_vars => EndInv'
  <2>1. UNCHANGED <<callVars, taskVars>> /\ EndInv => EndInv'
    BY DEF EndInv, FaultInv, EndsRightly
  <2> QED
    BY <2>1, EndStep DEF Next, Register
<1>3. EndInv => ErrorsNameTheirCause
  BY DEF EndInv, FaultInv, ErrorsNameTheirCause
<1> QED
  BY <1>1, <1>2, <1>3, CallInvariant, PTL DEF Spec
-------------------------------------------------------------------------------
(* What the conversions make of an argument.                               *)

LEMMA QuotientRemainder ==
  ASSUME NEW n \in Int, NEW d \in Nat \ {0}
  PROVE  n \div d \in Int /\ n % d \in 0 .. d - 1 /\ n = (n \div d) * d + (n % d)
OBVIOUS

LEMMA MultipleIsZero ==
  ASSUME NEW q \in Int, NEW d \in Nat \ {0}
  PROVE  (q * d) % d = 0
<1> DEFINE n == q * d
           k == n \div d
           r == n % d
<1>1. n \in Int
  OBVIOUS
<1>2. k \in Int /\ r \in 0 .. d - 1 /\ n = k * d + r
  BY <1>1, QuotientRemainder
<1> HIDE DEF k, r
<1>3. (q - k) * d = r
  BY <1>2
<1>4. q - k = 0
  <2>1. q - k >= 1 => (q - k) * d >= d
    BY <1>2
  <2>2. q - k <= -1 => (q - k) * d <= -d
    BY <1>2
  <2> QED
    BY <1>2, <1>3, <2>1, <2>2
<1> QED
  BY <1>2, <1>3, <1>4 DEF r

\* A number has one value of the narrower type, and one that fits keeps its value.
LEMMA NarrowIs ==
  ASSUME NEW n \in Int, NEW half \in Nat \ {0}
  PROVE  /\ Narrow(n, half) \in WidthRange(half)
         /\ n \in WidthRange(half) => Narrow(n, half) = n
<1> DEFINE w == 2 * half
           Same(m) == (n - m) % w = 0
<1>1. w \in Nat \ {0}
  OBVIOUS
<1>2. \E m \in WidthRange(half) : Same(m)
  <2> DEFINE q == (n + half) \div w
             r == (n + half) % w
  <2>1. q \in Int /\ r \in 0 .. w - 1 /\ n + half = q * w + r
    <3>1. n + half \in Int
      OBVIOUS
    <3> HIDE DEF w
    <3> QED
      BY <1>1, <3>1, QuotientRemainder
  <2> HIDE DEF q, r
  <2>2. r - half \in WidthRange(half) /\ n - (r - half) = q * w
    BY <2>1 DEF WidthRange
  <2>3. (q * w) % w = 0
    BY <1>1, <2>1, MultipleIsZero
  <2> QED
    BY <2>2, <2>3
<1> DEFINE m == CHOOSE m \in WidthRange(half) : Same(m)
<1>3. m \in WidthRange(half) /\ Same(m)
  BY <1>2
<1>4. Narrow(n, half) = m
  BY DEF Narrow
<1>5. ASSUME n \in WidthRange(half) PROVE m = n
  <2> HIDE DEF m
  <2> DEFINE q == (n - m) \div w
  <2>1. m \in Int /\ n - m < w /\ n - m > -w
    BY <1>3, <1>5 DEF WidthRange
  <2>2. q \in Int /\ n - m = q * w + ((n - m) % w)
    <3>1. n - m \in Int
      BY <2>1
    <3> HIDE DEF w
    <3> QED
      BY <1>1, <3>1, QuotientRemainder
  <2> HIDE DEF q
  <2>3. n - m = q * w
    BY <1>3, <2>1, <2>2
  <2>4. q >= 1 => q * w >= w
    BY <1>1, <2>2
  <2>5. q <= -1 => q * w <= -w
    BY <1>1, <2>2
  <2>6. q = 0
    <3> HIDE DEF w
    <3> QED
      BY <1>1, <2>1, <2>2, <2>3, <2>4, <2>5
  <2> QED
    BY <2>1, <2>3, <2>6
<1> QED
  BY <1>3, <1>4, <1>5

LEMMA Multiples ==
  ASSUME NEW a \in Int, NEW b \in Int, NEW d \in Nat \ {0}
  PROVE  /\ a * d \in Int /\ b * d \in Int
         /\ a < b => a * d + d <= b * d
         /\ a * d < b * d => a < b
         /\ a * d <= b * d => a <= b
<1> DEFINE c == b - a
<1>1. c \in Int /\ c * d = b * d - a * d
  OBVIOUS
<1>2. a * d \in Int /\ b * d \in Int
  OBVIOUS
<1> HIDE DEF c
<1>3. c * d \in Int /\ (c >= 1 => c * d >= d) /\ (c <= 0 => c * d <= 0) /\ (c <= -1 => c * d <= -d)
  BY <1>1
<1> QED
  BY <1>1, <1>2, <1>3 DEF c

\* What is cut off is less than one, and on the side away from zero.
LEMMA CutIs ==
  ASSUME NEW u \in Int
  PROVE  /\ Cut(u) \in Int /\ Cut(u) * Unit \in Int
         /\ u >= 0 => Cut(u) * Unit <= u /\ u < Cut(u) * Unit + Unit
         /\ u < 0 => u <= Cut(u) * Unit /\ Cut(u) * Unit - Unit < u
<1>1. Unit \in Nat \ {0}
  BY ProviderAssumption
<1>2. CASE u >= 0
  <2> DEFINE q == u \div Unit
             r == u % Unit
  <2>1. q \in Int /\ r \in 0 .. Unit - 1 /\ u = q * Unit + r
    BY <1>1, QuotientRemainder
  <2>2. Cut(u) = q
    BY <1>2 DEF Cut
  <2> HIDE DEF q, r
  <2> QED
    BY <1>1, <1>2, <2>1, <2>2
<1>3. CASE u < 0
  <2> DEFINE m == -u
             q == m \div Unit
             r == m % Unit
  <2>1. m \in Int
    OBVIOUS
  <2>2. q \in Int /\ r \in 0 .. Unit - 1 /\ m = q * Unit + r
    <3> HIDE DEF m
    <3> QED
      BY <1>1, <2>1, QuotientRemainder
  <2>3. Cut(u) = -q
    BY <1>3 DEF Cut
  <2> HIDE DEF q, r
  <2>4. (-q) * Unit = -(q * Unit) /\ q * Unit \in Int
    BY <1>1, <2>2
  <2> QED
    BY <1>1, <1>3, <2>2, <2>3, <2>4
<1> QED
  BY <1>2, <1>3

Whole == {"int", "long"}

\* An integer parameter gets a value of its type.
LEMMA WholeType ==
  ASSUME NEW type \in Whole, NEW json, IsNumber(json), NEW n \in Integral(json, Half(type)),
         json.kind \in Numeric
  PROVE  n \in Int /\ n * Unit \in TypeValues(type)
<1> DEFINE half == Half(type)
<1>1. half \in Nat \ {0}
  BY ProviderAssumption DEF Half
<1>2. TypeValues(type) = {m * Unit : m \in WidthRange(half)}
  BY DEF TypeValues, Whole
<1> HIDE DEF half
<1>3. json.kind # "float" => json.value \in Int
  BY DEF IsNumber, Numeric
<1>4. n \in WidthRange(half)
  <2>1. n \in Integral(json, half)
    BY DEF half
  <2>2. json.kind # "float" => Narrow(json.value, half) \in WidthRange(half)
    BY <1>1, <1>3, NarrowIs
  <2> QED
    BY <2>1, <2>2 DEF Integral
<1> QED
  BY <1>1, <1>2, <1>4 DEF WidthRange

\* What is sent of a number, an integer number of units.
LEMMA SentIs ==
  ASSUME NEW json, IsNumber(json), json.kind \in Numeric
  PROVE  /\ Sent(json) \in Int
         /\ json.kind # "float" => json.value \in Int /\ Sent(json) = json.value * Unit
         /\ json.kind = "float" => json.value \in Int /\ Sent(json) = json.value
<1>1. Unit \in Int /\ DoubleValues \subseteq Int
  BY ProviderAssumption
<1>2. json.value \in Int
  BY <1>1 DEF IsNumber, Numeric
<1>3. json.value * Unit \in Int
  BY <1>1, <1>2
<1> QED
  BY <1>2, <1>3 DEF Sent

InRange(S, s) == \E lo, hi \in S : lo <= s /\ s <= hi

\* An integer within the range of the type arrives unchanged.
LEMMA IntegerArrives ==
  ASSUME NEW type \in Whole, NEW json, IsNumber(json), json.kind \in Numeric, json.kind # "float",
         InRange(TypeValues(type), Sent(json)), NEW n \in Integral(json, Half(type))
  PROVE  NextTo(TypeValues(type), Sent(json), n * Unit)
<1> DEFINE half == Half(type)
           u == Sent(json)
           w == json.value
<1>1. half \in Nat \ {0} /\ Unit \in Nat \ {0}
  BY ProviderAssumption DEF Half
<1>2. w \in Int /\ u = w * Unit
  BY SentIs
<1>3. TypeValues(type) = {m * Unit : m \in WidthRange(half)}
  BY DEF TypeValues, Whole
<1>4. n = Narrow(w, half)
  BY DEF Integral
<1> HIDE DEF half, u, w
<1>5. PICK a \in WidthRange(half), b \in WidthRange(half) : a * Unit <= u /\ u <= b * Unit
  BY <1>3 DEF InRange, u
<1>6. w \in WidthRange(half)
  <2>1. a \in Int /\ b \in Int
    BY <1>1 DEF WidthRange
  <2>2. a <= w /\ w <= b
    BY <1>1, <1>2, <1>5, <2>1, Multiples
  <2> QED
    BY <1>1, <1>2, <2>1, <2>2 DEF WidthRange
<1>7. n * Unit = u
  BY <1>1, <1>2, <1>4, <1>6, NarrowIs
<1>8. \A x \in TypeValues(type) : x \in Int
  <2>1. \A m \in WidthRange(half) : m \in Int
    BY <1>1 DEF WidthRange
  <2> QED
    BY <1>1, <1>3, <2>1
<1>9. u \in Int /\ u \in TypeValues(type)
  BY <1>1, <1>2, <1>3, <1>6
<1>10. NextTo(TypeValues(type), u, n * Unit)
  BY <1>7, <1>8, <1>9 DEF NextTo
<1> QED
  BY <1>10 DEF u

\* Of a fraction within the range of the type the whole part arrives.
LEMMA FractionIsCut ==
  ASSUME NEW type \in Whole, NEW json, IsNumber(json), json.kind = "float",
         InRange(TypeValues(type), Sent(json)), NEW n \in Integral(json, Half(type))
  PROVE  NextTo(TypeValues(type), Sent(json), n * Unit)
<1> DEFINE half == Half(type)
           u == Sent(json)
           c == Cut(u)
           S == TypeValues(type)
<1>1. half \in Nat \ {0} /\ Unit \in Nat \ {0}
  BY ProviderAssumption DEF Half
<1>2. u \in Int /\ json.value = u
  BY SentIs DEF Numeric
<1>3. S = {m * Unit : m \in WidthRange(half)}
  BY DEF TypeValues, Whole
<1>4. IF c \in WidthRange(half) THEN n = c ELSE n \in WidthRange(half)
  BY <1>2 DEF Integral
<1> HIDE DEF half, u
<1>5. /\ c \in Int /\ c * Unit \in Int
      /\ u >= 0 => c * Unit <= u /\ u < c * Unit + Unit
      /\ u < 0 => u <= c * Unit /\ c * Unit - Unit < u
  BY <1>2, CutIs
<1> HIDE DEF c
<1>6. PICK a \in WidthRange(half), b \in WidthRange(half) : a * Unit <= u /\ u <= b * Unit
  BY <1>3 DEF InRange, u
<1>7. a \in Int /\ b \in Int /\ a * Unit \in Int /\ b * Unit \in Int
  BY <1>1, Multiples DEF WidthRange
<1>8. a <= c /\ c <= b
  <2>1. a * Unit < c * Unit + Unit /\ c * Unit - Unit < b * Unit
    BY <1>1, <1>2, <1>5, <1>6, <1>7
  <2>2. c < a => c * Unit + Unit <= a * Unit
    BY <1>1, <1>5, <1>7, Multiples
  <2>3. b < c => b * Unit + Unit <= c * Unit
    BY <1>1, <1>5, <1>7, Multiples
  <2> QED
    BY <1>1, <1>5, <1>7, <2>1, <2>2, <2>3
<1>9. c \in WidthRange(half) /\ n = c
  BY <1>1, <1>4, <1>5, <1>7, <1>8 DEF WidthRange
<1>10. ASSUME NEW m \in WidthRange(half)
       PROVE  ~(u <= m * Unit /\ m * Unit < c * Unit) /\ ~(c * Unit < m * Unit /\ m * Unit <= u)
  <2>1. m \in Int /\ m * Unit \in Int
    BY <1>1, Multiples DEF WidthRange
  <2>2. m * Unit < c * Unit => m * Unit + Unit <= c * Unit
    BY <1>1, <1>5, <2>1, Multiples
  <2>3. c * Unit < m * Unit => c * Unit + Unit <= m * Unit
    BY <1>1, <1>5, <2>1, Multiples
  <2> QED
    BY <1>1, <1>2, <1>5, <2>1, <2>2, <2>3
<1>11. NextTo(S, u, c * Unit)
  BY <1>3, <1>9, <1>10 DEF NextTo
<1> QED
  BY <1>9, <1>11 DEF u

\* A nearest value lies next to the number; the infinities are not near a number in range.
LEMMA NearestIsNext ==
  ASSUME NEW S, NEW T, S \subseteq Int, S \subseteq T, T \subseteq Int, NEW u \in Int,
         InRange(S, u), NEW v \in Nearest(T, u),
         \A x \in T \ S : (\A y \in S : x < y) \/ (\A y \in S : y < x)
  PROVE  NextTo(S, u, v)
<1>1. v \in T /\ \A w \in S : Distance(u, v) <= Distance(u, w)
  BY DEF Nearest
<1>2. PICK lo \in S, hi \in S : lo <= u /\ u <= hi
  BY DEF InRange
<1>3. v \in S
  <2> SUFFICES ASSUME v \notin S PROVE FALSE
    OBVIOUS
  <2>1. v < lo \/ hi < v
    BY <1>1, <1>2
  <2>2. Distance(u, v) <= Distance(u, lo) /\ Distance(u, v) <= Distance(u, hi)
    BY <1>1, <1>2
  <2> QED
    BY <1>1, <1>2, <2>1, <2>2 DEF Distance
<1>4. ASSUME NEW x \in S PROVE ~(u <= x /\ x < v) /\ ~(v < x /\ x <= u)
  <2>1. Distance(u, v) <= Distance(u, x) /\ x \in Int /\ v \in Int
    BY <1>1
  <2> QED
    BY <2>1 DEF Distance
<1> QED
  BY <1>3, <1>4 DEF NextTo

\* A number arrives as it was sent or next to it, any other argument as it was sent.
LEMMA ScalarIs ==
  ASSUME NEW type, NEW json, IsNumber(json), NEW v \in Scalar(type, json)
  PROVE  ScalarAsSent(type, json, v) /\ (type \in Whole => v \in TypeValues(type))
<1>1. json.kind \in Kinds(type)
  BY DEF Scalar
<1>2. CASE type \in Whole
  <2>1. PICK n \in Integral(json, Half(type)) : v = n * Unit
    BY <1>1, <1>2 DEF Scalar, Whole
  <2>2. json.kind \in Numeric
    BY <1>1, <1>2 DEF Kinds, Whole, Numeric
  <2>3. v \in TypeValues(type)
    BY <1>2, <2>1, <2>2, WholeType
  <2>4. InRange(TypeValues(type), Sent(json)) => NextTo(TypeValues(type), Sent(json), v)
    BY <1>2, <2>1, <2>2, IntegerArrives, FractionIsCut
  <2> QED
    BY <1>2, <2>3, <2>4 DEF ScalarAsSent, InRange, Whole, NumberTypes
<1>3. CASE type \in {"float", "double"}
  <2> DEFINE T == IF type = "float" THEN Floats ELSE DoubleValues
             S == TypeValues(type)
  <2>1. json.kind \in Numeric /\ v \in Nearest(T, Sent(json))
    BY <1>1, <1>3 DEF Scalar, Kinds, Numeric
  <2>2. Sent(json) \in Int
    BY <2>1, SentIs
  <2>3. /\ S \subseteq Int /\ S \subseteq T /\ T \subseteq Int
        /\ \A x \in T \ S : (\A y \in S : x < y) \/ (\A y \in S : y < x)
    <3>1. CASE type = "float"
      <4>1. S = FloatValues /\ T = FloatValues \cup {-FloatInfinity, FloatInfinity}
        BY <3>1 DEF TypeValues, Floats
      <4>2. /\ FloatValues \subseteq Int /\ FloatInfinity \in Int
            /\ \A y \in FloatValues : -FloatInfinity < y /\ y < FloatInfinity
        BY ProviderAssumption
      <4>3. -FloatInfinity \in Int
        BY <4>2
      <4>4. S \subseteq Int /\ S \subseteq T /\ T \subseteq Int
        BY <4>1, <4>2, <4>3
      <4>5. ASSUME NEW x \in T \ S PROVE (\A y \in S : x < y) \/ (\A y \in S : y < x)
        <5>1. x = FloatInfinity \/ x = -FloatInfinity
          BY <4>1
        <5> QED
          BY <4>1, <4>2, <5>1
      <4> QED
        BY <4>4, <4>5
    <3>2. CASE type = "double"
      <4>1. S = DoubleValues /\ T = DoubleValues
        BY <3>2 DEF TypeValues
      <4>2. DoubleValues \subseteq Int
        BY ProviderAssumption
      <4> QED
        BY <4>1, <4>2
    <3> QED
      BY <1>3, <3>1, <3>2
  <2> HIDE DEF S, T
  <2>4. InRange(S, Sent(json)) => NextTo(S, Sent(json), v)
    BY <2>1, <2>2, <2>3, NearestIsNext
  <2> QED
    BY <1>3, <2>4 DEF ScalarAsSent, InRange, NumberTypes, Whole, S
<1>4. CASE type \notin NumberTypes
  <2>1. v = json.value
    BY <1>1, <1>4 DEF Scalar, NumberTypes
  <2> QED
    BY <1>4, <2>1 DEF ScalarAsSent, Whole, NumberTypes
<1> QED
  BY <1>2, <1>3, <1>4 DEF NumberTypes, Whole

\* A vector arrives with its length, each element like an argument of its own.
LEMMA VectorIs ==
  ASSUME NEW type, NEW json, json.kind = "array" => /\ Len(json.value) \in Nat
                               /\ \A i \in 1 .. Len(json.value) : IsNumber(json.value[i]),
         NEW v \in Vector(type, json)
  PROVE  /\ Len(v) = Len(json.value)
         /\ \A i \in 1 .. Len(v) : ScalarAsSent(type, json.value[i], v[i])
<1> DEFINE n == Len(json.value)
           elements == [i \in 1 .. n |-> Scalar(type, json.value[i])]
           All == UNION {elements[i] : i \in 1 .. n}
<1>1. json.kind = "array" /\ n \in Nat
  BY DEF Vector
<1>2. v \in [1 .. n -> All] /\ \A i \in 1 .. n : v[i] \in Scalar(type, json.value[i])
  BY <1>1 DEF Vector
<1> HIDE DEF n, All
<1>3. v \in Seq(All) /\ DOMAIN v = 1 .. n
  BY <1>1, <1>2, SeqDef
<1>4. Len(v) = n
  BY <1>1, <1>3, LenProperties
<1>5. \A i \in 1 .. n : IsNumber(json.value[i])
  BY <1>1 DEF n
<1>6. \A i \in 1 .. n : ScalarAsSent(type, json.value[i], v[i])
  BY <1>2, <1>5, ScalarIs
<1> QED
  BY <1>4, <1>6 DEF n

\* The same of any argument.
LEMMA ConvertedIs ==
  ASSUME NEW type, NEW json, NEW v \in Converted(type, json),
         IF json.kind = "array" THEN /\ Len(json.value) \in Nat
                                     /\ \A i \in 1 .. Len(json.value) : IsNumber(json.value[i])
                                ELSE IsNumber(json)
  PROVE  AsSent(type, json, v) /\ (type \in Whole => v \in TypeValues(type))
<1>1. CASE type \in {"vector<int>", "vector<string>"}
  <2> DEFINE element == IF type = "vector<int>" THEN "int" ELSE "string"
  <2>1. v \in Vector(element, json)
    BY <1>1 DEF Converted
  <2> HIDE DEF element
  <2>2. /\ Len(v) = Len(json.value)
        /\ \A i \in 1 .. Len(v) : ScalarAsSent(element, json.value[i], v[i])
    BY <2>1, VectorIs
  <2> QED
    BY <1>1, <2>2 DEF AsSent, Whole, element
<1>2. CASE type \notin {"vector<int>", "vector<string>"}
  <2>1. v \in Scalar(type, json)
    BY <1>2 DEF Converted
  <2>2. json.kind # "array"
    BY <2>1 DEF Scalar, Kinds, Numeric
  <2>3. ScalarAsSent(type, json, v) /\ (type \in Whole => v \in TypeValues(type))
    BY <2>1, <2>2, ScalarIs
  <2> QED
    BY <1>2, <2>3 DEF AsSent
<1> QED
  BY <1>1, <1>2

-------------------------------------------------------------------------------
(* The arguments a function gets, and the value it makes of them.          *)

\* args holds what was made of the arguments of r for the first parameters of s.
MadeOf(args, s, r) ==
    \A i \in 1 .. Len(args) : i \in Given(s, r)
                              /\ args[i] \in Converted(s.params[i].type, r.args[s.params[i].name])

DataInv(k) ==
    /\ pc[k] = "done" => orderedArgs[k] = << >>
    /\ pc[k] # "idle" => outcome[k] # "value" \/ task[k] = "value"
    /\ pc[k] = "idle" => outcome[k] = "none"
    /\ pc[k] \in {"convert", "wait", "unwind"} => MadeOf(orderedArgs[k], found[k], request[k])
    /\ task[k] = "value" => /\ pc[k] # "idle" /\ found[k] \in Signatures
                            /\ Len(value[k]) = Len(found[k].params)
                            /\ MadeOf(value[k], found[k], request[k])

ValueInv == value \in [Calls -> Seq(Values)] /\ \A k \in Calls : DataInv(k)

\* All that the steps of the calls keep.
Kept == Inv /\ EndInv /\ ValueInv

LEMMA InitValue ==
  ASSUME Init
  PROVE  ValueInv
<1>1. << >> \in Seq(Values)
  BY EmptySeq
<1> QED
  BY <1>1 DEF Init, ValueInv, DataInv

LEMMA ValueStep ==
  ASSUME Kept, Inv', NEW k \in Calls, Begin(k) \/ CallStep(k) \/ Timeout(k) \/ RunFunction(k)
  PROVE  ValueInv'
<1> USE DEF Goto, Return
<1>a. value \in [Calls -> Seq(Values)] /\ DataInv(k)
  BY DEF Kept, ValueInv
<1>b. Types /\ ArgTypes /\ CallInv(k)
  BY DEF Kept, Inv
<1>c. outcome \in [Calls -> Outcomes] /\ FaultInv(k)
  BY DEF Kept, EndInv
<1>1. value' \in [Calls -> Seq(Values)]
  <2>1. UNCHANGED value \/ value' = [value EXCEPT ![k] = orderedArgs[k]]
    BY DEF Begin, CallStep, Timeout, RunFunction, Lookup, Convert, Launch, GetResult, Unwind
  <2> QED
    BY <2>1, <1>a, <1>b DEF ArgTypes
<1>2. ASSUME NEW j \in Calls, j # k PROVE DataInv(j)'
  <2>1. UNCHANGED <<pc[j], request[j], found[j], task[j]>>
    BY <1>2, <1>b DEF Types, Begin, CallStep, Timeout, RunFunction, Lookup, Convert, Launch,
                GetResult, Unwind
  <2>2. UNCHANGED orderedArgs[j]
    BY <1>2, <1>b DEF ArgTypes, Begin, CallStep, Timeout, RunFunction, Lookup, Convert, Launch,
                GetResult, Unwind, Appended
  <2>3. UNCHANGED <<outcome[j], value[j]>>
    BY <1>2, <1>a, <1>c DEF Begin, CallStep, Timeout, RunFunction, Lookup, Convert, Launch,
                GetResult, Unwind
  <2>4. DataInv(j)
    BY <1>2 DEF Kept, ValueInv
  <2> QED
    BY <2>1, <2>2, <2>3, <2>4 DEF DataInv, MadeOf
<1>3. DataInv(k)'
  <2>1. CASE Begin(k)
    <3>1. /\ pc[k] = "idle" /\ pc'[k] = "lookup" /\ task'[k] = "none"
          /\ UNCHANGED outcome
      BY <2>1, <1>b DEF Begin, Types, CallInv
    <3> QED
      BY <3>1, <1>a DEF DataInv
  <2>2. CASE Lookup(k)
    <3>1. /\ orderedArgs[k] = << >> /\ task'[k] = "none" /\ outcome[k] # "value"
          /\ \/ pc'[k] = "done" /\ orderedArgs'[k] = << >> /\ outcome'[k] # "value"
             \/ pc'[k] = "convert" /\ UNCHANGED <<orderedArgs, outcome>>
      BY <2>2, <1>a, <1>b, <1>c DEF Lookup, Types, ArgTypes, CallInv, DataInv
    <3>2. MadeOf(orderedArgs'[k], found'[k], request'[k])
      <4>1. orderedArgs'[k] = << >> /\ Len(orderedArgs'[k]) = 0
        BY <3>1, EmptySeq
      <4> QED
        BY <4>1 DEF MadeOf
    <3> QED
      BY <3>1, <3>2 DEF DataInv
  <2>3. CASE Convert(k)
    <3> DEFINE s == found[k]
               r == request[k]
               a == orderedArgs[k]
               n == Len(a) + 1
    <3>1. /\ s \in Signatures /\ Info(k) = s /\ Len(s.params) \in Nat /\ Len(a) \in Nat
          /\ Len(a) < Len(s.params) /\ task[k] = "none" /\ pc[k] = "convert" /\ outcome[k] # "value"
          /\ MadeOf(a, s, r) /\ UNCHANGED <<found, request, task>>
      <4>1. Len(a) \in Nat
        BY <1>b, LenProperties DEF ArgTypes
      <4> QED
        BY <2>3, <4>1, <1>a, <1>b, ProviderAssumption DEF Convert, CallInv, DataInv, ParamsLeft
    <3>2. n \in 1 .. Len(s.params) /\ NextParam(k) = s.params[n]
      BY <3>1 DEF NextParam
    <3>3. CASE pc'[k] = "done"
      <4>1. orderedArgs'[k] = << >> /\ outcome'[k] # "value"
        BY <2>3, <3>1, <3>3, <1>b, <1>c DEF Convert, ArgTypes
      <4> QED
        BY <3>1, <3>3, <4>1 DEF DataInv
    <3>4. CASE pc'[k] # "done"
      <4>1. /\ UNCHANGED <<pc, outcome>> /\ n \in Given(s, r)
            /\ \E v \in Converted(s.params[n].type, r.args[s.params[n].name]) :
                 orderedArgs' = [orderedArgs EXCEPT ![k] = Append(@, v)]
        BY <2>3, <3>2, <3>4, <1>b DEF Convert, Appended, Types, Given
      <4>2. PICK v \in Converted(s.params[n].type, r.args[s.params[n].name]) :
                 orderedArgs' = [orderedArgs EXCEPT ![k] = Append(@, v)]
        BY <4>1
      <4>3. orderedArgs'[k] = Append(a, v)
        BY <4>2, <1>b DEF ArgTypes
      <4>4. a \in Seq(Values)
        BY <1>b DEF ArgTypes
      <4>5. Len(Append(a, v)) = n /\ Append(a, v)[n] = v
            /\ \A i \in 1 .. Len(a) : Append(a, v)[i] = a[i]
        <5>1. a \in Seq(Values \cup {v})
          BY <4>4
        <5> QED
          BY <5>1, AppendProperties
      <4>6. MadeOf(Append(a, v), s, r)
        <5> DEFINE b == Append(a, v)
        <5>1. Len(b) = n /\ b[n] = v /\ \A i \in 1 .. Len(a) : b[i] = a[i]
          BY <4>5
        <5>2. ASSUME NEW i \in 1 .. Len(b)
              PROVE  /\ i \in Given(s, r)
                     /\ b[i] \in Converted(s.params[i].type, r.args[s.params[i].name])
          <6>1. i \in 1 .. Len(a) \/ i = n
            BY <3>1, <5>1
          <6>2. CASE i \in 1 .. Len(a)
            BY <3>1, <5>1, <6>2 DEF MadeOf
          <6>3. CASE i = n
            BY <4>1, <5>1, <6>3
          <6> QED
            BY <6>1, <6>2, <6>3
        <5> HIDE DEF b
        <5>3. MadeOf(b, s, r)
          BY <5>2 DEF MadeOf
        <5> QED
          BY <5>3 DEF b
      <4> QED
        BY <3>1, <4>1, <4>3, <4>6 DEF DataInv
    <3> QED
      BY <3>3, <3>4
  <2>4. CASE Launch(k)
    <3>1. /\ task[k] = "none" /\ outcome[k] # "value" /\ MadeOf(orderedArgs[k], found[k], request[k])
          /\ UNCHANGED <<found, request>>
          /\ \/ pc'[k] = "wait" /\ task'[k] = "running" /\ UNCHANGED <<orderedArgs, outcome>>
             \/ /\ pc'[k] = "done" /\ UNCHANGED task /\ outcome'[k] = "system_error"
                /\ orderedArgs'[k] = << >>
      BY <2>4, <1>a, <1>b, <1>c DEF Launch, Types, ArgTypes, CallInv, DataInv
    <3> QED
      BY <3>1 DEF DataInv
  <2>5. CASE GetResult(k) \/ Unwind(k)
    <3>1. /\ pc'[k] = "done" /\ UNCHANGED <<found, request, task, value>>
          /\ orderedArgs'[k] = << >>
          /\ outcome'[k] = "value" => task[k] = "value"
      BY <2>5, <1>b, <1>c DEF GetResult, Unwind, Types, ArgTypes
    <3> QED
      BY <3>1, <1>a DEF DataInv
  <2>6. CASE Timeout(k)
    <3>1. /\ pc[k] = "wait" /\ pc'[k] = "unwind"
          /\ UNCHANGED <<found, request, task, value, orderedArgs, outcome>>
      BY <2>6, <1>b DEF Timeout, Types
    <3> QED
      BY <3>1, <1>a DEF DataInv
  <2>7. CASE RunFunction(k)
    <3>1. /\ pc[k] \in {"wait", "unwind"} /\ found[k] \in Signatures
          /\ Len(orderedArgs[k]) = Len(found[k].params)
          /\ MadeOf(orderedArgs[k], found[k], request[k]) /\ outcome[k] # "value"
          /\ UNCHANGED <<pc, found, request, orderedArgs, outcome>>
      BY <2>7, <1>a, <1>b DEF RunFunction, CallInv, DataInv
    <3>2. task'[k] = "value" => value'[k] = orderedArgs[k]
      BY <2>7, <1>a, <1>b DEF RunFunction, Types
    <3> QED
      BY <3>1, <3>2 DEF DataInv
  <2> QED
    BY <2>1, <2>2, <2>3, <2>4, <2>5, <2>6, <2>7 DEF CallStep
<1> QED
  BY <1>1, <1>2, <1>3 DEF ValueInv

\* The arguments a call has collected, and the value its function returned, are the
\* conversions of the arguments of its own request, in the order of registration.
THEOREM ValueInvariant == Spec => []Kept
<1>1. Init => Kept
  BY InitInv, InitEnd, InitValue DEF Kept
<1>2. Kept /\ [Next]_vars => Kept'
  <2> SUFFICES ASSUME Kept, [Next]_vars PROVE Kept'
    OBVIOUS
  <2>1. CASE UNCHANGED vars
    BY <2>1 DEF Kept, Inv, Types, ArgTypes, CallInv, Info, EndInv, FaultInv, EndsRightly, ValueInv,
                DataInv
  <2>2. ASSUME NEW n \in Names, NEW s \in Signatures, Register(n, s) PROVE Kept'
    <3>1. Inv'
      BY <2>2, RegisterKeeps DEF Kept
    <3>2. EndInv' /\ ValueInv'
      BY <2>2 DEF Register, Kept, EndInv, FaultInv, EndsRightly, ValueInv, DataInv
    <3> QED
      BY <3>1, <3>2 DEF Kept
  <2>3. ASSUME NEW k \in Calls, Begin(k) \/ CallStep(k) \/ Timeout(k) \/ RunFunction(k) PROVE Kept'
    <3>1. Inv'
      BY <2>3, CallKeeps DEF Kept
    <3> QED
      BY <2>3, <3>1, EndStep, ValueStep DEF Kept
  <2> QED
    BY <2>1, <2>2, <2>3 DEF Next
<1> QED
  BY <1>1, <1>2, PTL DEF Spec

\* What is made of one argument.
LEMMA ArgumentIs ==
  ASSUME NEW s \in Signatures, NEW r \in Requests, NEW args, MadeOf(args, s, r),
         NEW i \in 1 .. Len(args)
  PROVE  LET p == s.params[i]
         IN /\ AsSent(p.type, r.args[p.name], args[i])
            /\ p.type \in Whole => args[i] \in TypeValues(p.type)
<1> DEFINE p == s.params[i]
           json == r.args[p.name]
<1>1. p.name \in DOMAIN r.args /\ args[i] \in Converted(p.type, json)
  BY DEF MadeOf, Given
<1>2. IF json.kind = "array" THEN /\ Len(json.value) \in Nat
                                  /\ \A e \in 1 .. Len(json.value) : IsNumber(json.value[e])
                             ELSE IsNumber(json)
  BY <1>1, ProviderAssumption
<1> HIDE DEF json, p
<1>3. AsSent(p.type, json, args[i]) /\ (p.type \in Whole => args[i] \in TypeValues(p.type))
  BY <1>1, <1>2, ConvertedIs
<1> QED
  BY <1>3 DEF json, p

\* Every variable has its type: among the rest, what a function registered with an int or a
\* long is given is a value of that type.
THEOREM ProviderTypes == Spec => []TypeOK
<1>1. Kept => TypeOK
  <2> SUFFICES ASSUME Kept PROVE TypeOK
    OBVIOUS
  <2>1. ASSUME NEW k \in Calls, NEW i \in 1 .. Len(orderedArgs[k])
        PROVE  found[k].params[i].type \in Whole =>
                 orderedArgs[k][i] \in TypeValues(found[k].params[i].type)
    <3>1. Types /\ CallInv(k) /\ DataInv(k)
      BY DEF Kept, Inv, ValueInv
    <3>2. pc[k] \in {"convert", "wait", "unwind"}
      <4>1. orderedArgs[k] # << >>
        BY EmptySeq
      <4> QED
        BY <3>1, <4>1 DEF CallInv, DataInv, Types
    <3>3. /\ found[k] \in Signatures /\ request[k] \in Requests
          /\ MadeOf(orderedArgs[k], found[k], request[k])
      BY <3>1, <3>2 DEF CallInv, DataInv
    <3> QED
      BY <3>3, ArgumentIs
  <2>2. Types /\ outcome \in [Calls -> Outcomes]
    BY DEF Kept, Inv, EndInv
  <2> QED
    BY <2>1, <2>2 DEF TypeOK, Types, Outcomes, Whole
<1> QED
  BY <1>1, ValueInvariant, PTL

\* call_function_named hands its function the arguments of the request, each under the
\* parameter of its name and in the order of registration, and returns its value for them.
\* What convert_json_to_any makes of a number within the range of its type is that number,
\* or a value next to it where the type does not have it.
THEOREM ArgumentsReachFunction == Spec => []ArgumentsAsSent
<1>1. Kept => ArgumentsAsSent
  <2> SUFFICES ASSUME Kept, NEW k \in Calls, outcome[k] = "value"
               PROVE  /\ Len(value[k]) = Len(found[k].params)
                      /\ \A i \in 1 .. Len(value[k]) :
                           LET p == found[k].params[i]
                           IN AsSent(p.type, request[k].args[p.name], value[k][i])
    BY DEF ArgumentsAsSent
  <2>1. Types /\ CallInv(k) /\ DataInv(k)
    BY DEF Kept, Inv, ValueInv
  <2>2. /\ pc[k] # "idle" /\ found[k] \in Signatures /\ request[k] \in Requests
        /\ Len(value[k]) = Len(found[k].params) /\ MadeOf(value[k], found[k], request[k])
    BY <2>1 DEF CallInv, DataInv
  <2>3. ASSUME NEW i \in 1 .. Len(value[k])
        PROVE  LET p == found[k].params[i]
               IN AsSent(p.type, request[k].args[p.name], value[k][i])
    BY <2>2, ArgumentIs
  <2> QED
    BY <2>2, <2>3
<1> QED
  BY <1>1, ValueInvariant, PTL
===============================================================================
