------------------------ MODULE StreamProcessorsProofs ------------------------
(***************************************************************************)
(* Proofs about StreamProcessors, for any number of feeders, streams,      *)
(* frames and processors: who may destroy a processor, and when; where     *)
(* each frame is, and in which order the callbacks see them.               *)
(***************************************************************************)
EXTENDS StreamProcessors, SequenceTheorems, TLAPS

\* What the invariant is about.
Types ==
    /\ running \in BOOLEAN /\ removing \subseteq Streams
    /\ map \in [Streams -> Processors \cup {None}] /\ created \in 0 .. MaxProcessors
    /\ streamOf \in [Processors -> Streams \cup {None}]
    /\ active \in [Processors -> BOOLEAN]
    /\ worker \in [Processors -> {"none", "loop", "look", "wait", "woken", "process",
                                  "exited"}]
    /\ feeder \in [Feeders -> {"idle", "find", "add", "release", "join"}]
    /\ holds \in [Feeders -> Processors \cup {None}]
    /\ target \in [Feeders -> Streams \cup {None}]
    /\ \A f \in Feeders : feeder[f] = "find" => target[f] \in Streams

\* stream_processors_mutex_ is held by the cleaner or by stop(), and stop() takes
\* it when the cleaner is gone.
LockInv ==
    /\ cleaner \in {"remove", "join"} <=> mutex = "cleaner"
    /\ main \in {"clear", "join"} <=> mutex = "main"
    /\ running => main = "up"

\* A processor that is active was made, and its worker is at work.
ActiveInv == \A p \in Processors : active[p] => p <= created /\ AtWork(p)

\* The map leads from a stream to a processor of its own. One at most of these is
\* being destroyed, by who holds the mutex.
Doomed(s) == map[s] # None /\ ~active[map[s]]
Ending == cleaner = "join" \/ main = "join"

MapInv ==
    /\ \A s \in Streams : map[s] # None => streamOf[map[s]] = s
    /\ \A s \in Streams : Doomed(s) => Ending
    /\ \A s, t \in Streams : Doomed(s) /\ Doomed(t) => s = t

\* Nobody refers to what the cleaner removes.
CleanInv ==
    cleaner \in {"remove", "join"} =>
        \A s \in removing : map[s] # None /\ OnlyInMap(map[s])

\* What a feeder holds is active, and while the server runs it is in the map.
HoldInv ==
    /\ \A f \in Feeders : feeder[f] \in {"idle", "find"} => holds[f] = None
    /\ \A f \in Feeders : feeder[f] \in {"add", "release"} =>
                            holds[f] # None /\ active[holds[f]]
    /\ \A f \in Feeders : feeder[f] = "join" => holds[f] # None
    /\ running => \A f \in Feeders : holds[f] # None => InMap(holds[f])

\* While the server runs, a worker at work is in the map.
WorkInv == running => \A p \in Processors : AtWork(p) => InMap(p)

Inv == Types /\ LockInv /\ ActiveInv /\ MapInv /\ CleanInv /\ HoldInv /\ WorkInv

USE DEF vars, mapVars, procVars, feederVars, stopVars, cleanerVars, ghosts

\* The mutex keeps the cleaner, stop() and the feeders apart.
LEMMA Exclusion ==
  ASSUME Inv
  PROVE  /\ mutex = "free" => ~Ending
         /\ cleaner = "remove" => ~Ending
         /\ main = "clear" => ~Ending
         /\ ~Ending => \A s \in Streams : ~Doomed(s)
         /\ mutex # "cleaner" => cleaner \notin {"remove", "join"}
BY DEF Inv, LockInv, MapInv, Ending

\* What a worker does, as far as the invariant is concerned.
LEMMA WorkerKeeps ==
  ASSUME Inv, NEW p \in Processors, WorkerStep(p)
  PROVE  Inv'
<1>1. /\ UNCHANGED <<running, main, cleaner, removing, mutex, map, created, streamOf, active,
                     feeder, holds, target>>
      /\ \E to \in {"look", "wait", "woken", "process", "loop"} \cup
                     (IF active[p] THEN {} ELSE {"exited"}) :
            worker' = [worker EXCEPT ![p] = to]
      /\ worker[p] \notin {"none", "exited"}
  BY DEF WorkerStep, WorkerLoop, Look, WaitTimesOut, WakeUp, Process, Take, WorkerGoto,
         NotWorker, AfterCallback
<1>2. Types'
  BY <1>1 DEF Inv, Types
<1>3. \A q \in Processors : /\ AtWork(q)' => AtWork(q)
                            /\ active[q] /\ AtWork(q) => AtWork(q)'
  BY <1>1 DEF Inv, Types, AtWork
<1> QED
  BY <1>1, <1>2, <1>3
     DEF Inv, LockInv, ActiveInv, MapInv, CleanInv, HoldInv, WorkInv, InMap, OnlyInMap,
         Holders, Doomed, Ending

\* The destructor of p begins, in a thread that keeps the others away from p: nobody
\* else refers to p, and if the map does, nothing else in it is being destroyed.
LEMMA DestroyKeeps ==
  ASSUME Inv, NEW p \in Processors, Destroy(p), UNCHANGED <<running, map, removing, mutex>>,
         Types'
  PROVE  /\ ActiveInv' /\ WorkInv'
         /\ \A s \in Streams : map[s] # None => streamOf'[map[s]] = s
         /\ \A s \in Streams : Doomed(s)' => Doomed(s) \/ map[s] = p
         /\ \A q \in Processors : q # p => active'[q] = active[q]
<1>1. /\ active' = [active EXCEPT ![p] = FALSE] /\ UNCHANGED <<created, streamOf>>
      /\ worker' = [worker EXCEPT ![p] = Notified(worker[p])]
  BY DEF Destroy
<1>2. \A q \in Processors : AtWork(q)' <=> AtWork(q)
  BY <1>1 DEF AtWork, Notified, Inv, Types
<1>3. ActiveInv'
  BY <1>1, <1>2 DEF Inv, Types, ActiveInv
<1>4. WorkInv'
  BY <1>1, <1>2 DEF Inv, WorkInv, InMap
<1>5. \A s \in Streams : map[s] # None => map[s] \in Processors
  BY DEF Inv, Types
<1>6. \A s \in Streams : Doomed(s)' => Doomed(s) \/ map[s] = p
  BY <1>1, <1>5 DEF Doomed, Inv, Types
<1> QED
  BY <1>1, <1>3, <1>4, <1>6 DEF Inv, MapInv, Types

\* An entry whose processor ends, or that others refer to, leaves the map.
LEMMA EraseKeeps ==
  ASSUME Inv, NEW s \in Streams, map' = [map EXCEPT ![s] = None],
         UNCHANGED <<running, active, streamOf, created, worker>>,
         running => worker[map[s]] = "exited"
  PROVE  /\ ActiveInv' /\ WorkInv'
         /\ \A t \in Streams : map'[t] # None => t # s /\ map'[t] = map[t]
         /\ \A t \in Streams : map'[t] # None => streamOf'[map'[t]] = t
         /\ \A t \in Streams : Doomed(t)' <=> Doomed(t) /\ t # s
<1>1. \A t \in Streams : map'[t] # None => t # s /\ map'[t] = map[t]
  BY DEF Inv, Types
<1>2. \A t \in Streams : t # s => map'[t] = map[t]
  BY DEF Inv, Types
<1>3. \A q \in Processors : AtWork(q)' <=> AtWork(q)
  BY DEF AtWork
<1>4. ActiveInv'
  BY <1>3 DEF Inv, ActiveInv
<1>5. \A t \in Streams : map'[t] # None => streamOf'[map'[t]] = t
  BY <1>1 DEF Inv, MapInv
<1>6. \A t \in Streams : Doomed(t)' <=> Doomed(t) /\ t # s
  BY <1>1, <1>2 DEF Doomed, Inv, Types
<1>7. WorkInv'
  BY <1>2, <1>3 DEF Inv, WorkInv, InMap, AtWork
<1> QED
  BY <1>1, <1>4, <1>5, <1>6, <1>7

-------------------------------------------------------------------------------
(* The cleaner                                                             *)

LEMMA CleanerKeeps ==
  ASSUME Inv, CleanerStep
  PROVE  Inv'
<1>1. CASE CleanerWakes
  BY <1>1, Exclusion
     DEF CleanerWakes, Inv, Types, LockInv, ActiveInv, AtWork, MapInv, CleanInv, HoldInv,
         WorkInv, InMap, OnlyInMap, Holders, Doomed, Ending
<1>2. CASE CleanerDone
  BY <1>2, Exclusion
     DEF CleanerDone, Inv, Types, LockInv, ActiveInv, AtWork, MapInv, CleanInv, HoldInv,
         WorkInv, InMap, OnlyInMap, Holders, Doomed, Ending
<1>3. ASSUME NEW s \in Streams, RemoveStream(s) PROVE Inv'
  <2>1. /\ cleaner = "remove" /\ cleaner' = "join" /\ s \in removing /\ Destroy(map[s])
        /\ UNCHANGED <<running, main, removing, mutex, map, feeder, holds, target>>
    BY <1>3 DEF RemoveStream
  <2>2. map[s] \in Processors /\ Holders(map[s]) = {} /\ streamOf[map[s]] = s
    BY <2>1 DEF Inv, Types, CleanInv, OnlyInMap, MapInv
  <2>3. Types'
    BY <2>1, <2>2 DEF Inv, Types, Destroy, Notified
  <2>4. /\ ActiveInv' /\ WorkInv'
        /\ \A t \in Streams : map[t] # None => streamOf'[map[t]] = t
        /\ \A t \in Streams : Doomed(t)' => Doomed(t) \/ map[t] = map[s]
        /\ \A q \in Processors : q # map[s] => active'[q] = active[q]
    BY <2>1, <2>2, <2>3, DestroyKeeps
  <2>5. \A t \in Streams : Doomed(t)' => t = s
    BY <2>1, <2>2, <2>4, Exclusion DEF Inv, Types, MapInv, Doomed
  <2>6. MapInv'
    BY <2>1, <2>4, <2>5 DEF MapInv, Ending
  <2>7. LockInv' /\ CleanInv'
    BY <2>1 DEF Inv, LockInv, CleanInv, OnlyInMap, Holders
  <2>8. HoldInv'
    <3>1. \A f \in Feeders : holds[f] # map[s]
      BY <2>2 DEF Holders
    <3> QED
      BY <2>1, <2>4, <3>1 DEF Inv, Types, HoldInv, InMap
  <2> QED
    BY <2>3, <2>4, <2>6, <2>7, <2>8 DEF Inv
<1>4. ASSUME NEW s \in Streams, CleanerJoins(s) PROVE Inv'
  <2>1. /\ cleaner = "join" /\ cleaner' = "remove" /\ s \in removing /\ ~active[map[s]]
        /\ removing' = removing \ {s} /\ map' = [map EXCEPT ![s] = None]
        /\ worker[map[s]] = "exited"
        /\ UNCHANGED <<running, main, mutex, created, streamOf, active, worker, feeder,
                       holds, target>>
    BY <1>4 DEF CleanerJoins, Joined, WorkerEnded
  <2>2. Doomed(s) /\ Holders(map[s]) = {}
    BY <2>1 DEF Inv, CleanInv, OnlyInMap, Doomed
  <2>3. Types'
    BY <2>1 DEF Inv, Types
  <2>4. /\ ActiveInv' /\ WorkInv'
        /\ \A t \in Streams : map'[t] # None => t # s /\ map'[t] = map[t]
        /\ \A t \in Streams : map'[t] # None => streamOf'[map'[t]] = t
        /\ \A t \in Streams : Doomed(t)' <=> Doomed(t) /\ t # s
    BY <2>1, EraseKeeps
  <2>5. MapInv'
    BY <2>2, <2>4 DEF Inv, MapInv
  <2>6. LockInv'
    BY <2>1 DEF Inv, LockInv
  <2>7. CleanInv'
    BY <2>1 DEF Inv, Types, CleanInv, OnlyInMap, Holders
  <2>8. HoldInv'
    <3>1. \A f \in Feeders : holds[f] # map[s]
      BY <2>2 DEF Holders
    <3>2. \A f \in Feeders : InMap(holds[f]) => InMap(holds[f])'
      BY <2>1, <3>1 DEF InMap, Inv, Types
    <3> QED
      BY <2>1, <3>2 DEF Inv, HoldInv
  <2> QED
    BY <2>3, <2>4, <2>5, <2>6, <2>7, <2>8 DEF Inv
<1> QED
  BY <1>1, <1>2, <1>3, <1>4 DEF CleanerStep

-------------------------------------------------------------------------------
(* stop()                                                                  *)

LEMMA StopKeeps ==
  ASSUME Inv, BeginStop \/ StopStep
  PROVE  Inv'
<1>1. CASE BeginStop \/ JoinCleaner \/ Cleared \/ ClearClients
  <2>1. /\ UNCHANGED <<cleaner, removing, map, created, streamOf, active, worker, feeder,
                       holds, target>>
        /\ UNCHANGED running \/ running' = FALSE
    BY <1>1 DEF BeginStop, JoinCleaner, Cleared, ClearClients
  <2>2. LockInv'
    BY <1>1 DEF BeginStop, JoinCleaner, Cleared, ClearClients, MainGoto, Inv, LockInv
  <2>3. Ending => Ending'
    BY <1>1 DEF BeginStop, JoinCleaner, Cleared, ClearClients, MainGoto, Ending
  <2>4. Types' /\ ActiveInv'
    BY <2>1 DEF Inv, Types, ActiveInv, AtWork
  <2>5. MapInv' /\ CleanInv'
    BY <2>1, <2>3 DEF Inv, MapInv, CleanInv, Doomed, OnlyInMap, Holders
  <2>6. HoldInv' /\ WorkInv'
    BY <2>1 DEF Inv, HoldInv, WorkInv, InMap, AtWork
  <2> QED
    BY <2>2, <2>4, <2>5, <2>6 DEF Inv
<1>2. ASSUME NEW s \in Streams, ClearOne(s) PROVE Inv'
  <2>1. /\ map[s] \in Processors /\ main \in {"clear", "join"} /\ ~running
        /\ cleaner \notin {"remove", "join"} /\ streamOf[map[s]] = s
        /\ UNCHANGED <<running, cleaner, removing, mutex, feeder, holds, target>>
    BY <1>2 DEF ClearOne, MainGoto, Inv, Types, LockInv, MapInv
  <2>2. CASE /\ OnlyInMap(map[s]) /\ MainGoto("clear", "join") /\ Destroy(map[s])
             /\ UNCHANGED map
    <3>1. Types'
      BY <2>1, <2>2 DEF Inv, Types, Destroy, Notified
    <3>2. /\ ActiveInv' /\ WorkInv'
          /\ \A t \in Streams : map[t] # None => streamOf'[map[t]] = t
          /\ \A t \in Streams : Doomed(t)' => Doomed(t) \/ map[t] = map[s]
          /\ \A q \in Processors : q # map[s] => active'[q] = active[q]
      BY <2>1, <2>2, <3>1, DestroyKeeps
    <3>3. \A t \in Streams : Doomed(t)' => t = s
      BY <2>1, <2>2, <3>2, Exclusion DEF Inv, Types, MapInv, Doomed, MainGoto
    <3>4. MapInv' /\ LockInv' /\ CleanInv'
      BY <2>1, <2>2, <3>2, <3>3 DEF MapInv, Ending, MainGoto, Inv, LockInv, CleanInv
    <3>5. HoldInv'
      BY <2>1, <2>2, <3>2 DEF Inv, Types, HoldInv, OnlyInMap, Holders
    <3> QED
      BY <3>1, <3>2, <3>4, <3>5 DEF Inv
  <2>3. CASE /\ map' = [map EXCEPT ![s] = None] /\ UNCHANGED <<active, streamOf, created, worker>>
             /\ \/ main = "join" /\ main' = "clear" /\ Doomed(s)
                \/ main = "clear" /\ main' = "clear"
    <3>1. Types'
      BY <2>1, <2>3 DEF Inv, Types
    <3>2. /\ ActiveInv' /\ WorkInv'
          /\ \A t \in Streams : map'[t] # None => t # s /\ map'[t] = map[t]
          /\ \A t \in Streams : map'[t] # None => streamOf'[map'[t]] = t
          /\ \A t \in Streams : Doomed(t)' <=> Doomed(t) /\ t # s
      BY <2>1, <2>3, EraseKeeps
    <3>3. \A t \in Streams : ~Doomed(t)'
      BY <2>3, <3>2, Exclusion DEF Inv, MapInv
    <3>4. MapInv' /\ LockInv' /\ CleanInv'
      BY <2>1, <2>3, <3>2, <3>3 DEF MapInv, Inv, LockInv, CleanInv
    <3>5. HoldInv'
      BY <2>1, <2>3 DEF Inv, HoldInv
    <3> QED
      BY <3>1, <3>2, <3>4, <3>5 DEF Inv
  <2>4. map[s] # None
    BY <1>2 DEF ClearOne
  <2> QED
    BY <1>2, <2>2, <2>3, <2>4 DEF ClearOne, MainGoto, Joined, Doomed
<1> QED
  BY <1>1, <1>2 DEF StopStep

-------------------------------------------------------------------------------
(* The feeders                                                             *)

\* Steps of f that touch neither the map nor a processor.
LEMMA BeginKeeps ==
  ASSUME Inv, NEW f \in Feeders, NEW s \in Streams, Begin(f, s)
  PROVE  Inv'
<1>1. /\ feeder[f] = "idle" /\ feeder' = [feeder EXCEPT ![f] = "find"]
      /\ target' = [target EXCEPT ![f] = s]
      /\ UNCHANGED <<running, main, cleaner, removing, mutex, map, created, streamOf, active,
                     worker, holds>>
  BY DEF Begin, FeederGoto, NotFeeder
<1>2. Types'
  BY <1>1 DEF Inv, Types
<1>3. HoldInv'
  BY <1>1 DEF Inv, Types, HoldInv, InMap
<1> QED
  BY <1>1, <1>2, <1>3
     DEF Inv, LockInv, ActiveInv, MapInv, CleanInv, WorkInv, InMap, OnlyInMap, Holders,
         AtWork, Doomed, Ending

LEMMA FindKeeps ==
  ASSUME Inv, NEW f \in Feeders, Find(f)
  PROVE  Inv'
<1> DEFINE s == target[f]
<1>1. /\ feeder[f] = "find" /\ feeder' = [feeder EXCEPT ![f] = "add"] /\ mutex = "free"
      /\ UNCHANGED <<running, main, cleaner, removing, mutex, target>> /\ s \in Streams
  BY DEF Find, FeederGoto, NotFeeder, Inv, Types
<1>2. /\ ~Ending /\ cleaner \notin {"remove", "join"}
      /\ \A t \in Streams : ~Doomed(t)
  BY <1>1, Exclusion
<1>3. LockInv' /\ CleanInv'
  BY <1>1, <1>2 DEF Inv, LockInv, CleanInv
<1>4. CASE /\ map[s] # None /\ holds' = [holds EXCEPT ![f] = map[s]]
           /\ UNCHANGED <<map, procVars>>
  <2>1. map[s] \in Processors /\ active[map[s]]
    BY <1>1, <1>2, <1>4 DEF Inv, Types, Doomed
  <2>2. Types' /\ ActiveInv' /\ WorkInv'
    BY <1>1, <1>4, <2>1 DEF Inv, Types, ActiveInv, WorkInv, InMap, AtWork
  <2>3. MapInv'
    BY <1>2, <1>4 DEF Inv, MapInv, Doomed
  <2>4. HoldInv'
    <3>1. \A g \in Feeders : /\ g # f => holds'[g] = holds[g] /\ feeder'[g] = feeder[g]
                             /\ g = f => holds'[g] = map[s] /\ feeder'[g] = "add"
      BY <1>1, <1>4 DEF Inv, Types
    <3>2. map[s] # None /\ active'[map[s]] /\ InMap(map[s])' /\ UNCHANGED <<map, active>>
      BY <1>1, <1>4, <2>1 DEF InMap
    <3> QED
      BY <1>1, <3>1, <3>2 DEF Inv, HoldInv, InMap
  <2> QED
    BY <1>3, <2>2, <2>3, <2>4 DEF Inv
<1>5. CASE /\ map[s] = None /\ created < MaxProcessors /\ created' = created + 1
           /\ streamOf' = [streamOf EXCEPT ![created + 1] = s]
           /\ active' = [active EXCEPT ![created + 1] = TRUE]
           /\ worker' = [worker EXCEPT ![created + 1] = "loop"]
           /\ map' = [map EXCEPT ![s] = created + 1]
           /\ holds' = [holds EXCEPT ![f] = created + 1]
  <2> DEFINE n == created + 1
  <2>1. n \in Processors /\ n # None /\ created \in Int /\ \A p \in Processors : p \in Int
    BY <1>5, ProcessorAssumption DEF Processors, Inv, Types
  <2>2. /\ \A t \in Streams : t # s => map'[t] = map[t]
        /\ map'[s] = n
        /\ \A p \in Processors : p # n => /\ active'[p] = active[p] /\ worker'[p] = worker[p]
                                          /\ streamOf'[p] = streamOf[p]
        /\ active'[n] /\ worker'[n] = "loop" /\ streamOf'[n] = s
        /\ \A g \in Feeders : /\ g # f => holds'[g] = holds[g] /\ feeder'[g] = feeder[g]
                              /\ g = f => holds'[g] = n /\ feeder'[g] = "add"
    BY <1>1, <1>5, <2>1 DEF Inv, Types
  <2>3. ~active[n]
    BY <2>1 DEF Inv, ActiveInv
  <2>4. \A t \in Streams : map[t] # None => map[t] \in Processors /\ map[t] # n
    <3>1. \A t \in Streams : map[t] # None => map[t] \in Processors /\ active[map[t]]
      BY <1>2 DEF Inv, Types, Doomed
    <3> QED
      BY <2>3, <3>1
  <2>5. Types'
    BY <1>1, <1>5, <2>1, ProcessorAssumption DEF Inv, Types
  <2>6. ActiveInv'
    BY <1>5, <2>1, <2>2 DEF Inv, ActiveInv, AtWork
  <2>7. MapInv'
    <3>1. \A t \in Streams : ~Doomed(t)'
      BY <1>1, <1>2, <2>2, <2>4 DEF Doomed
    <3>2. \A t \in Streams : map'[t] # None => streamOf'[map'[t]] = t
      BY <1>1, <2>2, <2>4 DEF Inv, MapInv
    <3> QED
      BY <3>1, <3>2 DEF MapInv
  <2>8. \A p : InMap(p) => InMap(p)' \/ p = None
    BY <1>5, <2>2 DEF InMap
  <2>9. \A p : p = n => InMap(p)'
    BY <1>1, <2>2 DEF InMap
  <2>10. HoldInv'
    <3>1. \A p \in Processors : active[p] => active'[p]
      BY <2>2
    <3>2. \A g \in Feeders : holds[g] # None => holds[g] \in Processors
      BY DEF Inv, Types
    <3> QED
      BY <1>1, <2>1, <2>2, <2>8, <2>9, <3>1, <3>2 DEF Inv, HoldInv
  <2>11. WorkInv'
    <3>1. \A p \in Processors : AtWork(p)' => AtWork(p) \/ p = n
      BY <2>2 DEF AtWork
    <3>2. \A p \in Processors : p # None
      BY ProcessorAssumption DEF Processors
    <3> QED
      BY <1>1, <2>8, <2>9, <3>1, <3>2 DEF Inv, WorkInv
  <2> QED
    BY <1>3, <2>5, <2>6, <2>7, <2>10, <2>11 DEF Inv
<1> QED
  BY <1>4, <1>5 DEF Find

LEMMA AddKeeps ==
  ASSUME Inv, NEW f \in Feeders, Add(f)
  PROVE  Inv'
<1>1. /\ feeder[f] = "add" /\ feeder' = [feeder EXCEPT ![f] = "release"]
      /\ worker' = [worker EXCEPT ![holds[f]] = Notified(@)] /\ holds[f] \in Processors
      /\ UNCHANGED <<running, main, cleaner, removing, mutex, map, created, streamOf, active,
                     holds, target>>
  BY DEF Add, FeederGoto, NotFeeder, Inv, Types, HoldInv
<1>2. Types'
  BY <1>1 DEF Inv, Types, Notified
<1>3. \A q \in Processors : AtWork(q)' <=> AtWork(q)
  BY <1>1 DEF Inv, Types, AtWork, Notified
<1>4. HoldInv'
  BY <1>1 DEF Inv, Types, HoldInv, InMap
<1> QED
  BY <1>1, <1>2, <1>3, <1>4
     DEF Inv, LockInv, ActiveInv, MapInv, CleanInv, WorkInv, InMap, OnlyInMap, Holders,
         Doomed, Ending

\* f lets go of its processor, before or after it has joined its worker.
LEMMA LetGoKeeps ==
  ASSUME Inv, NEW f \in Feeders, feeder' = [feeder EXCEPT ![f] = "idle"],
         holds' = [holds EXCEPT ![f] = None],
         UNCHANGED <<running, main, cleaner, removing, mutex, map, created, streamOf, active,
                     worker, target>>
  PROVE  Inv'
<1>1. Types'
  BY DEF Inv, Types
<1>2. HoldInv'
  BY DEF Inv, Types, HoldInv, InMap
<1>3. CleanInv'
  <2>1. \A p : p # None /\ Holders(p) = {} => Holders(p)' = {}
    BY DEF Inv, Types, Holders
  <2> QED
    BY <2>1 DEF Inv, CleanInv, OnlyInMap
<1> QED
  BY <1>1, <1>2, <1>3 DEF Inv, LockInv, ActiveInv, MapInv, WorkInv, InMap, AtWork, Doomed, Ending

LEMMA ReleaseKeeps ==
  ASSUME Inv, NEW f \in Feeders, Release(f)
  PROVE  Inv'
<1>1. CASE ~LastHolder(f)
  BY <1>1, LetGoKeeps DEF Release, FeederGoto, NotFeeder
<1>2. CASE LastHolder(f)
  <2> DEFINE p == holds[f]
  <2>1. /\ feeder[f] = "release" /\ feeder' = [feeder EXCEPT ![f] = "join"] /\ Destroy(p)
        /\ ~InMap(p) /\ Holders(p) = {f}
        /\ UNCHANGED <<running, main, cleaner, removing, mutex, map, holds, target>>
    BY <1>2 DEF Release, FeederGoto, NotFeeder, LastHolder
  <2>2. p \in Processors /\ p # None /\ ~running
    BY <2>1 DEF Inv, Types, HoldInv
  <2>3. Types'
    BY <2>1, <2>2 DEF Inv, Types, Destroy, Notified
  <2>4. /\ ActiveInv' /\ WorkInv'
        /\ \A t \in Streams : map[t] # None => streamOf'[map[t]] = t
        /\ \A t \in Streams : Doomed(t)' => Doomed(t) \/ map[t] = p
        /\ \A q \in Processors : q # p => active'[q] = active[q]
    BY <2>1, <2>2, <2>3, DestroyKeeps
  <2>5. \A t \in Streams : Doomed(t)' => Doomed(t)
    BY <2>1, <2>4 DEF InMap
  <2>6. MapInv' /\ LockInv'
    BY <2>1, <2>4, <2>5 DEF Inv, MapInv, LockInv, Ending
  <2>7. CleanInv'
    BY <2>1 DEF Inv, CleanInv, OnlyInMap, Holders
  <2>8. HoldInv'
    <3>1. \A g \in Feeders : g # f => holds[g] # p
      BY <2>1 DEF Holders
    <3> QED
      BY <2>1, <2>2, <2>4, <3>1 DEF Inv, Types, HoldInv
  <2> QED
    BY <2>3, <2>4, <2>6, <2>7, <2>8 DEF Inv
<1> QED
  BY <1>1, <1>2

LEMMA FeederKeeps ==
  ASSUME Inv, NEW f \in Feeders, FeederStep(f)
  PROVE  Inv'
<1>1. CASE FeederJoins(f)
  BY <1>1, LetGoKeeps DEF FeederJoins, FeederGoto, NotFeeder, Joined
<1> QED
  BY <1>1, FindKeeps, AddKeeps, ReleaseKeeps DEF FeederStep

-------------------------------------------------------------------------------
(* The theorems                                                            *)

LEMMA InitInv ==
  ASSUME Init
  PROVE  Inv
BY ProcessorAssumption
   DEF Init, Inv, Types, LockInv, ActiveInv, MapInv, CleanInv, HoldInv, WorkInv, AtWork,
       Doomed, Ending, InMap

LEMMA StepInv ==
  ASSUME Inv, [Next]_vars
  PROVE  Inv'
<1>1. CASE UNCHANGED vars
  BY <1>1
     DEF Inv, Types, LockInv, ActiveInv, MapInv, CleanInv, HoldInv, WorkInv, AtWork,
         Doomed, Ending, InMap, OnlyInMap, Holders
<1> QED
  BY <1>1, StopKeeps, CleanerKeeps, FeederKeeps, BeginKeeps, WorkerKeeps DEF Next

\* Who holds stream_processors_mutex_, and which processors may be destroyed meanwhile.
THEOREM ProcessorInvariant == Spec => []Inv
<1>1. Init => Inv
  BY InitInv
<1>2. Inv /\ [Next]_vars => Inv'
  BY StepInv
<1> QED
  BY <1>1, <1>2, PTL DEF Spec

\* processIncomingData adds frames to live processors only: no use_count() the cleaner has
\* seen, and no clear() of stop(), takes one away from the feeder that has found it.
THEOREM HeldStaysActive == Spec => []HeldIsActive
<1>1. Inv => HeldIsActive
  BY DEF Inv, Types, ActiveInv, HoldInv, HeldIsActive
<1> QED
  BY <1>1, ProcessorInvariant, PTL

\* Two workers never share a stream while the server runs.
THEOREM OneWorker == Spec => []OneWorkerPerStream
<1>1. Inv => OneWorkerPerStream
  BY ProcessorAssumption DEF Inv, WorkInv, InMap, MapInv, Processors, OneWorkerPerStream
<1> QED
  BY <1>1, ProcessorInvariant, PTL

-------------------------------------------------------------------------------
(* Where the frames are.                                                   *)

\* The frames that wait at p, those given to the callbacks, and those added so far.
Waiting(p) == {x \in Frames : Queued(x, p)}
Done == {x \in Frames : Handled(x)}
SoFar == {x \in Frames : x[2] \in Added(x[1])}

\* Each frame that was added is in one place.
PlaceInv ==
    /\ \A p, q \in Processors : p # q => Waiting(p) \cap Waiting(q) = {}
    /\ \A p \in Processors : Waiting(p) \cap (Done \cup dropped) = {}
    /\ Done \cap dropped = {}
    /\ \A x \in SoFar : (\E p \in Processors : x \in Waiting(p)) \/ x \in Done \cup dropped
    /\ Done \cup dropped \subseteq SoFar /\ \A p \in Processors : Waiting(p) \subseteq SoFar

\* A processor is made as it was at first, in the order of its number.
NewInv ==
    /\ \A p \in Processors : p > created =>
          worker[p] = "none" /\ queue[p] = << >> /\ frame[p] = None
    /\ \A p \in Processors : p <= created => streamOf[p] \in Streams
    /\ \A f \in Feeders : feeder[f] # "idle" => fed[f] > 0

\* The order of one feeder's frames.
Before(x, y) == x[1] = y[1] => x[2] < y[2]
Sorted(q) == \A i, j \in 1 .. Len(q) : i < j => Before(q[i], q[j])
AllBefore(q, x) == \A i \in 1 .. Len(q) : Before(q[i], x)

\* They stand in this order in a queue, behind what its worker holds; and while the server
\* runs, behind what has been handled of their stream, since what waits is in the map.
QueueInv ==
    \A p \in Processors : /\ Sorted(queue[p])
                          /\ frame[p] # None => \A x \in ToSet(queue[p]) : Before(frame[p], x)
OrderInv ==
    running => /\ \A p \in Processors : Waiting(p) # {} => InMap(p)
               /\ \A s \in Streams : Sorted(handled[s])
               /\ \A p \in Processors : \A x \in Waiting(p) : AllBefore(handled[streamOf[p]], x)

FrameInv == Inv /\ TypeOK /\ NewInv /\ PlaceInv /\ QueueInv /\ OrderInv

\* What a sequence holds.
LEMMA ToSetAppend ==
  ASSUME NEW S, NEW q \in Seq(S), NEW x \in S
  PROVE  ToSet(Append(q, x)) = ToSet(q) \cup {x} /\ Append(q, x) \in Seq(S)
<1> DEFINE r == Append(q, x)
<1>1. /\ r \in Seq(S) /\ Len(q) \in Nat /\ Len(r) = Len(q) + 1 /\ r[Len(q) + 1] = x
      /\ \A i \in 1 .. Len(q) : r[i] = q[i]
      /\ DOMAIN q = 1 .. Len(q) /\ DOMAIN r = 1 .. Len(r)
  BY AppendProperties, LenProperties
<1> HIDE DEF r
<1>2. ASSUME NEW y \in ToSet(r) PROVE y \in ToSet(q) \cup {x}
  <2>1. PICK i \in 1 .. Len(r) : r[i] = y
    BY <1>1, <1>2 DEF ToSet
  <2>2. i \in 1 .. Len(q) \/ i = Len(q) + 1
    BY <1>1, <2>1
  <2> QED BY <1>1, <2>1, <2>2 DEF ToSet
<1>3. ASSUME NEW y \in ToSet(q) \cup {x} PROVE y \in ToSet(r)
  <2>1. CASE y = x
    <3>1. Len(q) + 1 \in DOMAIN r
      BY <1>1
    <3> QED BY <1>1, <2>1, <3>1 DEF ToSet
  <2>2. CASE y \in ToSet(q)
    <3>1. PICK i \in 1 .. Len(q) : q[i] = y
      BY <1>1, <2>2 DEF ToSet
    <3>2. i \in DOMAIN r
      BY <1>1
    <3> QED BY <1>1, <3>1, <3>2 DEF ToSet
  <2> QED BY <1>3, <2>1, <2>2
<1> QED
  BY <1>1, <1>2, <1>3 DEF r

LEMMA ToSetHead ==
  ASSUME NEW S, NEW q \in Seq(S), q # << >>
  PROVE  /\ ToSet(q) = {Head(q)} \cup ToSet(Tail(q)) /\ Head(q) \in S /\ Tail(q) \in Seq(S)
         /\ Len(q) \in Nat \ {0} /\ Head(q) = q[1] /\ Len(Tail(q)) = Len(q) - 1
         /\ \A i \in 1 .. Len(q) - 1 : Tail(q)[i] = q[i + 1]
<1> DEFINE t == Tail(q)
<1>1. /\ t \in Seq(S) /\ Len(q) \in Nat \ {0} /\ Len(t) = Len(q) - 1 /\ Head(q) = q[1]
      /\ \A i \in 1 .. Len(t) : t[i] = q[i + 1]
      /\ Head(q) \in S
      /\ DOMAIN q = 1 .. Len(q) /\ DOMAIN t = 1 .. Len(t)
  BY HeadTailProperties, LenProperties, EmptySeq
<1> HIDE DEF t
<1>2. ASSUME NEW y \in ToSet(q) PROVE y \in {Head(q)} \cup ToSet(t)
  <2>1. PICK i \in 1 .. Len(q) : q[i] = y
    BY <1>1, <1>2 DEF ToSet
  <2>2. i = 1 \/ (i - 1 \in 1 .. Len(t) /\ (i - 1) + 1 = i)
    BY <1>1, <2>1
  <2>3. CASE i - 1 \in 1 .. Len(t) /\ (i - 1) + 1 = i
    <3>1. t[i - 1] = y /\ i - 1 \in DOMAIN t
      BY <1>1, <2>1, <2>3
    <3> QED BY <3>1 DEF ToSet
  <2> QED BY <1>1, <2>1, <2>2, <2>3
<1>3. ASSUME NEW y \in {Head(q)} \cup ToSet(t) PROVE y \in ToSet(q)
  <2>1. CASE y = Head(q)
    <3>1. 1 \in DOMAIN q /\ q[1] = y
      BY <1>1, <2>1
    <3> QED BY <3>1 DEF ToSet
  <2>2. CASE y \in ToSet(t)
    <3>1. PICK i \in 1 .. Len(t) : t[i] = y
      BY <1>1, <2>2 DEF ToSet
    <3>2. i + 1 \in DOMAIN q /\ q[i + 1] = y
      BY <1>1, <3>1
    <3> QED BY <3>2 DEF ToSet
  <2> QED BY <1>3, <2>1, <2>2
<1> QED
  BY <1>1, <1>2, <1>3 DEF t

LEMMA ToSetEmpty == ToSet(<< >>) = {} /\ \A S : \A q \in Seq(S) : ToSet(q) \subseteq S
<1>1. ASSUME NEW S, NEW q \in Seq(S), NEW y \in ToSet(q) PROVE y \in S
  <2>1. PICK i \in DOMAIN q : q[i] = y
    BY <1>1 DEF ToSet
  <2> QED BY <2>1, ElementOfSeq, LenProperties
<1>2. DOMAIN << >> = {}
  OBVIOUS
<1>3. ToSet(<< >>) = {}
  BY <1>2 DEF ToSet
<1> QED
  BY <1>1, <1>3

\* A frame behind, and the frame in front.
LEMMA SortedAppend ==
  ASSUME NEW q \in Seq(Frames), NEW x \in Frames, Sorted(q), AllBefore(q, x)
  PROVE  Sorted(Append(q, x))
<1> DEFINE r == Append(q, x)
<1>1. /\ Len(q) \in Nat /\ Len(r) = Len(q) + 1 /\ r[Len(q) + 1] = x
      /\ \A i \in 1 .. Len(q) : r[i] = q[i]
  BY AppendProperties, LenProperties
<1> HIDE DEF r
<1>2. ASSUME NEW i \in 1 .. Len(r), NEW j \in 1 .. Len(r), i < j PROVE Before(r[i], r[j])
  <2>1. i \in 1 .. Len(q) /\ (j \in 1 .. Len(q) \/ j = Len(q) + 1)
    BY <1>1, <1>2
  <2> QED BY <1>1, <1>2, <2>1 DEF Sorted, AllBefore
<1> QED
  BY <1>2 DEF r, Sorted

\* The rest is in order, behind the frame in front.
LEMMA SortedTail ==
  ASSUME NEW q \in Seq(Frames), q # << >>, Sorted(q)
  PROVE  Sorted(Tail(q)) /\ \A x \in ToSet(Tail(q)) : Before(Head(q), x)
<1> DEFINE t == Tail(q)
<1>1. /\ Len(q) \in Nat \ {0} /\ Head(q) = q[1] /\ Len(t) = Len(q) - 1 /\ t \in Seq(Frames)
      /\ \A i \in 1 .. Len(q) - 1 : t[i] = q[i + 1]
  BY ToSetHead
<1>2. DOMAIN t = 1 .. Len(t)
  BY <1>1, LenProperties
<1> HIDE DEF t
<1>3. ASSUME NEW i \in 1 .. Len(t), NEW j \in 1 .. Len(t), i < j PROVE Before(t[i], t[j])
  <2>1. i + 1 \in 1 .. Len(q) /\ j + 1 \in 1 .. Len(q) /\ i + 1 < j + 1
        /\ t[i] = q[i + 1] /\ t[j] = q[j + 1]
    BY <1>1, <1>3
  <2> QED BY <2>1 DEF Sorted
<1>4. ASSUME NEW x \in ToSet(t) PROVE Before(Head(q), x)
  <2>1. PICK i \in 1 .. Len(t) : t[i] = x
    BY <1>2, <1>4 DEF ToSet
  <2>2. i + 1 \in 1 .. Len(q) /\ 1 \in 1 .. Len(q) /\ 1 < i + 1 /\ x = q[i + 1]
    BY <1>1, <2>1
  <2> QED BY <1>1, <2>2 DEF Sorted
<1> QED
  BY <1>3, <1>4 DEF t, Sorted

-------------------------------------------------------------------------------
(* The types.                                                              *)

\* The marker is neither a processor nor a frame.
LEMMA NoneIsApart == None \notin Processors /\ None \notin Frames
BY ProcessorAssumption DEF Processors, Frames

\* The types, with what they need to hold.
TypeInv == Inv /\ TypeOK /\ NewInv

\* The types after the step of a worker ...
LEMMA WorkerTypes ==
  ASSUME TypeInv, NEW p \in Processors, WorkerStep(p)
  PROVE  TypeOK' /\ NewInv'
<1> USE DEF TypeInv
<1>1. p <= created /\ streamOf[p] \in Streams /\ queue[p] \in Seq(Frames)
  <2>1. worker[p] # "none"
    BY DEF WorkerStep, WorkerLoop, Look, WaitTimesOut, WakeUp, Process, Take, WorkerGoto
  <2>2. p \in Nat /\ created \in Nat
    BY ProcessorAssumption DEF Processors, TypeOK
  <2> QED BY <2>1, <2>2 DEF NewInv, TypeOK
<1>2. ASSUME NEW from \in {"look", "woken"}, Take(p, from) PROVE TypeOK' /\ NewInv'
  <2>1. /\ queue[p] # << >> /\ worker[p] = from /\ worker' = [worker EXCEPT ![p] = "process"]
        /\ frame' = [frame EXCEPT ![p] = Head(queue[p])]
        /\ queue' = [queue EXCEPT ![p] = Tail(queue[p])]
        /\ UNCHANGED <<handled, NotWorker>>
    BY <1>2 DEF Take, WorkerGoto, Oldest
  <2>2. Head(queue[p]) \in Frames /\ Tail(queue[p]) \in Seq(Frames) /\ Head(queue[p]) # None
    BY <1>1, <2>1, ToSetHead, NoneIsApart
  <2>3. TypeOK'
    BY <2>1, <2>2 DEF TypeOK, NotWorker
  <2>4. NewInv'
    BY <1>1, <2>1 DEF NewInv, NotWorker, TypeOK
  <2> QED BY <2>3, <2>4
<1>3. CASE WorkerLoop(p) \/ WaitTimesOut(p)
           \/ (queue[p] = << >> /\ UNCHANGED <<queue, frame, handled, NotWorker>>
               /\ (WorkerGoto(p, "look", "wait") \/ WorkerGoto(p, "woken", "loop")))
  <2>1. /\ worker[p] \notin {"none", "process"} /\ UNCHANGED <<queue, frame, handled, NotWorker>>
        /\ \E to \in {"look", "exited", "woken", "wait", "loop"} :
             worker' = [worker EXCEPT ![p] = to]
    BY <1>3 DEF WorkerLoop, WaitTimesOut, WorkerGoto
  <2>2. TypeOK'
    BY <2>1 DEF TypeOK, NotWorker
  <2>3. NewInv'
    BY <1>1, <2>1 DEF NewInv, NotWorker, TypeOK
  <2> QED BY <2>2, <2>3
<1>4. CASE Process(p)
  <2>1. /\ worker[p] = "process" /\ worker' = [worker EXCEPT ![p] = "loop"]
        /\ handled' = [handled EXCEPT ![streamOf[p]] = Append(handled[streamOf[p]], frame[p])]
        /\ frame' = [frame EXCEPT ![p] = None]
        /\ UNCHANGED <<queue, NotWorker>>
    BY <1>4 DEF Process, WorkerGoto, AfterCallback
  <2>2. frame[p] \in Frames /\ handled[streamOf[p]] \in Seq(Frames)
    BY <1>1, <2>1 DEF TypeOK
  <2>3. Append(handled[streamOf[p]], frame[p]) \in Seq(Frames)
    BY <2>2, AppendProperties
  <2>4. TypeOK'
    BY <1>1, <2>1, <2>3 DEF TypeOK, NotWorker
  <2>5. NewInv'
    BY <1>1, <2>1 DEF NewInv, NotWorker, TypeOK
  <2> QED BY <2>4, <2>5
<1> QED
  BY <1>2, <1>3, <1>4 DEF WorkerStep, Look, WakeUp

\* The destructor, before and after its join.
LEMMA DestroyTypes ==
  ASSUME TypeInv, NEW p \in Processors, Destroy(p)
  PROVE  /\ active' \in [Processors -> BOOLEAN]
         /\ worker' \in [Processors -> {"none", "loop", "look", "wait", "woken", "process",
                                        "exited"}]
         /\ \A q \in Processors : worker'[q] = "process" <=> worker[q] = "process"
         /\ \A q \in Processors : worker'[q] = "none" <=> worker[q] = "none"
         /\ UNCHANGED <<created, streamOf, queue, frame>>
BY DEF TypeInv, TypeOK, Destroy, Notified

LEMMA JoinTypes ==
  ASSUME TypeInv, NEW p \in Processors, Joined(p)
  PROVE  /\ queue' \in [Processors -> Seq(Frames)] /\ dropped' \subseteq Frames
         /\ queue'[p] = << >> /\ \A q \in Processors : q # p => queue'[q] = queue[q]
         /\ UNCHANGED <<created, streamOf, active, worker, frame, handled>>
<1>1. queue[p] \in Seq(Frames) /\ << >> \in Seq(Frames)
  BY EmptySeq DEF TypeInv, TypeOK
<1>2. ToSet(queue[p]) \subseteq Frames
  BY <1>1, ToSetEmpty
<1> QED
  BY <1>1, <1>2 DEF TypeInv, TypeOK, Joined

\* ... of the cleaner, of stop() and of the feeders.
LEMMA CleanerTypes ==
  ASSUME TypeInv, CleanerStep
  PROVE  TypeOK' /\ NewInv'
<1> USE DEF TypeInv
<1>1. CASE CleanerWakes \/ CleanerDone
  BY <1>1 DEF CleanerWakes, CleanerDone, TypeOK, NewInv
<1>2. ASSUME NEW s \in Streams, RemoveStream(s) PROVE TypeOK' /\ NewInv'
  <2>1. /\ cleaner' = "join" /\ Destroy(map[s]) /\ s \in removing /\ map[s] \in Processors
        /\ UNCHANGED <<stopVars, removing, mapVars, feederVars, ghosts>>
    BY <1>2 DEF RemoveStream, Inv, CleanInv, TypeOK
  <2>2. TypeOK'
    BY <2>1, DestroyTypes DEF TypeOK
  <2>3. NewInv'
    BY <2>1, DestroyTypes DEF NewInv
  <2> QED BY <2>2, <2>3
<1>3. ASSUME NEW s \in Streams, CleanerJoins(s) PROVE TypeOK' /\ NewInv'
  <2>1. /\ cleaner' = "remove" /\ Joined(map[s]) /\ map[s] \in Processors
        /\ removing' = removing \ {s} /\ map' = [map EXCEPT ![s] = None]
        /\ UNCHANGED <<stopVars, mutex, feederVars>>
    BY <1>3 DEF CleanerJoins, Inv, CleanInv, TypeOK
  <2>2. TypeOK'
    BY <2>1, JoinTypes DEF TypeOK
  <2>3. NewInv'
    BY <2>1, JoinTypes DEF NewInv
  <2> QED BY <2>2, <2>3
<1> QED
  BY <1>1, <1>2, <1>3 DEF CleanerStep

LEMMA StopTypes ==
  ASSUME TypeInv, BeginStop \/ StopStep
  PROVE  TypeOK' /\ NewInv'
<1> USE DEF TypeInv
<1>1. CASE BeginStop \/ JoinCleaner \/ Cleared \/ ClearClients
  BY <1>1 DEF BeginStop, JoinCleaner, Cleared, ClearClients, MainGoto, TypeOK, NewInv
<1>2. ASSUME NEW s \in Streams, ClearOne(s) PROVE TypeOK' /\ NewInv'
  <2>1. /\ map[s] \in Processors /\ main' \in {"clear", "join"}
        /\ UNCHANGED <<running, cleanerVars, mutex, feederVars>>
    BY <1>2 DEF ClearOne, MainGoto, TypeOK
  <2>2. CASE Destroy(map[s]) /\ UNCHANGED <<map, ghosts>>
    <3>1. TypeOK'
      BY <2>1, <2>2, DestroyTypes DEF TypeOK
    <3>2. NewInv'
      BY <2>1, <2>2, DestroyTypes DEF NewInv
    <3> QED BY <3>1, <3>2
  <2>3. CASE Joined(map[s]) /\ map' = [map EXCEPT ![s] = None]
    <3>1. TypeOK'
      BY <2>1, <2>3, JoinTypes DEF TypeOK
    <3>2. NewInv'
      BY <2>1, <2>3, JoinTypes DEF NewInv
    <3> QED BY <3>1, <3>2
  <2>4. CASE map' = [map EXCEPT ![s] = None] /\ UNCHANGED <<procVars, ghosts>>
    BY <2>1, <2>4 DEF TypeOK, NewInv
  <2> QED BY <1>2, <2>2, <2>3, <2>4 DEF ClearOne
<1> QED
  BY <1>1, <1>2 DEF StopStep

LEMMA FindTypes ==
  ASSUME TypeInv, NEW f \in Feeders, Find(f)
  PROVE  TypeOK' /\ NewInv'
<1> USE DEF TypeInv
<1>1. /\ feeder[f] = "find" /\ feeder' = [feeder EXCEPT ![f] = "add"] /\ target[f] \in Streams
      /\ UNCHANGED <<fed, target, mutex, ghosts, stopVars, cleanerVars>> /\ queue' = queue /\ frame' = frame
  BY DEF Find, FeederGoto, Inv, Types, NotFeeder
<1>2. CASE /\ map[target[f]] # None /\ holds' = [holds EXCEPT ![f] = map[target[f]]]
           /\ UNCHANGED <<map, procVars>>
  BY <1>1, <1>2 DEF TypeOK, NewInv
<1>3. CASE /\ created < MaxProcessors /\ created' = created + 1
           /\ streamOf' = [streamOf EXCEPT ![created + 1] = target[f]]
           /\ active' = [active EXCEPT ![created + 1] = TRUE]
           /\ worker' = [worker EXCEPT ![created + 1] = "loop"]
           /\ map' = [map EXCEPT ![target[f]] = created + 1]
           /\ holds' = [holds EXCEPT ![f] = created + 1]
  <2> DEFINE n == created + 1
  <2>1. n \in Processors /\ created \in Nat /\ n \in 0 .. MaxProcessors /\ n > created
    BY <1>3, ProcessorAssumption DEF TypeOK, Processors
  <2>2. frame[n] = None /\ worker[n] = "none"
    BY <2>1 DEF NewInv
  <2> HIDE DEF n
  <2>3. TypeOK'
    BY <1>1, <1>3, <2>1, <2>2 DEF TypeOK, n
  <2>4. \A p \in Processors : p <= n <=> (p <= created \/ p = n)
    BY <2>1 DEF n, Processors
  <2>5. NewInv'
    <3>1. \A p \in Processors : p \in Nat
      BY DEF Processors
    <3> QED BY <1>1, <1>3, <2>1, <2>4, <3>1 DEF TypeOK, NewInv, n
  <2> QED BY <2>3, <2>5
<1> QED
  BY <1>2, <1>3 DEF Find

LEMMA FeederTypes ==
  ASSUME TypeInv, NEW f \in Feeders,
         FeederStep(f) \/ \E s \in Streams : Begin(f, s)
  PROVE  TypeOK' /\ NewInv'
<1> USE DEF TypeInv
<1>1. ASSUME NEW s \in Streams, Begin(f, s) PROVE TypeOK' /\ NewInv'
  <2>1. fed[f] + 1 \in 0 .. MaxFrames /\ fed[f] + 1 > 0
    BY <1>1, ProcessorAssumption DEF Begin, TypeOK
  <2> QED BY <1>1, <2>1 DEF Begin, FeederGoto, NotFeeder, TypeOK, NewInv
<1>2. CASE Find(f)
  BY <1>2, FindTypes
<1>3. CASE Add(f)
  <2> DEFINE p == holds[f]
             x == <<f, fed[f]>>
  <2>1. /\ feeder[f] = "add" /\ feeder' = [feeder EXCEPT ![f] = "release"]
        /\ queue' = [queue EXCEPT ![p] = Append(queue[p], x)]
        /\ worker' = [worker EXCEPT ![p] = Notified(worker[p])]
        /\ UNCHANGED <<holds, fed, target, mapVars, created, streamOf, active, frame,
                       ghosts, NotFeeder>>
    BY <1>3 DEF Add, FeederGoto
  <2>2. /\ p \in Processors /\ p <= created /\ AtWork(p) /\ x \in Frames
        /\ queue[p] \in Seq(Frames)
    BY <2>1, ProcessorAssumption DEF Inv, Types, HoldInv, ActiveInv, TypeOK, NewInv, Frames
  <2>3. Append(queue[p], x) \in Seq(Frames)
    BY <2>2, AppendProperties
  <2> HIDE DEF p, x
  <2>4. /\ Notified(worker[p]) \in {"loop", "look", "woken", "process", "exited"}
        /\ Notified(worker[p]) = "process" <=> worker[p] = "process"
    BY <2>2 DEF Notified, AtWork, TypeOK
  <2>5. TypeOK'
    BY <2>1, <2>2, <2>3, <2>4 DEF TypeOK, NotFeeder
  <2>6. NewInv'
    <3>1. created \in Nat /\ \A q \in Processors : q \in Nat
      BY DEF Processors, TypeOK
    <3> QED BY <2>1, <2>2, <2>4, <3>1 DEF TypeOK, NewInv, NotFeeder
  <2> QED BY <2>5, <2>6
<1>4. CASE Release(f)
  <2>1. CASE ~LastHolder(f)
    <3>1. /\ feeder[f] = "release" /\ feeder' = [feeder EXCEPT ![f] = "idle"]
          /\ holds' = [holds EXCEPT ![f] = None]
          /\ UNCHANGED <<fed, target, mapVars, procVars, ghosts, NotFeeder>>
      BY <1>4, <2>1 DEF Release, FeederGoto
    <3>2. TypeOK'
      BY <3>1 DEF TypeOK, NotFeeder
    <3>3. NewInv'
      BY <3>1 DEF TypeOK, NewInv, NotFeeder
    <3> QED BY <3>2, <3>3
  <2>2. CASE LastHolder(f)
    <3>1. /\ feeder[f] = "release" /\ feeder' = [feeder EXCEPT ![f] = "join"]
          /\ Destroy(holds[f]) /\ holds[f] \in Processors
          /\ UNCHANGED <<holds, fed, target, mapVars, ghosts, NotFeeder>>
      BY <1>4, <2>2 DEF Release, FeederGoto, Inv, Types, HoldInv
    <3>2. TypeOK'
      BY <3>1, DestroyTypes DEF TypeOK, NotFeeder
    <3>3. NewInv'
      BY <3>1, DestroyTypes DEF TypeOK, NewInv, NotFeeder
    <3> QED BY <3>2, <3>3
  <2> QED BY <2>1, <2>2
<1>5. CASE FeederJoins(f)
  <2>1. /\ feeder[f] = "join" /\ feeder' = [feeder EXCEPT ![f] = "idle"]
        /\ Joined(holds[f]) /\ holds[f] \in Processors
        /\ holds' = [holds EXCEPT ![f] = None]
        /\ UNCHANGED <<fed, target, mapVars, NotFeeder>>
    BY <1>5 DEF FeederJoins, FeederGoto, Inv, Types, HoldInv
  <2>2. TypeOK'
    BY <2>1, JoinTypes DEF TypeOK, NotFeeder
  <2>3. NewInv'
    BY <2>1, JoinTypes DEF TypeOK, NewInv, NotFeeder
  <2> QED BY <2>2, <2>3
<1> QED
  BY <1>1, <1>2, <1>3, <1>4, <1>5 DEF FeederStep

LEMMA TypeInit == Init => TypeOK /\ NewInv
<1> SUFFICES ASSUME Init PROVE TypeOK /\ NewInv
  OBVIOUS
<1>1. << >> \in Seq(Frames)
  BY EmptySeq
<1> QED
  BY <1>1, ProcessorAssumption DEF Init, TypeOK, NewInv, Processors

LEMMA TypeStep ==
  ASSUME TypeInv, [Next]_vars
  PROVE  TypeInv'
<1>1. CASE UNCHANGED vars
  <2>1. Inv'
    BY StepInv DEF TypeInv
  <2> QED BY <1>1, <2>1 DEF TypeInv, TypeOK, NewInv
<1> QED
  BY <1>1, WorkerTypes, CleanerTypes, StopTypes, FeederTypes, StepInv DEF Next, TypeInv

-------------------------------------------------------------------------------
(* The places.                                                             *)

\* Nothing moves from one place to another.
Still == /\ \A p \in Processors : Waiting(p)' = Waiting(p)
         /\ Done' = Done /\ dropped' = dropped /\ SoFar' = SoFar

\* x is added at r, leaves it for a callback, or all that waits at r goes with it.
Elsewhere(r) == \A p \in Processors : p # r => Waiting(p)' = Waiting(p)
AddedAt(r, x) == /\ x \in Frames /\ x \notin SoFar /\ SoFar' = SoFar \cup {x}
                 /\ Waiting(r)' = Waiting(r) \cup {x} /\ Elsewhere(r)
                 /\ Done' = Done /\ dropped' = dropped
HandledAt(r, x) == /\ x \in Waiting(r) /\ Waiting(r)' = Waiting(r) \ {x} /\ Elsewhere(r)
                   /\ Done' = Done \cup {x} /\ dropped' = dropped /\ SoFar' = SoFar
DroppedAt(r) == /\ Waiting(r)' = {} /\ dropped' = dropped \cup Waiting(r) /\ Elsewhere(r)
                /\ Done' = Done /\ SoFar' = SoFar

\* None of these steps puts a frame into two places, or loses one.
LEMMA PlacesKept ==
  ASSUME PlaceInv, NEW r \in Processors,
         Still \/ (\E x : AddedAt(r, x)) \/ (\E x : HandledAt(r, x)) \/ DroppedAt(r)
  PROVE  PlaceInv'
<1> HIDE DEF Waiting, Done, SoFar
<1>1. CASE Still
  BY <1>1 DEF Still, PlaceInv
<1>2. ASSUME NEW x, AddedAt(r, x) PROVE PlaceInv'
  BY <1>2 DEF AddedAt, Elsewhere, PlaceInv
<1>3. ASSUME NEW x, HandledAt(r, x) PROVE PlaceInv'
  BY <1>3 DEF HandledAt, Elsewhere, PlaceInv
<1>4. CASE DroppedAt(r)
  BY <1>4 DEF DroppedAt, Elsewhere, PlaceInv
<1> QED
  BY <1>1, <1>2, <1>3, <1>4

\* What waits is in the queue or in the hands of the worker.
LEMMA WaitingIs ==
  ASSUME TypeInv, NEW p \in Processors
  PROVE  Waiting(p) = ToSet(queue[p]) \cup (IF worker[p] = "process" THEN {frame[p]} ELSE {})
<1>1. /\ queue[p] \in Seq(Frames) /\ None \notin Frames
      /\ frame[p] # None <=> worker[p] = "process"
      /\ frame[p] \in Frames \cup {None}
  BY NoneIsApart DEF TypeInv, TypeOK
<1>2. ToSet(queue[p]) \subseteq Frames
  BY <1>1, ToSetEmpty
<1> QED
  BY <1>1, <1>2 DEF Waiting, Queued

\* Nobody has come to another frame, or put one in a queue.
LEMMA SoFarStays ==
  ASSUME UNCHANGED <<feeder, fed>>
  PROVE  SoFar' = SoFar
BY DEF SoFar, Added

LEMMA DoneStays ==
  ASSUME UNCHANGED handled
  PROVE  Done' = Done
BY DEF Done, Handled

LEMMA StillWaiting ==
  ASSUME NEW p \in Processors, queue'[p] = queue[p], frame'[p] = frame[p]
  PROVE  Waiting(p)' = Waiting(p)
BY DEF Waiting, Queued

\* A worker takes frames from the front, one at a time, and hands them on.
LEMMA WorkerBooks ==
  ASSUME TypeInv, QueueInv, NEW p \in Processors, WorkerStep(p)
  PROVE  /\ Process(p) => HandledAt(p, frame[p])
         /\ ~Process(p) => Still /\ handled' = handled
         /\ QueueInv' /\ UNCHANGED <<map, running, streamOf>>
<1>1. TypeInv' /\ UNCHANGED <<feeder, fed, dropped, map, running, streamOf>>
  BY TypeStep DEF WorkerStep, WorkerLoop, Look, WaitTimesOut, WakeUp, Process, Take, NotWorker,
                  Next
<1>2. SoFar' = SoFar
  BY <1>1, SoFarStays
<1>3. queue[p] \in Seq(Frames) /\ Sorted(queue[p])
  BY DEF TypeInv, TypeOK, QueueInv
<1>4. ASSUME NEW from \in {"look", "woken"}, Take(p, from)
      PROVE  Still /\ QueueInv' /\ handled' = handled /\ ~Process(p)
  <2>1. /\ queue[p] # << >> /\ worker[p] = from
        /\ frame' = [frame EXCEPT ![p] = Head(queue[p])]
        /\ queue' = [queue EXCEPT ![p] = Tail(queue[p])]
        /\ handled' = handled
    BY <1>4 DEF Take, WorkerGoto, Oldest
  <2>2. /\ frame'[p] = Head(queue[p]) /\ queue'[p] = Tail(queue[p]) /\ frame[p] = None
        /\ \A q \in Processors : q # p => frame'[q] = frame[q] /\ queue'[q] = queue[q]
    BY <2>1 DEF TypeInv, TypeOK
  <2>3. ToSet(queue[p]) = {Head(queue[p])} \cup ToSet(Tail(queue[p])) /\ None \notin Frames
        /\ ToSet(queue[p]) \subseteq Frames
    BY <1>3, <2>1, ToSetHead, ToSetEmpty, NoneIsApart
  <2>4. Waiting(p)' = Waiting(p)
    BY <2>2, <2>3 DEF Waiting, Queued
  <2>5. Still
    BY <1>1, <1>2, <2>1, <2>2, <2>4, StillWaiting, DoneStays DEF Still
  <2>6. Sorted(Tail(queue[p])) /\ \A x \in ToSet(Tail(queue[p])) : Before(Head(queue[p]), x)
    BY <1>3, <2>1, SortedTail
  <2>7. QueueInv'
    BY <2>2, <2>6 DEF QueueInv
  <2>8. ~Process(p)
    BY <2>1 DEF Process, WorkerGoto
  <2> QED BY <2>1, <2>5, <2>7, <2>8
<1>5. CASE WorkerLoop(p) \/ WaitTimesOut(p)
           \/ (queue[p] = << >> /\ UNCHANGED <<queue, frame, handled, NotWorker>>
               /\ (WorkerGoto(p, "look", "wait") \/ WorkerGoto(p, "woken", "loop")))
  <2>1. UNCHANGED <<queue, frame, handled>> /\ worker[p] # "process"
    BY <1>5 DEF WorkerLoop, WaitTimesOut, WorkerGoto
  <2>2. Still /\ QueueInv'
    BY <1>1, <1>2, <2>1, StillWaiting, DoneStays DEF Still, QueueInv
  <2>3. ~Process(p)
    BY <2>1 DEF Process, WorkerGoto
  <2> QED BY <1>1, <2>1, <2>2, <2>3
<1>6. CASE Process(p)
  <2> DEFINE s == streamOf[p]
             x == frame[p]
  <2>1. /\ worker[p] = "process" /\ worker' = [worker EXCEPT ![p] = "loop"]
        /\ handled' = [handled EXCEPT ![s] = Append(handled[s], x)]
        /\ frame' = [frame EXCEPT ![p] = None]
        /\ queue' = queue
    BY <1>6 DEF Process, WorkerGoto, AfterCallback
  <2>2. /\ x \in Frames /\ x # None /\ s \in Streams /\ handled[s] \in Seq(Frames)
    <3>1. p <= created
      BY <2>1 DEF TypeInv, TypeOK, NewInv, Processors
    <3> QED BY <2>1, <3>1, NoneIsApart DEF TypeInv, TypeOK, NewInv
  <2>3. ToSet(Append(handled[s], x)) = ToSet(handled[s]) \cup {x}
    BY <2>2, ToSetAppend
  <2>4. /\ handled'[s] = Append(handled[s], x)
        /\ \A t \in Streams : t # s => handled'[t] = handled[t]
        /\ frame'[p] = None /\ \A q \in Processors : q # p => frame'[q] = frame[q]
    BY <2>1, <2>2 DEF TypeInv, TypeOK
  <2> HIDE DEF s, x
  <2>5. Done' = Done \cup {x}
    <3>1. \A y \in Frames : Handled(y)' <=> Handled(y) \/ y = x
      BY <2>2, <2>3, <2>4 DEF Handled
    <3> QED BY <2>2, <3>1 DEF Done
  <2>6. \A y \in ToSet(queue[p]) : y # x
    <3>1. \A y \in ToSet(queue[p]) : Before(x, y)
      BY <2>2 DEF QueueInv, x
    <3>2. x[2] \in Nat
      BY <2>2 DEF Frames
    <3> QED BY <3>1, <3>2 DEF Before
  <2>7. Waiting(p) = ToSet(queue[p]) \cup {x}
    BY <2>1, WaitingIs DEF x
  <2>8. Waiting(p)' = ToSet(queue[p])
    <3>1. ToSet(queue[p]) \subseteq Frames
      BY <1>3, ToSetEmpty
    <3> QED BY <2>1, <2>4, <3>1, NoneIsApart DEF Waiting, Queued
  <2>9. HandledAt(p, x)
    BY <1>1, <1>2, <2>1, <2>4, <2>5, <2>6, <2>7, <2>8, StillWaiting DEF HandledAt, Elsewhere
  <2>10. QueueInv'
    BY <2>1, <2>4 DEF QueueInv
  <2> QED BY <1>1, <1>6, <2>9, <2>10 DEF x
<1> QED
  BY <1>1, <1>4, <1>5, <1>6 DEF WorkerStep, Look, WakeUp

\* The destructor ends with the queue.
LEMMA JoinBooks ==
  ASSUME TypeInv, QueueInv, NEW p \in Processors, Joined(p), SoFar' = SoFar
  PROVE  DroppedAt(p) /\ QueueInv' /\ handled' = handled
<1>1. /\ worker[p] = "exited" /\ dropped' = dropped \cup ToSet(queue[p])
      /\ queue'[p] = << >> /\ \A q \in Processors : q # p => queue'[q] = queue[q]
      /\ UNCHANGED <<frame, handled>>
  BY JoinTypes DEF Joined, WorkerEnded
<1>2. Waiting(p) = ToSet(queue[p])
  BY <1>1, WaitingIs
<1>3. frame[p] = None /\ ToSet(<< >>) = {} /\ None \notin Frames
  BY <1>1, ToSetEmpty, NoneIsApart DEF TypeInv, TypeOK
<1>4. Waiting(p)' = {}
  BY <1>1, <1>3 DEF Waiting, Queued
<1>5. DroppedAt(p)
  BY <1>1, <1>2, <1>4, StillWaiting, DoneStays DEF DroppedAt, Elsewhere
<1>6. QueueInv'
  <2>1. Sorted(<< >>)
    BY DEF Sorted
  <2> QED BY <1>1, <1>3, <2>1 DEF QueueInv
<1> QED
  BY <1>1, <1>5, <1>6

\* The newest frame of f.
LEMMA NewestFrame ==
  ASSUME TypeInv, NEW f \in Feeders, feeder[f] = "add",
         feeder' = [feeder EXCEPT ![f] = "release"], fed' = fed
  PROVE  /\ <<f, fed[f]>> \in Frames /\ <<f, fed[f]>> \notin SoFar
         /\ SoFar' = SoFar \cup {<<f, fed[f]>>}
         /\ \A y \in SoFar : Before(y, <<f, fed[f]>>)
<1> DEFINE n == fed[f]
<1>1. n \in 1 .. MaxFrames
  <2>1. fed[f] \in 0 .. MaxFrames /\ fed[f] > 0
    BY DEF TypeInv, TypeOK, NewInv
  <2> QED BY <2>1
<1>2. Added(f) = 1 .. n - 1 /\ Added(f)' = 1 .. n
  BY DEF Added, TypeInv, TypeOK
<1>3. \A g \in Feeders : g # f => Added(g)' = Added(g)
  BY DEF Added, TypeInv, TypeOK
<1>4. <<f, n>> \in Frames /\ <<f, n>> \notin SoFar
  BY <1>1, <1>2 DEF Frames, SoFar
<1>5. \A y \in SoFar : Before(y, <<f, n>>)
  BY <1>1, <1>2 DEF SoFar, Before, Frames
<1>6. ASSUME NEW y \in Frames PROVE y \in SoFar' <=> y \in SoFar \/ y = <<f, n>>
  <2>1. y[1] \in Feeders /\ y[2] \in Nat /\ y = <<y[1], y[2]>>
    BY DEF Frames
  <2>2. CASE y[1] # f
    BY <1>3, <2>1, <2>2 DEF SoFar
  <2>3. CASE y[1] = f
    <3>1. y[2] \in 1 .. n <=> y[2] \in 1 .. n - 1 \/ y[2] = n
      BY <1>1, <2>1
    <3>2. y \in SoFar' <=> y[2] \in 1 .. n
      BY <1>2, <2>3 DEF SoFar
    <3>3. y \in SoFar <=> y[2] \in 1 .. n - 1
      BY <1>2, <2>3 DEF SoFar
    <3> QED BY <2>1, <2>3, <3>1, <3>2, <3>3
  <2> QED BY <2>2, <2>3
<1>7. SoFar' \subseteq Frames /\ SoFar \subseteq Frames
  BY DEF SoFar, Frames
<1> QED
  BY <1>4, <1>5, <1>6, <1>7

\* addFrame puts the newest frame of its feeder behind the others.
LEMMA AddBooks ==
  ASSUME TypeInv, PlaceInv, QueueInv, NEW f \in Feeders, Add(f)
  PROVE  /\ QueueInv' /\ UNCHANGED <<handled, map, running, streamOf>>
         /\ \E p \in Processors, x \in Frames :
              /\ p = holds[f] /\ AddedAt(p, x)
              /\ \A y \in SoFar : Before(y, x)
<1>0. holds[f] \in Processors
  BY DEF Add, FeederGoto, TypeInv, Inv, Types, HoldInv
<1> PICK p \in Processors : p = holds[f]
  BY <1>0
<1> PICK x : x = <<f, fed[f]>>
  OBVIOUS
<1>1. /\ feeder[f] = "add" /\ feeder' = [feeder EXCEPT ![f] = "release"]
      /\ queue' = [queue EXCEPT ![p] = Append(queue[p], x)] /\ p \in Processors
      /\ UNCHANGED <<fed, frame, handled, dropped, map, running, streamOf>>
  BY DEF Add, FeederGoto, NotFeeder, TypeInv, Inv, Types, HoldInv
<1>2. /\ x \in Frames /\ x \notin SoFar /\ SoFar' = SoFar \cup {x}
      /\ \A y \in SoFar : Before(y, x)
  BY <1>1, NewestFrame
<1>3. /\ queue[p] \in Seq(Frames) /\ queue'[p] = Append(queue[p], x)
      /\ \A q \in Processors : q # p => queue'[q] = queue[q]
  BY <1>1 DEF TypeInv, TypeOK
<1>4. ToSet(Append(queue[p], x)) = ToSet(queue[p]) \cup {x}
  BY <1>2, <1>3, ToSetAppend
<1>5. Waiting(p)' = Waiting(p) \cup {x}
  BY <1>1, <1>2, <1>3, <1>4 DEF Waiting, Queued
<1>6. AddedAt(p, x)
  BY <1>1, <1>2, <1>3, <1>5, StillWaiting, DoneStays DEF AddedAt, Elsewhere
<1>7. Waiting(p) \subseteq SoFar /\ ToSet(queue[p]) \subseteq Waiting(p)
      /\ (frame[p] # None => frame[p] \in Waiting(p))
  <2>1. Waiting(p) \subseteq SoFar
    BY <1>1 DEF PlaceInv
  <2>2. frame[p] # None <=> worker[p] = "process"
    BY <1>1 DEF TypeInv, TypeOK
  <2> QED BY <1>1, <2>1, <2>2, WaitingIs
<1>8. AllBefore(queue[p], x)
  <2> SUFFICES ASSUME NEW i \in 1 .. Len(queue[p]) PROVE Before(queue[p][i], x)
    BY DEF AllBefore
  <2>1. queue[p][i] \in ToSet(queue[p])
    BY <1>3, LenProperties DEF ToSet
  <2> QED BY <1>2, <1>7, <2>1
<1>9. Sorted(queue'[p])
  BY <1>1, <1>2, <1>3, <1>8, SortedAppend DEF QueueInv
<1>10. QueueInv'
  <2> SUFFICES ASSUME NEW q \in Processors
               PROVE  /\ Sorted(queue'[q])
                      /\ frame'[q] # None => \A y \in ToSet(queue'[q]) : Before(frame'[q], y)
    BY DEF QueueInv
  <2>1. CASE q # p
    BY <1>1, <1>3, <2>1 DEF QueueInv
  <2>2. CASE q = p
    <3>1. frame[p] # None => \A y \in ToSet(queue[p]) \cup {x} : Before(frame[p], y)
      BY <1>1, <1>2, <1>7 DEF QueueInv
    <3> QED BY <1>1, <1>3, <1>4, <1>9, <2>2, <3>1
  <2> QED BY <2>1, <2>2
<1> QED
  BY <1>1, <1>2, <1>6, <1>10

-------------------------------------------------------------------------------
(* The order, while the server runs.                                       *)

\* Frames that stay where they are, or go with their processor.
LEMMA OrderStays ==
  ASSUME OrderInv, running' => running, handled' = handled,
         \A p \in Processors : Waiting(p)' \subseteq Waiting(p),
         \A p \in Processors : Waiting(p)' # {} => streamOf'[p] = streamOf[p],
         running' => \A p \in Processors : Waiting(p)' # {} /\ InMap(p) => InMap(p)'
  PROVE  OrderInv'
<1> HIDE DEF Waiting, InMap, AllBefore, Sorted
<1> QED
  BY DEF OrderInv

\* What a worker hands on comes behind what has been handled of the stream.
LEMMA OrderHandled ==
  ASSUME TypeInv, OrderInv, PlaceInv, QueueInv, NEW p \in Processors, Process(p)
  PROVE  OrderInv'
<1> DEFINE s == streamOf[p]
           x == frame[p]
<1>1. HandledAt(p, x) /\ UNCHANGED <<map, running, streamOf>>
  BY WorkerBooks DEF WorkerStep
<1>2. /\ worker[p] = "process" /\ handled' = [handled EXCEPT ![s] = Append(handled[s], x)]
  BY DEF Process, WorkerGoto
<1>3. x \in Frames /\ x # None /\ s \in Streams /\ handled[s] \in Seq(Frames)
      /\ x \in Waiting(p)
  <2>1. p <= created
    BY <1>2 DEF TypeInv, TypeOK, NewInv, Processors
  <2> QED BY <1>2, <2>1, NoneIsApart, WaitingIs DEF TypeInv, TypeOK, NewInv
<1>4. /\ handled'[s] = Append(handled[s], x)
      /\ \A t \in Streams : t # s => handled'[t] = handled[t]
  BY <1>2, <1>3 DEF TypeInv, TypeOK
<1>5. Waiting(p)' = Waiting(p) \ {x} /\ \A q \in Processors : q # p => Waiting(q)' = Waiting(q)
  BY <1>1 DEF HandledAt, Elsewhere
<1>6. \A y \in Waiting(p)' : Before(x, y)
  <2>1. Waiting(p) = ToSet(queue[p]) \cup {x}
    BY <1>2, WaitingIs
  <2>2. \A y \in ToSet(queue[p]) : Before(x, y)
    BY <1>3 DEF QueueInv
  <2> QED BY <1>5, <2>1, <2>2
<1> SUFFICES ASSUME running PROVE OrderInv'
  BY <1>1 DEF OrderInv
<1>7. ASSUME NEW q \in Processors, Waiting(q) # {}, streamOf[q] = s PROVE q = p
  <2>1. InMap(q) /\ InMap(p)
    BY <1>3, <1>7 DEF OrderInv
  <2> QED BY <1>7, <2>1, NoneIsApart DEF InMap, TypeInv, Inv, MapInv
<1>8. AllBefore(handled[s], x) /\ Sorted(handled[s])
  BY <1>3 DEF OrderInv
<1>9. Sorted(handled'[s])
  BY <1>3, <1>4, <1>8, SortedAppend
<1>10. ASSUME NEW y \in Waiting(p)' PROVE AllBefore(handled'[s], y)
  <2>1. AllBefore(handled[s], y) /\ Before(x, y)
    BY <1>3, <1>5, <1>6, <1>10 DEF OrderInv
  <2>2. /\ Len(handled'[s]) = Len(handled[s]) + 1 /\ Len(handled[s]) \in Nat
        /\ handled'[s][Len(handled[s]) + 1] = x
        /\ \A i \in 1 .. Len(handled[s]) : handled'[s][i] = handled[s][i]
    BY <1>3, <1>4, AppendProperties, LenProperties
  <2>3. \A i \in 1 .. Len(handled'[s]) : i \in 1 .. Len(handled[s]) \/ i = Len(handled[s]) + 1
    BY <2>2
  <2> QED BY <2>1, <2>2, <2>3 DEF AllBefore
<1> HIDE DEF s, x
<1>11. ASSUME NEW q \in Processors, NEW y \in Waiting(q)' PROVE AllBefore(handled'[streamOf[q]], y)
  <2>1. CASE q = p
    BY <1>10, <1>11, <2>1 DEF s
  <2>2. CASE q # p
    <3>1. y \in Waiting(q) /\ Waiting(q) # {}
      BY <1>5, <1>11, <2>2
    <3>2. streamOf[q] # s
      BY <1>7, <2>2, <3>1
    <3>3. streamOf[q] \in Streams
      <4>1. InMap(q)
        BY <3>1 DEF OrderInv
      <4>2. q \in Processors /\ q # None
        BY NoneIsApart
      <4> QED BY <4>1, <4>2 DEF InMap, TypeInv, Inv, MapInv
    <3>4. AllBefore(handled[streamOf[q]], y)
      BY <3>1 DEF OrderInv
    <3> QED BY <1>4, <3>2, <3>3, <3>4
  <2> QED BY <2>1, <2>2
<1>12. \A t \in Streams : Sorted(handled'[t])
  BY <1>4, <1>9 DEF OrderInv
<1>13. \A q \in Processors : Waiting(q)' # {} => InMap(q)'
  <2>1. \A q \in Processors : Waiting(q)' \subseteq Waiting(q)
    BY <1>5
  <2> QED BY <1>1, <2>1 DEF OrderInv, InMap
<1> QED
  BY <1>1, <1>11, <1>12, <1>13 DEF OrderInv

\* The newest frame of a feeder comes behind all its others, wherever they are.
LEMMA OrderAdded ==
  ASSUME TypeInv, OrderInv, PlaceInv, QueueInv, NEW f \in Feeders, Add(f)
  PROVE  OrderInv'
<1>0. PICK p \in Processors, x \in Frames :
        p = holds[f] /\ AddedAt(p, x) /\ \A y \in SoFar : Before(y, x)
  BY AddBooks
<1>1. /\ p \in Processors /\ AddedAt(p, x) /\ UNCHANGED <<handled, map, running, streamOf>>
      /\ \A y \in SoFar : Before(y, x)
  BY <1>0, AddBooks
<1>2. running => InMap(p)
  BY <1>0 DEF Add, FeederGoto, TypeInv, Inv, HoldInv
<1>3. /\ Waiting(p)' = Waiting(p) \cup {x}
      /\ \A q \in Processors : q # p => Waiting(q)' = Waiting(q)
  BY <1>1 DEF AddedAt, Elsewhere
<1>4. ASSUME running PROVE AllBefore(handled[streamOf[p]], x)
  <2>1. streamOf[p] \in Streams
    <3>1. InMap(p) /\ p # None
      BY <1>1, <1>2, <1>4, NoneIsApart
    <3> QED BY <3>1 DEF InMap, TypeInv, Inv, MapInv
  <2> DEFINE h == handled[streamOf[p]]
  <2>2. h \in Seq(Frames)
    BY <2>1 DEF TypeInv, TypeOK
  <2>3. ASSUME NEW i \in 1 .. Len(h) PROVE Before(h[i], x)
    <3>1. h[i] \in ToSet(h) /\ h[i] \in Frames
      BY <2>2, LenProperties, ElementOfSeq DEF ToSet
    <3>2. h[i] \in Done
      BY <2>1, <3>1 DEF Done, Handled
    <3>3. Done \subseteq SoFar
      BY DEF PlaceInv
    <3> QED BY <1>1, <3>2, <3>3
  <2> QED BY <2>3 DEF AllBefore
<1>5. ASSUME running PROVE /\ \A q \in Processors : Waiting(q)' # {} => InMap(q)'
                           /\ \A q \in Processors : \A y \in Waiting(q)' :
                                AllBefore(handled'[streamOf'[q]], y)
  <2>1. \A q \in Processors : Waiting(q)' # {} => InMap(q)
    BY <1>2, <1>3, <1>5 DEF OrderInv
  <2>2. ASSUME NEW q \in Processors, NEW y \in Waiting(q)' PROVE AllBefore(handled[streamOf[q]], y)
    <3>1. y \in Waiting(q) \/ (q = p /\ y = x)
      BY <1>3, <2>2
    <3> QED BY <1>4, <1>5, <3>1 DEF OrderInv
  <2> QED BY <1>1, <2>1, <2>2 DEF InMap
<1> QED
  BY <1>1, <1>5 DEF OrderInv

-------------------------------------------------------------------------------
(* Every step keeps the places and the order.                              *)

LEMMA CleanerFrames ==
  ASSUME FrameInv, CleanerStep
  PROVE  PlaceInv' /\ QueueInv' /\ OrderInv'
<1> USE DEF FrameInv
<1>0. TypeInv /\ UNCHANGED <<feeder, fed, running>>
  BY DEF TypeInv, CleanerStep, CleanerWakes, CleanerDone, RemoveStream, CleanerJoins
<1>1. SoFar' = SoFar
  BY <1>0, SoFarStays
<1>2. CASE UNCHANGED <<queue, frame, handled, dropped, map, streamOf>>
  <2>1. Still
    BY <1>1, <1>2, StillWaiting, DoneStays DEF Still
  <2>2. PlaceInv'
    <3>1. CASE Processors = {}
      BY <2>1, <3>1 DEF PlaceInv, Still
    <3>2. CASE Processors # {}
      BY <2>1, <3>2, PlacesKept
    <3> QED BY <3>1, <3>2
  <2>3. QueueInv'
    BY <1>2 DEF QueueInv
  <2>4. OrderInv'
    BY <1>0, <1>2, <2>1, OrderStays DEF Still, InMap
  <2> QED BY <2>2, <2>3, <2>4
<1>3. ASSUME NEW s \in Streams, CleanerJoins(s) PROVE PlaceInv' /\ QueueInv' /\ OrderInv'
  <2>1. PICK p : p = map[s]
    OBVIOUS
  <2>2. /\ p \in Processors /\ Joined(p) /\ map' = [map EXCEPT ![s] = None]
        /\ UNCHANGED streamOf
    BY <1>3, <2>1 DEF CleanerJoins, Joined, Inv, CleanInv, TypeOK
  <2>3. DroppedAt(p) /\ QueueInv' /\ handled' = handled
    BY <1>0, <1>1, <2>2, JoinBooks
  <2>4. PlaceInv'
    BY <2>2, <2>3, PlacesKept
  <2>5. \A q \in Processors : Waiting(q)' # {} => q # p /\ Waiting(q)' = Waiting(q)
    BY <2>3 DEF DroppedAt, Elsewhere
  <2>6. \A q \in Processors : q # p /\ InMap(q) => InMap(q)'
    BY <2>1, <2>2 DEF InMap, TypeOK
  <2>7. OrderInv'
    BY <1>0, <2>2, <2>3, <2>5, <2>6, OrderStays
  <2> QED BY <2>3, <2>4, <2>7
<1>4. ASSUME NEW s \in Streams, RemoveStream(s)
      PROVE  UNCHANGED <<queue, frame, handled, dropped, map, streamOf>>
  BY <1>4 DEF RemoveStream, Destroy
<1> QED
  BY <1>2, <1>3, <1>4 DEF CleanerStep, CleanerWakes, CleanerDone

LEMMA StopFrames ==
  ASSUME FrameInv, BeginStop \/ StopStep
  PROVE  PlaceInv' /\ QueueInv' /\ OrderInv'
<1> USE DEF FrameInv
<1>0. TypeInv /\ UNCHANGED <<feeder, fed>>
  BY DEF TypeInv, BeginStop, StopStep, JoinCleaner, ClearOne, Cleared, ClearClients
<1>1. SoFar' = SoFar
  BY <1>0, SoFarStays
<1>2. ~running'
  BY DEF Inv, LockInv, BeginStop, StopStep, JoinCleaner, ClearOne, Cleared, ClearClients,
         MainGoto
<1>3. OrderInv'
  BY <1>2 DEF OrderInv
<1>4. CASE UNCHANGED <<queue, frame, handled, dropped>>
  <2>1. Still
    BY <1>1, <1>4, StillWaiting, DoneStays DEF Still
  <2>2. PlaceInv'
    <3>1. CASE Processors = {}
      BY <2>1, <3>1 DEF PlaceInv, Still
    <3>2. CASE Processors # {}
      BY <2>1, <3>2, PlacesKept
    <3> QED BY <3>1, <3>2
  <2> QED BY <1>3, <1>4, <2>2 DEF QueueInv
<1>5. ASSUME NEW s \in Streams, ClearOne(s), Joined(map[s])
      PROVE  PlaceInv' /\ QueueInv' /\ OrderInv'
  <2>1. PICK p \in Processors : p = map[s]
    BY <1>5 DEF ClearOne, TypeOK
  <2>2. DroppedAt(p) /\ QueueInv'
    BY <1>0, <1>1, <1>5, <2>1, JoinBooks
  <2> QED BY <1>3, <2>2, PlacesKept
<1>6. ASSUME NEW s \in Streams, ClearOne(s)
      PROVE  Joined(map[s]) \/ UNCHANGED <<queue, frame, handled, dropped>>
  BY <1>6 DEF ClearOne, Destroy
<1> QED
  BY <1>4, <1>5, <1>6 DEF BeginStop, StopStep, JoinCleaner, Cleared, ClearClients

LEMMA WorkerFrames ==
  ASSUME FrameInv, NEW p \in Processors, WorkerStep(p)
  PROVE  PlaceInv' /\ QueueInv' /\ OrderInv'
<1> USE DEF FrameInv
<1>1. /\ Process(p) => HandledAt(p, frame[p])
      /\ ~Process(p) => Still /\ handled' = handled
      /\ QueueInv' /\ UNCHANGED <<map, running, streamOf>>
  BY WorkerBooks DEF TypeInv
<1>2. PlaceInv'
  BY <1>1, PlacesKept
<1>3. CASE Process(p)
  BY <1>1, <1>2, <1>3, OrderHandled DEF TypeInv
<1>4. CASE ~Process(p)
  <2>1. OrderInv'
    BY <1>1, <1>4, OrderStays DEF Still, InMap
  <2> QED BY <1>1, <1>2, <2>1
<1> QED
  BY <1>3, <1>4

LEMMA FeederFrames ==
  ASSUME FrameInv, NEW f \in Feeders, FeederStep(f) \/ \E s \in Streams : Begin(f, s)
  PROVE  PlaceInv' /\ QueueInv' /\ OrderInv'
<1> USE DEF FrameInv
<1>0. TypeInv /\ running' = running
  BY DEF TypeInv, FeederStep, Begin, Find, Add, Release, FeederJoins, NotFeeder
<1>1. CASE Add(f)
  <2>1. QueueInv' /\ \E p \in Processors, x \in Frames : AddedAt(p, x)
    BY <1>0, <1>1, AddBooks
  <2>2. PlaceInv'
    BY <2>1, PlacesKept
  <2> QED BY <1>0, <1>1, <2>1, <2>2, OrderAdded
<1>2. ASSUME ~Add(f) PROVE SoFar' = SoFar
  <2>1. \A g \in Feeders : Added(g)' = Added(g)
    <3>1. CASE \E s \in Streams : Begin(f, s)
      <4>1. /\ feeder[f] = "idle" /\ feeder' = [feeder EXCEPT ![f] = "find"]
            /\ fed' = [fed EXCEPT ![f] = fed[f] + 1] /\ fed[f] \in Nat
        BY <3>1 DEF Begin, FeederGoto, TypeOK
      <4>2. \A g \in Feeders : g # f => feeder'[g] = feeder[g] /\ fed'[g] = fed[g]
        BY <4>1 DEF TypeOK
      <4>3. feeder'[f] = "find" /\ fed'[f] = fed[f] + 1 /\ fed'[f] - 1 = fed[f]
        BY <4>1 DEF TypeOK
      <4>4. Added(f)' = Added(f)
        BY <4>1, <4>3 DEF Added
      <4> QED BY <4>2, <4>4 DEF Added
    <3>2. CASE Find(f)
      BY <3>2 DEF Find, FeederGoto, Added, TypeOK
    <3>3. CASE Release(f) \/ FeederJoins(f)
      BY <3>3 DEF Release, FeederJoins, FeederGoto, Added, TypeOK
    <3> QED BY <1>2, <3>1, <3>2, <3>3 DEF FeederStep
  <2> QED BY <2>1 DEF SoFar, Frames
<1>3. ASSUME ~Add(f), UNCHANGED <<queue, frame, handled, dropped>>,
             running' => \A p \in Processors : InMap(p) => InMap(p)',
             \A p \in Processors : Waiting(p) # {} => streamOf'[p] = streamOf[p]
      PROVE  PlaceInv' /\ QueueInv' /\ OrderInv'
  <2>1. Still
    BY <1>2, <1>3, StillWaiting, DoneStays DEF Still
  <2>2. PlaceInv'
    <3>1. CASE Processors = {}
      BY <2>1, <3>1 DEF PlaceInv, Still
    <3>2. CASE Processors # {}
      BY <2>1, <3>2, PlacesKept
    <3> QED BY <3>1, <3>2
  <2>3. OrderInv'
    BY <1>0, <1>3, <2>1, OrderStays DEF Still
  <2> QED BY <1>3, <2>2, <2>3 DEF QueueInv
<1>4. ASSUME NEW s \in Streams, Begin(f, s) PROVE PlaceInv' /\ QueueInv' /\ OrderInv'
  <2>1. UNCHANGED <<queue, frame, handled, dropped, map, streamOf>> /\ ~Add(f)
    BY <1>4 DEF Begin, Add, FeederGoto
  <2> QED BY <1>3, <2>1 DEF InMap
<1>5. CASE Find(f)
  <2>1. UNCHANGED <<queue, frame, handled, dropped>> /\ ~Add(f)
    BY <1>5 DEF Find, Add, FeederGoto
  <2>2. CASE UNCHANGED <<map, procVars>>
    BY <1>3, <2>1, <2>2 DEF InMap
  <2>3. CASE /\ map[target[f]] = None /\ map' = [map EXCEPT ![target[f]] = created + 1]
             /\ created < MaxProcessors /\ streamOf' = [streamOf EXCEPT ![created + 1] = target[f]]
    <3>1. created + 1 \in Processors /\ created + 1 > created
      BY <2>3, ProcessorAssumption DEF TypeOK, Processors
    <3>2. Waiting(created + 1) = {}
      <4>1. queue[created + 1] = << >> /\ worker[created + 1] = "none"
        BY <3>1 DEF NewInv
      <4> QED BY <1>0, <3>1, <4>1, WaitingIs, ToSetEmpty
    <3>3. \A p \in Processors : Waiting(p) # {} => streamOf'[p] = streamOf[p]
      BY <2>3, <3>1, <3>2 DEF TypeOK
    <3>4. \A p \in Processors : InMap(p) => InMap(p)'
      <4>1. \A p \in Processors : p # None
        BY NoneIsApart
      <4>2. \A t \in Streams : map[t] # None => map'[t] = map[t]
        BY <2>3 DEF TypeOK
      <4> QED BY <4>1, <4>2 DEF InMap
    <3> QED BY <1>3, <2>1, <3>3, <3>4
  <2> QED BY <1>5, <2>2, <2>3 DEF Find
<1>6. CASE Release(f)
  <2>1. UNCHANGED <<queue, frame, handled, dropped, map, streamOf>> /\ ~Add(f)
    BY <1>6 DEF Release, Add, FeederGoto, Destroy
  <2> QED BY <1>3, <2>1 DEF InMap
<1>7. CASE FeederJoins(f)
  <2>1. PICK p \in Processors : p = holds[f] /\ Joined(p)
    BY <1>7 DEF FeederJoins, FeederGoto, Inv, Types, HoldInv
  <2>2. ~Add(f) /\ UNCHANGED <<map, streamOf>>
    BY <1>7 DEF FeederJoins, Add, FeederGoto, Joined
  <2>3. DroppedAt(p) /\ QueueInv' /\ handled' = handled
    BY <1>0, <1>2, <2>1, <2>2, JoinBooks
  <2>4. PlaceInv'
    BY <2>3, PlacesKept
  <2>5. \A q \in Processors : Waiting(q)' \subseteq Waiting(q)
    BY <2>3 DEF DroppedAt, Elsewhere
  <2>6. OrderInv'
    BY <1>0, <2>2, <2>3, <2>5, OrderStays DEF InMap
  <2> QED BY <2>3, <2>4, <2>6
<1> QED
  BY <1>1, <1>4, <1>5, <1>6, <1>7 DEF FeederStep

\* It holds at first, and every step keeps it.
LEMMA FramesInit == Init => FrameInv
<1> SUFFICES ASSUME Init PROVE FrameInv
  OBVIOUS
<1>1. TypeInv
  BY InitInv, TypeInit DEF TypeInv
<1>2. \A p \in Processors : Waiting(p) = {}
  BY <1>1, WaitingIs, ToSetEmpty DEF Init
<1>3. Done = {} /\ dropped = {} /\ SoFar = {}
  <2>1. Done = {} /\ dropped = {}
    BY ToSetEmpty DEF Init, Done, Handled
  <2>2. \A f \in Feeders : Added(f) = {}
    BY DEF Init, Added
  <2> QED BY <2>1, <2>2 DEF SoFar, Frames
<1>4. PlaceInv
  BY <1>2, <1>3 DEF PlaceInv
<1>5. QueueInv /\ OrderInv
  <2>1. Sorted(<< >>) /\ ToSet(<< >>) = {}
    BY ToSetEmpty DEF Sorted
  <2> QED BY <1>2, <2>1 DEF Init, QueueInv, OrderInv
<1> QED
  BY <1>1, <1>4, <1>5 DEF TypeInv, FrameInv

LEMMA FramesStep == FrameInv /\ [Next]_vars => FrameInv'
<1> SUFFICES ASSUME FrameInv, [Next]_vars PROVE FrameInv'
  OBVIOUS
<1>1. TypeInv'
  BY TypeStep DEF FrameInv, TypeInv
<1>2. CASE UNCHANGED vars
  <2>1. PlaceInv' /\ QueueInv' /\ OrderInv'
    BY <1>2 DEF FrameInv, PlaceInv, QueueInv, OrderInv, Waiting, Done, SoFar, Queued, Handled,
                Added, InMap
  <2> QED BY <1>1, <2>1 DEF FrameInv, TypeInv
<1>3. CASE Next
  <2>1. PlaceInv' /\ QueueInv' /\ OrderInv'
    BY <1>3, CleanerFrames, StopFrames, WorkerFrames, FeederFrames DEF Next
  <2> QED BY <1>1, <2>1 DEF FrameInv, TypeInv
<1> QED
  BY <1>2, <1>3

\* Types, places and order together are inductive.
THEOREM FrameInvariant == Spec => []FrameInv
<1> QED
  BY FramesInit, FramesStep, PTL DEF Spec

\* Every variable keeps its type, and a worker holds a frame just while it processes it.
THEOREM ProcessorTypes == Spec => []TypeOK
<1>1. FrameInv => TypeOK
  BY DEF FrameInv
<1> QED
  BY <1>1, FrameInvariant, PTL

\* The callbacks see the frames of a client on a stream in the order processIncomingData
\* came to them, each at most once, while the server runs: also when the cleaner has removed
\* the stream's processor between two of them.
THEOREM CallbacksInOrder == Spec => []FramesInOrder
<1>1. FrameInv => FramesInOrder
  BY DEF FrameInv, OrderInv, Sorted, Before, FramesInOrder
<1> QED
  BY <1>1, FrameInvariant, PTL

\* No frame is lost or doubled between addFrame and the callbacks: it waits in one queue or
\* is in one worker's hands, has been handled, or went with the queue of a processor that
\* was destroyed.
THEOREM NoFrameLost == Spec => []FramesAccounted
<1>1. ASSUME FrameInv PROVE FramesAccounted
  <2> SUFFICES ASSUME NEW f \in Feeders, NEW n \in Added(f)
               PROVE  LET x == <<f, n>>
                          waits == {p \in Processors : Queued(x, p)}
                      IN /\ \A p, q \in waits : p = q
                         /\ \/ waits # {} /\ ~Handled(x) /\ x \notin dropped
                            \/ waits = {} /\ Handled(x) /\ x \notin dropped
                            \/ waits = {} /\ ~Handled(x) /\ x \in dropped
    BY DEF FramesAccounted
  <2> DEFINE x == <<f, n>>
             waits == {p \in Processors : Queued(x, p)}
  <2>1. fed[f] \in 0 .. MaxFrames /\ MaxFrames \in Nat
    BY <1>1, ProcessorAssumption DEF FrameInv, TypeOK
  <2>2. x \in Frames /\ x \in SoFar
    <3>1. n \in 1 .. MaxFrames
      BY <2>1 DEF Added
    <3> QED BY <3>1 DEF Frames, SoFar
  <2>3. /\ \A p \in Processors : p \in waits <=> x \in Waiting(p)
        /\ Handled(x) <=> x \in Done
    BY <2>2 DEF Waiting, Done
  <2> HIDE DEF x, waits
  <2>4. PlaceInv /\ waits \subseteq Processors
    BY <1>1 DEF FrameInv, waits
  <2>5. \A p, q \in waits : p = q
    BY <2>3, <2>4 DEF PlaceInv
  <2>6. \/ waits # {} /\ ~Handled(x) /\ x \notin dropped
        \/ waits = {} /\ Handled(x) /\ x \notin dropped
        \/ waits = {} /\ ~Handled(x) /\ x \in dropped
    BY <2>2, <2>3, <2>4 DEF PlaceInv
  <2> QED BY <2>5, <2>6 DEF x, waits
<1> QED
  BY <1>1, FrameInvariant, PTL
===============================================================================
