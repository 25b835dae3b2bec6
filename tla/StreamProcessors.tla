--------------------------- MODULE StreamProcessors ---------------------------
(***************************************************************************)
(* The stream processors of TcpServer (include/tcp_server.h):              *)
(* processIncomingData hands each frame to the processor of its stream, a  *)
(* queue with a worker thread; cleanupInactiveStreams removes processors   *)
(* that only the map refers to; stop() removes them all.  Nothing in the   *)
(* tree calls processIncomingData: feeders stand for the threads of the    *)
(* clients that would, one thread per client.                              *)
(*                                                                         *)
(* A frame is <<feeder, number>>, numbered in the order the feeder comes   *)
(* to it.  Processors are shared: what a feeder holds and the map's entry  *)
(* are the references use_count() counts, and whoever drops the last one   *)
(* runs the destructor, which stops the worker and joins it.               *)
(***************************************************************************)
EXTENDS Integers, Sequences, SequencesExt

CONSTANTS Feeders,       \* threads that call processIncomingData
          Streams,       \* stream ids
          MaxFrames,     \* bound on the frames of a feeder
          MaxProcessors, \* bound on the processors ever made
          None           \* "no processor", "no frame"

ASSUME ProcessorAssumption == /\ MaxFrames \in Nat /\ MaxProcessors \in Nat
                              /\ None \notin 1 .. MaxProcessors
                              /\ None \notin Feeders \X (1 .. MaxFrames)

VARIABLES
  running,    \* running_ of the server
  main,       \* where stop() stands
  cleaner,    \* where the thread of cleanupInactiveStreams stands
  removing,   \* its streams_to_remove
  mutex,      \* stream_processors_mutex_: "free" or who holds it across a step
  map,        \* map[s]: the processor of s in stream_processors_, or None
  created,    \* the processors made so far are 1 .. created
  streamOf,   \* streamOf[p]: its stream_id
  active,     \* active[p]: its running
  worker,     \* worker[p]: where its worker_thread stands
  queue,      \* queue[p]: its frame_queue
  frame,      \* frame[p]: the frame its worker has taken
  feeder,     \* feeder[f]: where f stands in processIncomingData
  holds,      \* holds[f]: the processor its shared_ptr refers to
  fed,        \* fed[f]: the frames it has come to
  target,     \* target[f]: the stream of the last one
  handled,    \* handled[s]: the frames of s given to the callbacks, in order
  dropped     \* the frames that were in the queue of a processor destroyed

mapVars == <<mutex, map>>
procVars == <<created, streamOf, active, worker, queue, frame>>
feederVars == <<feeder, holds, fed, target>>
stopVars == <<running, main>>
cleanerVars == <<cleaner, removing>>
ghosts == <<handled, dropped>>
vars == <<stopVars, cleanerVars, mapVars, procVars, feederVars, ghosts>>

Processors == 1 .. MaxProcessors

Init == /\ running = TRUE /\ main = "up" /\ cleaner = "sleep" /\ removing = {}
        /\ mutex = "free" /\ map = [s \in Streams |-> None]
        /\ created = 0 /\ streamOf = [p \in Processors |-> None]
        /\ active = [p \in Processors |-> FALSE]
        /\ worker = [p \in Processors |-> "none"]
        /\ queue = [p \in Processors |-> << >>] /\ frame = [p \in Processors |-> None]
        /\ feeder = [f \in Feeders |-> "idle"] /\ holds = [f \in Feeders |-> None]
        /\ fed = [f \in Feeders |-> 0] /\ target = [f \in Feeders |-> None]
        /\ handled = [s \in Streams |-> << >>] /\ dropped = {}

-------------------------------------------------------------------------------
(* The life of a processor.                                                *)

InMap(p) == \E s \in Streams : map[s] = p
Holders(p) == {f \in Feeders : holds[f] = p}

\* Seeded fault: a worker at work looks at the queue again, too.
Always(w) == "woken"

\* queue_cv.notify_one.
Notified(w) == IF w = "wait" THEN "woken" ELSE w

\* ~StreamProcessor up to its join: it does not take queue_mutex.
Destroy(p) == /\ active' = [active EXCEPT ![p] = FALSE]
              /\ worker' = [worker EXCEPT ![p] = Notified(@)]
              /\ UNCHANGED <<created, streamOf, queue, frame>>

\* Seeded fault: the destructor does not join the worker.
NoJoin(p) == TRUE

WorkerEnded(p) == worker[p] = "exited"

Joined(p) == /\ WorkerEnded(p)
             /\ dropped' = dropped \cup ToSet(queue[p])
             /\ queue' = [queue EXCEPT ![p] = << >>]
             /\ UNCHANGED <<created, streamOf, active, worker, frame, handled>>

-------------------------------------------------------------------------------
(* processLoop.                                                            *)

WorkerGoto(p, from, to) == worker[p] = from /\ worker' = [worker EXCEPT ![p] = to]

NotWorker == <<stopVars, cleanerVars, mapVars, feederVars, dropped, created, streamOf, active>>

WorkerLoop(p) == /\ WorkerGoto(p, "loop", IF active[p] THEN "look" ELSE "exited")
                 /\ UNCHANGED <<queue, frame, handled, NotWorker>>

\* Seeded faults: the newest frame is taken, or the frame is left in the queue.
Newest(q) == <<Last(q), Front(q)>>
LeftIn(q) == <<Head(q), q>>

Oldest(q) == <<Head(q), Tail(q)>>           \* front() and pop()

Take(p, from) == /\ queue[p] # << >> /\ WorkerGoto(p, from, "process")
                 /\ frame' = [frame EXCEPT ![p] = Oldest(queue[p])[1]]
                 /\ queue' = [queue EXCEPT ![p] = Oldest(queue[p])[2]]
                 /\ UNCHANGED <<handled, NotWorker>>

\* Under queue_mutex: take a frame, or wait.
Look(p) == \/ Take(p, "look")
           \/ /\ queue[p] = << >> /\ WorkerGoto(p, "look", "wait")
              /\ UNCHANGED <<queue, frame, handled, NotWorker>>

\* Seeded fault: wait instead of wait_for.
WaitsForever(p) == FALSE

TimeIsUp(p) == worker[p] = "wait"

\* The 100 ms of wait_for are over.
WaitTimesOut(p) == /\ TimeIsUp(p) /\ WorkerGoto(p, "wait", "woken")
                   /\ UNCHANGED <<queue, frame, handled, NotWorker>>

WakeUp(p) == \/ Take(p, "woken")
             \/ /\ queue[p] = << >> /\ WorkerGoto(p, "woken", "loop")
                /\ UNCHANGED <<queue, frame, handled, NotWorker>>

\* Seeded fault: what a callback throws ends the worker.
Ends == "exited"

AfterCallback == "loop"

\* The callbacks, under callback_mutex_; what they throw is caught.
Process(p) == /\ WorkerGoto(p, "process", AfterCallback)
              /\ handled' = [handled EXCEPT ![streamOf[p]] = Append(@, frame[p])]
              /\ frame' = [frame EXCEPT ![p] = None]
              /\ UNCHANGED <<queue, NotWorker>>

WorkerStep(p) == WorkerLoop(p) \/ Look(p) \/ WaitTimesOut(p) \/ WakeUp(p) \/ Process(p)

-------------------------------------------------------------------------------
(* processIncomingData.                                                    *)

FeederGoto(f, from, to) == feeder[f] = from /\ feeder' = [feeder EXCEPT ![f] = to]
NotFeeder == <<stopVars, cleanerVars>>

\* The next frame; once stop() has emptied clients_ there is none.
Begin(f, s) == /\ FeederGoto(f, "idle", "find") /\ main # "stopped" /\ fed[f] < MaxFrames
               /\ fed' = [fed EXCEPT ![f] = @ + 1]
               /\ target' = [target EXCEPT ![f] = s]
               /\ UNCHANGED <<holds, mapVars, procVars, ghosts, NotFeeder>>

\* Under stream_processors_mutex_: find the processor, or make it.
Find(f) ==
    LET s == target[f] IN
    /\ FeederGoto(f, "find", "add") /\ mutex = "free"
    /\ \/ /\ map[s] # None /\ holds' = [holds EXCEPT ![f] = map[s]]
          /\ UNCHANGED <<map, procVars>>
       \/ /\ map[s] = None /\ created < MaxProcessors
          /\ created' = created + 1
          /\ streamOf' = [streamOf EXCEPT ![created + 1] = s]
          /\ active' = [active EXCEPT ![created + 1] = TRUE]
          /\ worker' = [worker EXCEPT ![created + 1] = "loop"]
          /\ map' = [map EXCEPT ![s] = created + 1]
          /\ holds' = [holds EXCEPT ![f] = created + 1]
          /\ UNCHANGED <<queue, frame>>
    /\ UNCHANGED <<fed, target, mutex, ghosts, NotFeeder>>

\* addFrame, outside stream_processors_mutex_.
Add(f) == /\ FeederGoto(f, "add", "release")
          /\ queue' = [queue EXCEPT ![holds[f]] = Append(@, <<f, fed[f]>>)]
          /\ worker' = [worker EXCEPT ![holds[f]] = Notified(@)]
          /\ UNCHANGED <<holds, fed, target, mapVars, created, streamOf, active, frame,
                         ghosts, NotFeeder>>

\* The shared_ptr goes out of scope; the last one destroys the processor.
LastHolder(f) == ~InMap(holds[f]) /\ Holders(holds[f]) = {f}

Release(f) ==
    /\ \/ /\ ~LastHolder(f) /\ FeederGoto(f, "release", "idle")
          /\ holds' = [holds EXCEPT ![f] = None] /\ UNCHANGED procVars
       \/ /\ LastHolder(f) /\ FeederGoto(f, "release", "join")
          /\ Destroy(holds[f]) /\ UNCHANGED holds
    /\ UNCHANGED <<fed, target, mapVars, ghosts, NotFeeder>>

FeederJoins(f) == /\ FeederGoto(f, "join", "idle") /\ Joined(holds[f])
                  /\ holds' = [holds EXCEPT ![f] = None]
                  /\ UNCHANGED <<fed, target, mapVars, NotFeeder>>

FeederStep(f) == Find(f) \/ Add(f) \/ Release(f) \/ FeederJoins(f)

-------------------------------------------------------------------------------
(* cleanupInactiveStreams. It holds stream_processors_mutex_ throughout.   *)

\* Seeded fault: processors are removed whoever refers to them.
Unreferenced(p) == TRUE

OnlyInMap(p) == Holders(p) = {}

CleanerWakes == /\ cleaner = "sleep" /\ mutex = "free"
                /\ cleaner' = "remove" /\ mutex' = "cleaner"
                /\ removing' = {s \in Streams : map[s] # None /\ OnlyInMap(map[s])}
                /\ UNCHANGED <<stopVars, map, procVars, feederVars, ghosts>>

RemoveStream(s) == /\ cleaner = "remove" /\ s \in removing /\ cleaner' = "join"
             /\ Destroy(map[s])
             /\ UNCHANGED <<stopVars, removing, mapVars, feederVars, ghosts>>

CleanerJoins(s) == /\ cleaner = "join" /\ s \in removing /\ ~active[map[s]]
                   /\ cleaner' = "remove" /\ removing' = removing \ {s}
                   /\ map' = [map EXCEPT ![s] = None]
                   /\ Joined(map[s])
                   /\ UNCHANGED <<stopVars, mutex, feederVars>>

CleanerDone == /\ cleaner = "remove" /\ removing = {}
               /\ cleaner' = IF running THEN "sleep" ELSE "exited"
               /\ mutex' = "free"
               /\ UNCHANGED <<stopVars, removing, map, procVars, feederVars, ghosts>>

CleanerStep == \/ CleanerWakes \/ CleanerDone
               \/ \E s \in Streams : RemoveStream(s) \/ CleanerJoins(s)

-------------------------------------------------------------------------------
(* stop(): join the cleaner, clear the map under its mutex, then clients_. *)

MainGoto(from, to) == main = from /\ main' = to

BeginStop == /\ MainGoto("up", "joinCleaner") /\ running' = FALSE
             /\ UNCHANGED <<cleanerVars, mapVars, procVars, feederVars, ghosts>>

JoinCleaner == /\ MainGoto("joinCleaner", "clear") /\ cleaner = "exited"
               /\ mutex = "free" /\ mutex' = "main"
               /\ UNCHANGED <<running, cleanerVars, map, procVars, feederVars, ghosts>>

\* clear(): one entry after the other goes, and its processor with it if nobody
\* else refers to it.
ClearOne(s) ==
    /\ map[s] # None
    /\ \/ /\ OnlyInMap(map[s]) /\ MainGoto("clear", "join") /\ Destroy(map[s])
          /\ UNCHANGED <<map, ghosts>>
       \/ /\ ~active[map[s]] /\ MainGoto("join", "clear") /\ Joined(map[s])
          /\ map' = [map EXCEPT ![s] = None]
       \/ /\ ~OnlyInMap(map[s]) /\ main = "clear" /\ UNCHANGED main
          /\ map' = [map EXCEPT ![s] = None] /\ UNCHANGED <<procVars, ghosts>>
    /\ UNCHANGED <<running, cleanerVars, mutex, feederVars>>

Cleared == /\ MainGoto("clear", "clients") /\ \A s \in Streams : map[s] = None
           /\ mutex' = "free"
           /\ UNCHANGED <<running, cleanerVars, map, procVars, feederVars, ghosts>>

ClearClients == /\ MainGoto("clients", "stopped")
                /\ UNCHANGED <<running, cleanerVars, mapVars, procVars, feederVars, ghosts>>

StopStep == JoinCleaner \/ (\E s \in Streams : ClearOne(s)) \/ Cleared \/ ClearClients

-------------------------------------------------------------------------------
Next == \/ BeginStop \/ StopStep \/ CleanerStep
        \/ \E f \in Feeders : FeederStep(f) \/ \E s \in Streams : Begin(f, s)
        \/ \E p \in Processors : WorkerStep(p)

Spec == Init /\ [][Next]_vars

(***************************************************************************)
(* Every thread keeps running, wait_for ends when its time is over, and    *)
(* the cleaner's 60 s do; while the server runs, they may last.  Nothing   *)
(* obliges frames to come or stop() to be called.                          *)
(***************************************************************************)
Fairness == /\ \A p \in Processors : WF_vars(WorkerStep(p))
            /\ \A f \in Feeders : WF_vars(FeederStep(f))
            /\ WF_vars((~running \/ cleaner # "sleep") /\ CleanerStep) /\ WF_vars(StopStep)

FairSpec == Spec /\ Fairness

-------------------------------------------------------------------------------
Frames == Feeders \X (1 .. MaxFrames)

TypeOK ==
    /\ running \in BOOLEAN
    /\ main \in {"up", "joinCleaner", "clear", "join", "clients", "stopped"}
    /\ cleaner \in {"sleep", "remove", "join", "exited"} /\ removing \subseteq Streams
    /\ mutex \in {"free", "cleaner", "main"}
    /\ map \in [Streams -> Processors \cup {None}] /\ created \in 0 .. MaxProcessors
    /\ streamOf \in [Processors -> Streams \cup {None}]
    /\ active \in [Processors -> BOOLEAN]
    /\ worker \in [Processors -> {"none", "loop", "look", "wait", "woken", "process",
                                  "exited"}]
    /\ queue \in [Processors -> Seq(Frames)]
    /\ frame \in [Processors -> Frames \cup {None}]
    /\ \A p \in Processors : frame[p] # None <=> worker[p] = "process"
    /\ feeder \in [Feeders -> {"idle", "find", "add", "release", "join"}]
    /\ holds \in [Feeders -> Processors \cup {None}]
    /\ fed \in [Feeders -> 0 .. MaxFrames] /\ target \in [Feeders -> Streams \cup {None}]
    /\ handled \in [Streams -> Seq(Frames)] /\ dropped \subseteq Frames

\* While the server runs, a stream has one worker: a processor that is removed has
\* ended before the stream gets another.
AtWork(p) == worker[p] \notin {"none", "exited"}

OneWorkerPerStream ==
    running => \A p, q \in Processors :
                 (AtWork(p) /\ AtWork(q) /\ streamOf[p] = streamOf[q]) => p = q

\* What a feeder holds is alive, whatever the cleaner and stop() remove: its frame
\* goes to a worker that will look for it.
HeldIsActive ==
    \A f \in Feeders : feeder[f] \in {"add", "release"} => active[holds[f]] /\ AtWork(holds[f])

\* The callbacks see the frames of a client on a stream in the order they came, each
\* at most once, while the server runs: also across the removal of the processor.
FramesInOrder ==
    running => \A s \in Streams : \A i, j \in 1 .. Len(handled[s]) :
                 (i < j /\ handled[s][i][1] = handled[s][j][1])
                     => handled[s][i][2] < handled[s][j][2]

\* Every frame that was added is in one place: it has been handled, waits in a queue
\* or is in a worker's hands, or went with the queue of a processor that ended.
Added(f) == 1 .. IF feeder[f] \in {"find", "add"} THEN fed[f] - 1 ELSE fed[f]
Handled(x) == \E s \in Streams : x \in ToSet(handled[s])
Queued(x, p) == x \in ToSet(queue[p]) \/ x = frame[p]

FramesAccounted ==
    \A f \in Feeders : \A n \in Added(f) :
        LET x == <<f, n>>
            waits == {p \in Processors : Queued(x, p)}
        IN /\ \A p, q \in waits : p = q
           /\ \/ waits # {} /\ ~Handled(x) /\ x \notin dropped
              \/ waits = {} /\ Handled(x) /\ x \notin dropped
              \/ waits = {} /\ ~Handled(x) /\ x \in dropped

\* Every frame is handled, unless its processor is removed before.
FramesHandled ==
    \A f \in Feeders, n \in 1 .. MaxFrames :
        (n \in Added(f)) ~> (Handled(<<f, n>>) \/ <<f, n>> \in dropped)

\* stop() gets through: the joins of the cleaner and of the workers end, although the
\* destructor's notify_one may fall between a worker's look at running and its wait.
StopEnds == main = "joinCleaner" ~> main = "stopped"
===============================================================================
