------------------------- MODULE CommunicatorTimers -------------------------
(***************************************************************************)
(* One timer of the communicator daemon, and the threads it starts.        *)
(*                                                                         *)
(* The main thread goes through all timers once a second.  A timer counts  *)
(* up to its frequency and then starts a thread, unless threadCounts says  *)
(* that maxThreads of them are running already.  Whoever runs the timer's  *)
(* function subtracts one from threadCounts at its end, also when it was   *)
(* called directly.  Neither `+=' nor `-=' is atomic: they read the entry  *)
(* of the dictionary, and write it later.                                  *)
(***************************************************************************)
EXTENDS Integers, FiniteSets

CONSTANTS
  Functions,      \* the timer functions to look at
  Frequency,      \* of the timer
  Threads,        \* threads that the timer may start
  Callers,        \* threads of other timers that may call the function
  Drift,          \* bound of the model: how far below zero the thread count may get
  MayRaise        \* may the function end by an exception?

\* maxThreads of the timers of OnionrCommunicatorDaemon.__init__.
Limits ==
  [getOnlinePeers |-> 1, runCheck |-> 1, lookupBlocks |-> 1, getBlocks |-> 2,
   clearOfflinePeer |-> 5, clean_old_blocks |-> 5, lookupAdders |-> 5, cooldown_peer |-> 5,
   uploadBlock |-> 1, daemonCommands |-> 3, detectAPICrash |-> 1, service_creator |-> 50,
   insert_deniable_block |-> 1, net_check |-> 5, announce_node |-> 1, peerCleanup |-> 5,
   clean_keys |-> 1]

\* The timers with requiresPeer=True.
NeedPeer ==
  {"lookupBlocks", "getBlocks", "lookupAdders", "cooldown_peer", "uploadBlock",
   "insert_deniable_block", "announce_node", "peerCleanup"}

\* Called by peerAction when a peer does not answer, and by the announceNode command.
CalledDirectly == {"getOnlinePeers", "announce_node"}

ASSUME TimerConstants ==
  /\ Functions \subseteq DOMAIN Limits
  /\ Frequency \in Nat \ {0}
  /\ IsFiniteSet(Threads) /\ Drift \in Nat
  /\ Threads \cap Callers = {}
  /\ MayRaise \in BOOLEAN

VARIABLES
  function,     \* the function of this timer
  shutdown,     \* of the daemon
  main, held,   \* where the main thread is in processTimer, and what it has read
  count,        \* of the timer
  threadCount,  \* threadCounts[function.__name__]
  thread, read, \* where each thread is, and what it has read of threadCount
  \* what happened, for the properties
  overlapped,   \* an update of threadCount has begun during another one
  called,       \* the function has been called directly
  raised        \* it has raised an exception

mainVars == <<main, held, count>>
history == <<overlapped, called, raised>>
vars == <<function, shutdown, mainVars, threadCount, thread, read, history>>

MaxThreads == Limits[function]

\* The threads that run the function, or are at its end.
Running(T) == {t \in T : thread[t] # "free"}

\* Is anybody between the read and the write of an update?
Updating == main = "add" \/ \E t \in Threads \cup Callers : thread[t] = "subtract"

-----------------------------------------------------------------------------
(* processTimer, in the main thread. *)

Goto(from, to) == main = from /\ main' = to

\* It is time, and required peers are online,
Due ==
  /\ ~shutdown /\ count = Frequency
  /\ Goto("idle", "due")
  /\ UNCHANGED <<function, shutdown, held, count, threadCount, thread, read, history>>

\* or a required peer is missing and the timer starts over,
NoPeer ==
  /\ function \in NeedPeer
  /\ ~shutdown /\ count = Frequency
  /\ Goto("idle", "reset")
  /\ UNCHANGED <<function, shutdown, held, count, threadCount, thread, read, history>>

\* or it is not time yet.
NotDue ==
  /\ ~shutdown /\ count # Frequency
  /\ Goto("idle", "bump")
  /\ UNCHANGED <<function, shutdown, held, count, threadCount, thread, read, history>>

\* Fault: the limit is off by one.
LimitPassed == threadCount > MaxThreads

LimitReached == threadCount >= MaxThreads

TooMany ==
  /\ LimitReached
  /\ Goto("due", "reset")
  /\ UNCHANGED <<function, shutdown, held, count, threadCount, thread, read, history>>

NotTooMany ==
  /\ ~LimitReached
  /\ Goto("due", "begin")
  /\ UNCHANGED <<function, shutdown, held, count, threadCount, thread, read, history>>

\* The two halves of `threadCounts[...] += 1'.
ReadToAdd ==
  /\ Goto("begin", "add")
  /\ held' = threadCount
  /\ overlapped' = (overlapped \/ Updating)
  /\ UNCHANGED <<function, shutdown, count, threadCount, thread, read, called, raised>>

Add ==
  /\ Goto("add", "start")
  /\ threadCount' = held + 1
  /\ held' = 0
  /\ UNCHANGED <<function, shutdown, count, thread, read, history>>

Start(t) ==
  /\ Goto("start", "reset")
  /\ thread[t] = "free"
  /\ thread' = [thread EXCEPT ![t] = "running"]
  /\ UNCHANGED <<function, shutdown, held, count, threadCount, read, history>>

Reset ==
  /\ Goto("reset", "bump")
  /\ count' = -1
  /\ UNCHANGED <<function, shutdown, held, threadCount, thread, read, history>>

\* The two halves of `self.count += 1'.
ReadCount ==
  /\ Goto("bump", "bumping")
  /\ held' = count
  /\ UNCHANGED <<function, shutdown, count, threadCount, thread, read, history>>

Bump ==
  /\ Goto("bumping", "idle")
  /\ count' = held + 1
  /\ held' = 0
  /\ UNCHANGED <<function, shutdown, threadCount, thread, read, history>>

\* Fault: the count is set to the frequency, and passes it before it is looked at.
PexAtOnce ==
  /\ function = "lookupAdders"
  /\ count' = Frequency
  /\ UNCHANGED <<function, shutdown, main, held, threadCount, thread, read, history>>

\* The pex command, handled by a daemonCommands thread: look for peers soon.
Pex ==
  /\ function = "lookupAdders"
  /\ count' = Frequency - 1
  /\ UNCHANGED <<function, shutdown, main, held, threadCount, thread, read, history>>

\* The shutdown command: the loop of the main thread ends.
Shutdown ==
  /\ ~shutdown
  /\ shutdown' = TRUE
  /\ UNCHANGED <<function, mainVars, threadCount, thread, read, history>>

-----------------------------------------------------------------------------
(* The threads. *)

\* peerAction or the announceNode command calls the function, in its own thread.
Call(c) ==
  /\ function \in CalledDirectly
  /\ thread[c] = "free"
  /\ thread' = [thread EXCEPT ![c] = "running"]
  /\ called' = TRUE
  /\ UNCHANGED <<function, shutdown, mainVars, threadCount, read, overlapped, raised>>

\* Fault: the end of a thread is not counted.
FinishUncounted(t) ==
  /\ thread[t] = "running"
  /\ thread' = [thread EXCEPT ![t] = "free"]
  /\ UNCHANGED <<function, shutdown, mainVars, threadCount, read, history>>

\* The function is done: decrementThreadCount looks whether the count is positive.
Finish(t) ==
  /\ thread[t] = "running"
  /\ thread' = [thread EXCEPT ![t] = IF threadCount > 0 THEN "end" ELSE "free"]
  /\ UNCHANGED <<function, shutdown, mainVars, threadCount, read, history>>

\* The two halves of `threadCounts[...] -= 1'.  Once updates overlap, nothing
\* keeps the count from becoming negative but the bound of the model.
ReadToSubtract(t) ==
  /\ thread[t] = "end"
  /\ thread' = [thread EXCEPT ![t] = "subtract"]
  /\ read' = [read EXCEPT ![t] = threadCount]
  /\ overlapped' = (overlapped \/ Updating)
  /\ UNCHANGED <<function, shutdown, mainVars, threadCount, called, raised>>

Subtract(t) ==
  /\ thread[t] = "subtract"
  /\ read[t] > -Drift
  /\ thread' = [thread EXCEPT ![t] = "free"]
  /\ threadCount' = read[t] - 1
  /\ read' = [read EXCEPT ![t] = 0]
  /\ UNCHANGED <<function, shutdown, mainVars, history>>

\* An exception ends the function before it gets there.
Raise(t) ==
  /\ MayRaise
  /\ thread[t] = "running"
  /\ thread' = [thread EXCEPT ![t] = "free"]
  /\ raised' = TRUE
  /\ UNCHANGED <<function, shutdown, mainVars, threadCount, read, overlapped, called>>

-----------------------------------------------------------------------------

Init ==
  /\ function \in Functions
  /\ shutdown = FALSE
  /\ main = "idle" /\ held = 0
  /\ count \in 0 .. Frequency - 1   \* some timers start part of the way
  /\ threadCount = 0
  /\ thread = [t \in Threads \cup Callers |-> "free"]
  /\ read = [t \in Threads \cup Callers |-> 0]
  /\ overlapped = FALSE /\ called = FALSE /\ raised = FALSE

MainStep ==
  \/ Due \/ NoPeer \/ NotDue
  \/ TooMany \/ NotTooMany \/ ReadToAdd \/ Add \/ \E t \in Threads : Start(t)
  \/ Reset \/ ReadCount \/ Bump

EndStep(t) == Finish(t) \/ ReadToSubtract(t) \/ Subtract(t)

Next ==
  \/ MainStep
  \/ Pex \/ Shutdown
  \/ \E c \in Callers : Call(c)
  \/ \E t \in Threads \cup Callers : EndStep(t) \/ Raise(t)

Spec == Init /\ [][Next]_vars

-----------------------------------------------------------------------------
(* Safety. *)

TypeOK ==
  /\ function \in Functions /\ shutdown \in BOOLEAN
  /\ main \in {"idle", "due", "begin", "add", "start", "reset", "bump", "bumping"}
  /\ held \in Int /\ count \in Int /\ threadCount \in Int
  /\ thread \in [Threads \cup Callers -> {"free", "running", "end", "subtract"}]
  /\ read \in [Threads \cup Callers -> Int]
  /\ overlapped \in BOOLEAN /\ called \in BOOLEAN /\ raised \in BOOLEAN

\* Every thread that was started runs to its end, and nobody else counts.
Undisturbed == ~called /\ ~raised

(***************************************************************************)
(* threadCounts counts the threads that run the function, the one about to *)
(* start included, and keeps them within maxThreads, until two updates of  *)
(* it overlap, the function is called directly or it raises an exception   *)
(* (processTimer, onionrcommunicatortimers.py; decrementThreadCount).      *)
(***************************************************************************)
RunningAreCounted ==
  (Undisturbed /\ ~overlapped) =>
    /\ threadCount = Cardinality(Running(Threads)) + (IF main = "start" THEN 1 ELSE 0)
    /\ threadCount <= MaxThreads

(***************************************************************************)
(* A function with maxThreads=1 that nobody calls directly, such as        *)
(* lookupBlocks or uploadBlock, never runs twice at once, although the     *)
(* count is updated without a lock: the main thread adds only when no      *)
(* thread is left to subtract.                                             *)
(***************************************************************************)
OneAtATime ==
  (MaxThreads = 1 /\ Undisturbed) =>
    /\ ~overlapped
    /\ \A t, u \in Running(Threads) : t = u

(***************************************************************************)
(* The count never passes the frequency, which processTimer compares with  *)
(* `==', although the pex command sets it between any two steps of         *)
(* processTimer (daemonqueuehandler.py:46): otherwise the timer would      *)
(* never fire again.                                                       *)
(***************************************************************************)
NeverPassed == count <= Frequency

-----------------------------------------------------------------------------
(* Liveness. *)

(***************************************************************************)
(* The main loop and the threads run, and the peers that a function needs  *)
(* are online again and again when it is due.                              *)
(***************************************************************************)
Fairness ==
  /\ WF_vars(MainStep) /\ SF_vars(Due)
  /\ \A t \in Threads \cup Callers : WF_vars(EndStep(t))

LiveSpec == Spec /\ Fairness

(***************************************************************************)
(* Until the daemon is shut down, a timer starts threads again and again:  *)
(* no slot of threadCounts is lost and pex does not keep it from firing,   *)
(* unless updates overlap, or the function is called directly or raises.   *)
(***************************************************************************)
KeepsStarting ==
  [](~shutdown /\ Undisturbed /\ ~overlapped) => []<>(main = "start")

=============================================================================
