----------------------------- MODULE ProofOfWork -----------------------------
(***************************************************************************)
(* The search of insertBlock for a nonce whose payload meets the           *)
(* difficulty, by the threads of a POW object (onionrproofs.py) or by the  *)
(* processes of a SubprocessPOW (subprocesspow.py).                        *)
(*                                                                         *)
(* A worker is a thread of POW, or a child process and the thread of the   *)
(* parent that monitors it.  The payload that a worker finds is named by   *)
(* the worker: each one searches from a nonce of its own, or finds the     *)
(* same payload as the others.                                             *)
(*                                                                         *)
(* SubprocessPOW.shutdown is left out, since nothing reads it, and so is   *)
(* the poll of a child for 'shutdown', which its monitor sends only after  *)
(* p.join() has seen the child end.                                        *)
(***************************************************************************)
CONSTANTS Workers, Nothing, Pending,
          Methods,      \* what powchoice.use_subprocess may choose
          Fits          \* whether a payload fits the buffer of a pipe: what may be the case

ASSUME PowConstants ==
  /\ Nothing \notin Workers /\ Pending \notin Workers \cup {Nothing}
  /\ Methods \subseteq {"threads", "processes"}
  /\ Fits \subseteq BOOLEAN

VARIABLES
  method, fits,    \* of this search, chosen before it starts
  worker,          \* how far each worker is
  caller,          \* how far the caller is, in waitForResult or in start
  taken,           \* whose payload it holds, or Nothing
  \* of a POW object
  hashing,         \* "unset" until a thread sets it
  stopped,         \* has shutdown() replaced the puzzle by ''?
  result, retVal,  \* the attribute result, and the local variable of getResult
  \* of a SubprocessPOW
  monitor, pipe,   \* how far each monitor is, and the pipes that hold a payload
  payload,
  \* what happened, for the properties
  found            \* the workers that found a payload

frozen == <<method, fits>>
threadVars == <<hashing, stopped, result, retVal>>
processVars == <<monitor, pipe, payload>>
vars == <<frozen, worker, caller, taken, threadVars, processVars, found>>

Threads == method = "threads"
Processes == method = "processes"

Become(w, from, to) ==
  worker[w] = from /\ worker' = [worker EXCEPT ![w] = to]

-----------------------------------------------------------------------------
(* POW.pow, one thread. *)

Begin(w) ==
  /\ Threads
  /\ Become(w, "new", "test")
  /\ hashing' = "on"
  /\ UNCHANGED <<frozen, caller, taken, stopped, result, retVal, processVars, found>>

\* The condition of the loop.
Test(w) ==
  /\ Threads
  /\ IF hashing = "on" THEN Become(w, "test", "try") ELSE Become(w, "test", "done")
  /\ UNCHANGED <<frozen, caller, taken, threadVars, processVars, found>>

Miss(w) ==
  /\ Threads
  /\ Become(w, "try", "test")
  /\ UNCHANGED <<frozen, caller, taken, threadVars, processVars, found>>

\* Fault: the other threads and the caller are not told.
FindUntold(w) ==
  /\ Threads /\ ~stopped
  /\ Become(w, "try", "publish")
  /\ found' = found \cup {w}
  /\ UNCHANGED <<frozen, caller, taken, threadVars, processVars>>

\* The token begins with the puzzle.  None does after shutdown(): a slice of the
\* token is not ''.
Find(w) ==
  /\ Threads /\ ~stopped
  /\ Become(w, "try", "publish")
  /\ hashing' = "off"
  /\ found' = found \cup {w}
  /\ UNCHANGED <<frozen, caller, taken, stopped, result, retVal, processVars>>

\* self.result = payload, after hashing has been reset.
Publish(w) ==
  /\ Threads
  /\ Become(w, "publish", "done")
  /\ result' = w
  /\ UNCHANGED <<frozen, caller, taken, hashing, stopped, retVal, processVars, found>>

ThreadStep(w) == Begin(w) \/ Test(w) \/ Miss(w) \/ Find(w) \/ Publish(w)

-----------------------------------------------------------------------------
(* waitForResult and getResult. *)

Goto(from, to) == caller = from /\ caller' = to

\* getResult reads the attribute,
Read ==
  /\ Threads /\ Goto("read", "clear")
  /\ retVal' = result
  /\ UNCHANGED <<frozen, worker, taken, hashing, stopped, result, processVars, found>>

\* and then resets it, whatever it is by then.
Clear ==
  /\ Threads /\ Goto("clear", "check")
  /\ result' = Nothing
  /\ taken' = retVal
  /\ UNCHANGED <<frozen, worker, hashing, stopped, retVal, processVars, found>>

\* `if not self.hashing', which raises AttributeError when no thread has set it.
CheckHashing ==
  /\ Threads
  /\ \/ hashing = "on" /\ Goto("check", "read")
     \/ hashing = "off" /\ Goto("check", "returned")
     \/ hashing = "unset" /\ Goto("check", "raised")
  /\ UNCHANGED <<frozen, worker, taken, threadVars, processVars, found>>

\* KeyboardInterrupt: waitForResult calls shutdown() and returns what it holds,
Interrupt ==
  /\ Threads
  /\ caller \in {"read", "clear", "check"} /\ caller' = "stopping"
  /\ hashing' = "off" /\ stopped' = TRUE
  /\ UNCHANGED <<frozen, worker, taken, result, retVal, processVars, found>>

GiveUp ==
  /\ Threads /\ Goto("stopping", "returned")
  /\ UNCHANGED <<frozen, worker, taken, threadVars, processVars, found>>

-----------------------------------------------------------------------------
(* SubprocessPOW: do_pow in a child, _spawn_proc in its monitor. *)

Watch(w, from, to) ==
  Processes /\ monitor[w] = from /\ monitor' = [monitor EXCEPT ![w] = to]

Spawn(w) ==
  /\ Watch(w, "spawn", "join")
  /\ Become(w, "new", "try")
  /\ UNCHANGED <<frozen, caller, taken, threadVars, pipe, payload, found>>

\* A child goes through the nonces until one meets the difficulty,
Solve(w) ==
  /\ Processes
  /\ Become(w, "try", "send")
  /\ found' = found \cup {w}
  /\ UNCHANGED <<frozen, caller, taken, threadVars, processVars>>

\* and sends it: nobody reads the pipe before the child ends, so pipe.send returns
\* only if the payload fits the buffer of the pipe.
Deliver(w) ==
  /\ Processes /\ fits
  /\ Become(w, "send", "done")
  /\ pipe' = pipe \cup {w}
  /\ UNCHANGED <<frozen, caller, taken, threadVars, monitor, payload, found>>

\* The child is killed.
Die(w) ==
  /\ Processes
  /\ worker[w] \in {"try", "send"} /\ worker' = [worker EXCEPT ![w] = "dead"]
  /\ UNCHANGED <<frozen, caller, taken, threadVars, processVars, found>>

Join(w) ==
  /\ worker[w] \in {"done", "dead"}
  /\ Watch(w, "join", "receive")
  /\ UNCHANGED <<frozen, worker, caller, taken, threadVars, pipe, payload, found>>

\* recv waits for ever if the child died: the parent holds the other end itself.
Receive(w) ==
  /\ w \in pipe
  /\ Watch(w, "receive", "announce")
  /\ pipe' = pipe \ {w}
  /\ UNCHANGED <<frozen, worker, caller, taken, threadVars, payload, found>>

Announce(w) ==
  /\ Watch(w, "announce", "ended")
  /\ payload' = w
  /\ UNCHANGED <<frozen, worker, caller, taken, threadVars, pipe, found>>

MonitorStep(w) == Spawn(w) \/ Join(w) \/ Receive(w) \/ Announce(w)

\* Fault: the payload is not waited for.
PollOnce ==
  /\ Processes
  /\ Goto("poll", "return")
  /\ UNCHANGED <<frozen, worker, taken, threadVars, processVars, found>>

\* start() sees that there is a payload,
Poll ==
  /\ Processes /\ payload # Nothing
  /\ Goto("poll", "return")
  /\ UNCHANGED <<frozen, worker, taken, threadVars, processVars, found>>

\* and returns the one there is by then.
Return ==
  /\ Processes /\ Goto("return", "returned")
  /\ taken' = payload
  /\ UNCHANGED <<frozen, worker, threadVars, processVars, found>>

\* KeyboardInterrupt, which start() does not catch.
Abandon ==
  /\ Processes /\ caller \in {"poll", "return"} /\ caller' = "raised"
  /\ UNCHANGED <<frozen, worker, taken, threadVars, processVars, found>>

-----------------------------------------------------------------------------

Init ==
  /\ method \in Methods
  /\ fits \in Fits
  /\ worker = [w \in Workers |-> "new"]
  /\ caller = IF Threads THEN "read" ELSE "poll"
  /\ taken = Nothing
  /\ hashing = "unset" /\ stopped = FALSE /\ result = Nothing /\ retVal = Nothing
  /\ monitor = [w \in Workers |-> "spawn"] /\ pipe = {} /\ payload = Nothing
  /\ found = {}

CallerStep == Read \/ Clear \/ CheckHashing \/ GiveUp \/ Poll \/ Return

Next ==
  \/ \E w \in Workers :
       \/ ThreadStep(w) \/ MonitorStep(w)
       \/ Solve(w) \/ Deliver(w) \/ Die(w)
  \/ CallerStep
  \/ Interrupt \/ Abandon

Spec == Init /\ [][Next]_vars

-----------------------------------------------------------------------------
(* Safety. *)

TypeOK ==
  /\ method \in {"threads", "processes"} /\ fits \in BOOLEAN
  /\ worker \in [Workers -> {"new", "test", "try", "publish", "send", "done", "dead"}]
  /\ caller \in IF Threads THEN {"read", "clear", "check", "stopping", "returned", "raised"}
                           ELSE {"poll", "return", "returned", "raised"}
  /\ taken \in Workers \cup {Nothing}
  /\ hashing \in {"unset", "on", "off"} /\ stopped \in BOOLEAN
  /\ result \in Workers \cup {Nothing} /\ retVal \in Workers \cup {Nothing}
  /\ monitor \in [Workers -> {"spawn", "join", "receive", "announce", "ended"}]
  /\ pipe \subseteq Workers /\ payload \in Workers \cup {Nothing}
  /\ found \subseteq Workers

\* What the caller has been answered.
Answer == IF caller = "returned" THEN taken ELSE Pending

Search == INSTANCE ProofSearch WITH interrupted <- stopped, answer <- Answer

(***************************************************************************)
(* Both ways of searching answer the caller of POW.waitForResult or        *)
(* SubprocessPOW.start at most once, with a payload that a worker found.   *)
(* Processes answer nothing else, although their monitors overwrite each   *)
(* other's payload while the caller reads it; threads may answer False,    *)
(* but only after an interrupt or after a payload was found.               *)
(***************************************************************************)
ImplementsSearch == Search!SearchSpec

-----------------------------------------------------------------------------
(* Liveness. *)

(***************************************************************************)
(* Threads and processes run, and a worker that tries again and again      *)
(* meets the difficulty, as every nonce may.                               *)
(***************************************************************************)
Fairness ==
  /\ WF_vars(CallerStep)
  /\ \A w \in Workers :
       /\ WF_vars(ThreadStep(w)) /\ SF_vars(Find(w))
       /\ WF_vars(MonitorStep(w)) /\ WF_vars(Solve(w)) /\ WF_vars(Deliver(w))

LiveSpec == Spec /\ Fairness

(***************************************************************************)
(* The caller does not wait for ever: a search by threads ends however     *)
(* late a thread sets hashing again, and one by processes ends if the      *)
(* payload fits the pipe and a child survives.                             *)
(***************************************************************************)
CallerGoesOn ==
  (Threads \/ (fits /\ [](\E w \in Workers : worker[w] # "dead")))
    => <>(caller \in {"returned", "raised"})

(***************************************************************************)
(* "Create a child proof of work process, wait for data and send shutdown  *)
(* signal when its found" (subprocesspow.py:78): what a child has found    *)
(* reaches the caller.                                                     *)
(***************************************************************************)
FoundIsReturned ==
  (found # {} /\ \A w \in Workers : worker[w] # "dead")
    ~> (caller \in {"returned", "raised"} \/ \E w \in Workers : worker[w] = "dead")

=============================================================================
