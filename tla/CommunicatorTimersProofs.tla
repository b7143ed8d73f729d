---------------------- MODULE CommunicatorTimersProofs ----------------------
(***************************************************************************)
(* What threadCounts and the count of a timer are good for, for every      *)
(* frequency and any number of threads.                                    *)
(***************************************************************************)
EXTENDS CommunicatorTimers, FiniteSetTheorems, TLAPS

\* Whether threadCounts is still to be relied upon.
Reliable == Undisturbed /\ ~overlapped

StartingOne == IF main = "start" THEN 1 ELSE 0

CountExact == Reliable => threadCount = Cardinality(Running(Threads)) + StartingOne

\* The main thread only goes on below the limit.
BelowLimit ==
  Reliable => /\ threadCount <= MaxThreads
              /\ main \in {"begin", "add"} => threadCount < MaxThreads

\* The one who updates the count knows it.
OneUpdate ==
  Reliable => /\ main = "add" => held = threadCount
              /\ \A t \in Threads : thread[t] = "subtract" =>
                   read[t] = threadCount /\ main # "add"
              /\ \A t, u \in Threads :
                   thread[t] = "subtract" /\ thread[u] = "subtract" => t = u

NobodyCalls == ~called => \A c \in Callers : thread[c] = "free"

AloneIsReliable == (MaxThreads = 1 /\ Undisturbed) => ~overlapped

\* The count is below the frequency before it is increased.
BelowFrequency ==
  /\ NeverPassed
  /\ main = "bump" => count < Frequency
  /\ main = "bumping" => held < Frequency

TimerInv ==
  /\ TypeOK /\ NobodyCalls /\ BelowFrequency
  /\ CountExact /\ BelowLimit /\ OneUpdate /\ AloneIsReliable

-----------------------------------------------------------------------------
(* The number of running threads. *)

LEMMA LimitsArePositive == \A f \in DOMAIN Limits : Limits[f] \in Nat \ {0}
  BY DEF Limits

LEMMA MaxIsPositive == function \in Functions => MaxThreads \in Nat \ {0}
  BY LimitsArePositive, TimerConstants DEF MaxThreads

LEMMA RunningIsFinite ==
  /\ IsFiniteSet(Running(Threads))
  /\ Cardinality(Running(Threads)) \in Nat
  BY TimerConstants, FS_Subset, FS_CardinalityType DEF Running

\* A thread that starts is one more, and one that ends is one less.
LEMMA OneMore ==
  ASSUME TypeOK, NEW t \in Threads, thread[t] = "free",
         thread' = [thread EXCEPT ![t] = "running"]
  PROVE  Cardinality(Running(Threads)') = Cardinality(Running(Threads)) + 1
<1>1. Running(Threads)' = Running(Threads) \cup {t} /\ t \notin Running(Threads)
  BY DEF Running, TypeOK
<1> QED
  BY <1>1, RunningIsFinite, FS_AddElement

LEMMA OneLess ==
  ASSUME TypeOK, NEW t \in Threads, thread[t] # "free",
         thread' = [thread EXCEPT ![t] = "free"]
  PROVE  Cardinality(Running(Threads)') = Cardinality(Running(Threads)) - 1
<1>1. Running(Threads)' = Running(Threads) \ {t} /\ t \in Running(Threads)
  BY DEF Running, TypeOK
<1> QED
  BY <1>1, RunningIsFinite, FS_RemoveElement

\* A thread that goes on, or one of the callers, changes nothing.
LEMMA AsMany ==
  ASSUME TypeOK, \A t \in Threads : thread[t] = "free" <=> thread'[t] = "free"
  PROVE  Cardinality(Running(Threads)') = Cardinality(Running(Threads))
  BY DEF Running

LEMMA SomeRunning ==
  ASSUME NEW t \in Running(Threads)
  PROVE  Cardinality(Running(Threads)) >= 1
  BY RunningIsFinite, FS_EmptySet

LEMMA TwoRunning ==
  ASSUME NEW t \in Running(Threads), NEW u \in Running(Threads), t # u
  PROVE  Cardinality(Running(Threads)) >= 2
<1>1. Cardinality(Running(Threads) \ {t}) = Cardinality(Running(Threads)) - 1
  BY RunningIsFinite, FS_RemoveElement
<1>2. IsFiniteSet(Running(Threads) \ {t}) /\ u \in Running(Threads) \ {t}
  BY RunningIsFinite, FS_RemoveElement
<1>3. Cardinality(Running(Threads) \ {t}) \in Nat \ {0}
  BY <1>2, FS_CardinalityType, FS_EmptySet
<1> QED
  BY <1>1, <1>3, RunningIsFinite

-----------------------------------------------------------------------------

LEMMA TimerInit == Init => TimerInv
<1> SUFFICES ASSUME Init PROVE TimerInv
  OBVIOUS
<1> USE DEF Init
<1>1. MaxThreads \in Nat \ {0}
  BY MaxIsPositive
<1>2. Running(Threads) = {}
  BY DEF Running
<1>3. Cardinality(Running(Threads)) = 0
  BY <1>2, FS_EmptySet
<1>4. TypeOK
  <2>1. held \in Int /\ count \in Int /\ threadCount \in Int
    BY TimerConstants
  <2>2. /\ thread \in [Threads \cup Callers -> {"free", "running", "end", "subtract"}]
        /\ read \in [Threads \cup Callers -> Int]
    OBVIOUS
  <2> QED
    BY <2>1, <2>2, Zenon DEF TypeOK
<1>5. NobodyCalls /\ BelowFrequency
  BY TimerConstants DEF NobodyCalls, BelowFrequency, NeverPassed
<1> QED
  BY <1>1, <1>3, <1>4, <1>5 DEF TimerInv, CountExact, BelowLimit, OneUpdate, AloneIsReliable, StartingOne

\* Zenon sees to the truth values, and SMT to the rest.
LEMMA FlagsStep ==
  TypeOK /\ [Next]_vars => /\ function' = function /\ shutdown' \in BOOLEAN
                           /\ overlapped' \in BOOLEAN /\ called' \in BOOLEAN
                           /\ raised' \in BOOLEAN
<1> SUFFICES ASSUME TypeOK, [Next]_vars
             PROVE  /\ function' = function /\ shutdown' \in BOOLEAN
                    /\ overlapped' \in BOOLEAN /\ called' \in BOOLEAN
                    /\ raised' \in BOOLEAN
  OBVIOUS
<1> USE DEF TypeOK, history
<1>1. CASE MainStep
  <2>1. CASE ReadToAdd
    BY <2>1 DEF ReadToAdd
  <2>2. CASE ~ReadToAdd
    BY <1>1, <2>2 DEF MainStep, Due, NoPeer, NotDue, TooMany, NotTooMany, Add, Start, Reset,
                      ReadCount, Bump
  <2> QED
    BY <2>1, <2>2
<1>2. CASE Pex \/ Shutdown
  BY <1>2 DEF Pex, Shutdown
<1>3. ASSUME NEW c \in Callers, Call(c)
      PROVE  /\ function' = function /\ shutdown' \in BOOLEAN
             /\ overlapped' \in BOOLEAN /\ called' \in BOOLEAN /\ raised' \in BOOLEAN
  BY <1>3 DEF Call
<1>4. ASSUME NEW t \in Threads \cup Callers, EndStep(t) \/ Raise(t)
      PROVE  /\ function' = function /\ shutdown' \in BOOLEAN
             /\ overlapped' \in BOOLEAN /\ called' \in BOOLEAN /\ raised' \in BOOLEAN
  BY <1>4 DEF EndStep, Finish, ReadToSubtract, Subtract, Raise
<1>5. CASE UNCHANGED vars
  BY <1>5 DEF vars
<1> QED
  BY <1>1, <1>2, <1>3, <1>4, <1>5 DEF Next

LEMMA TypeStep == TypeOK /\ [Next]_vars => TypeOK'
<1> SUFFICES ASSUME TypeOK, [Next]_vars
             PROVE  /\ main' \in {"idle", "due", "begin", "add", "start", "reset", "bump",
                                  "bumping"}
                    /\ held' \in Int /\ count' \in Int /\ threadCount' \in Int
                    /\ thread' \in [Threads \cup Callers ->
                                      {"free", "running", "end", "subtract"}]
                    /\ read' \in [Threads \cup Callers -> Int]
  BY FlagsStep DEF TypeOK
<1> USE DEF TypeOK, mainVars
<1>1. CASE MainStep
  BY <1>1 DEF MainStep, Due, NoPeer, NotDue, TooMany, NotTooMany, ReadToAdd, Add, Start,
              Reset, ReadCount, Bump, Goto
<1>2. CASE Pex \/ Shutdown
  BY <1>2, TimerConstants DEF Pex, Shutdown
<1>3. CASE \E c \in Callers : Call(c)
  BY <1>3 DEF Call
<1>4. CASE \E t \in Threads \cup Callers : EndStep(t) \/ Raise(t)
  BY <1>4 DEF EndStep, Finish, ReadToSubtract, Subtract, Raise
<1>5. CASE UNCHANGED vars
  BY <1>5 DEF vars
<1> QED
  BY <1>1, <1>2, <1>3, <1>4, <1>5 DEF Next

LEMMA BelowStep == TypeOK /\ BelowFrequency /\ [Next]_vars => BelowFrequency'
<1> SUFFICES ASSUME TypeOK, BelowFrequency, [Next]_vars PROVE BelowFrequency'
  OBVIOUS
<1> USE TimerConstants DEF TypeOK, BelowFrequency, NeverPassed, mainVars
<1>1. CASE MainStep
  BY <1>1 DEF MainStep, Due, NoPeer, NotDue, TooMany, NotTooMany, ReadToAdd, Add, Start,
              Reset, ReadCount, Bump, Goto
<1>2. CASE Pex \/ Shutdown
  BY <1>2 DEF Pex, Shutdown
<1>3. ASSUME NEW c \in Callers, Call(c) PROVE BelowFrequency'
  BY <1>3 DEF Call
<1>4. ASSUME NEW t \in Threads \cup Callers, EndStep(t) \/ Raise(t) PROVE BelowFrequency'
  BY <1>4 DEF EndStep, Finish, ReadToSubtract, Subtract, Raise
<1>5. CASE UNCHANGED vars
  BY <1>5 DEF vars
<1> QED
  BY <1>1, <1>2, <1>3, <1>4, <1>5 DEF Next

LEMMA CallsStep == TypeOK /\ NobodyCalls /\ [Next]_vars => NobodyCalls'
<1> SUFFICES ASSUME TypeOK, NobodyCalls, [Next]_vars PROVE NobodyCalls'
  OBVIOUS
<1> USE TimerConstants DEF TypeOK, NobodyCalls, mainVars, history
<1>1. CASE MainStep
  BY <1>1 DEF MainStep, Due, NoPeer, NotDue, TooMany, NotTooMany, ReadToAdd, Add, Start,
              Reset, ReadCount, Bump
<1>2. CASE Pex \/ Shutdown
  BY <1>2 DEF Pex, Shutdown
<1>3. ASSUME NEW c \in Callers, Call(c) PROVE NobodyCalls'
  BY <1>3 DEF Call
<1>4. ASSUME NEW t \in Threads \cup Callers, EndStep(t) \/ Raise(t) PROVE NobodyCalls'
  BY <1>4 DEF EndStep, Finish, ReadToSubtract, Subtract, Raise
<1>5. CASE UNCHANGED vars
  BY <1>5 DEF vars
<1> QED
  BY <1>1, <1>2, <1>3, <1>4, <1>5 DEF Next

\* What is left of a step that is not reliable, or was not.
LEMMA StaysUnreliable == [Next]_vars => (Reliable' => Reliable)
<1> SUFFICES ASSUME [Next]_vars, Reliable' PROVE Reliable
  OBVIOUS
<1> USE DEF Reliable, Undisturbed, history
<1>1. CASE MainStep
  <2>1. CASE ReadToAdd
    BY <2>1 DEF ReadToAdd
  <2>2. CASE ~ReadToAdd
    BY <1>1, <2>2 DEF MainStep, Due, NoPeer, NotDue, TooMany, NotTooMany, Add, Start, Reset,
                      ReadCount, Bump
  <2> QED
    BY <2>1, <2>2
<1>2. CASE Pex \/ Shutdown \/ \E c \in Callers : Call(c)
  BY <1>2 DEF Pex, Shutdown, Call
<1>3. ASSUME NEW t \in Threads \cup Callers, EndStep(t) \/ Raise(t) PROVE Reliable
  <2>1. CASE ReadToSubtract(t)
    BY <2>1 DEF ReadToSubtract
  <2>2. CASE Raise(t)
    BY <2>2 DEF Raise
  <2>3. CASE Finish(t) \/ Subtract(t)
    BY <2>3 DEF Finish, Subtract
  <2> QED
    BY <1>3, <2>1, <2>2, <2>3 DEF EndStep
<1>4. CASE UNCHANGED vars
  BY <1>4 DEF vars
<1> QED
  BY <1>1, <1>2, <1>3, <1>4 DEF Next

\* Among reliable steps nobody calls the function, so that every thread counts.
LEMMA OnlyThreads ==
  ASSUME TimerInv, Reliable, NEW t \in Threads \cup Callers, thread[t] # "free"
  PROVE  t \in Threads /\ t \in Running(Threads)
  BY DEF TimerInv, NobodyCalls, Reliable, Undisturbed, Running

\* The three formulas about the count are one induction.
Exact ==
  /\ threadCount = Cardinality(Running(Threads)) + StartingOne
  /\ threadCount <= MaxThreads
  /\ main \in {"begin", "add"} => threadCount < MaxThreads
  /\ main = "add" => held = threadCount
  /\ \A t \in Threads : thread[t] = "subtract" => read[t] = threadCount /\ main # "add"
  /\ \A t, u \in Threads : thread[t] = "subtract" /\ thread[u] = "subtract" => t = u

LEMMA ExactMeans == (CountExact /\ BelowLimit /\ OneUpdate) <=> (Reliable => Exact)
  BY DEF CountExact, BelowLimit, OneUpdate, Exact

LEMMA ExactMain ==
  ASSUME TimerInv, Reliable, Reliable', MainStep PROVE Exact'
<1> USE DEF TypeOK, mainVars, history, MaxThreads, StartingOne
<1>0. Exact /\ TypeOK /\ Cardinality(Running(Threads)) \in Nat /\ MaxThreads \in Nat
  BY ExactMeans, RunningIsFinite, MaxIsPositive DEF TimerInv
<1>1. CASE Due \/ NoPeer \/ NotDue \/ TooMany \/ NotTooMany \/ Reset \/ ReadCount \/ Bump
  <2>1. Cardinality(Running(Threads)') = Cardinality(Running(Threads)) /\ thread' = thread
    BY <1>0, <1>1, AsMany DEF Due, NoPeer, NotDue, TooMany, NotTooMany, Reset, ReadCount, Bump
  <2> QED
    BY <1>0, <1>1, <2>1
       DEF Exact, Due, NoPeer, NotDue, TooMany, NotTooMany, Reset, ReadCount, Bump, Goto,
           LimitReached
<1>2. CASE ReadToAdd
  <2>1. Cardinality(Running(Threads)') = Cardinality(Running(Threads)) /\ thread' = thread
    BY <1>0, <1>2, AsMany DEF ReadToAdd
  <2>2. \A t \in Threads : thread[t] # "subtract"
    BY <1>2 DEF ReadToAdd, Updating, Reliable
  <2> QED
    BY <1>0, <1>2, <2>1, <2>2 DEF Exact, ReadToAdd, Goto
<1>3. CASE Add
  <2>1. Cardinality(Running(Threads)') = Cardinality(Running(Threads)) /\ thread' = thread
    BY <1>0, <1>3, AsMany DEF Add
  <2> QED
    BY <1>0, <1>3, <2>1 DEF Exact, Add, Goto
<1>4. ASSUME NEW t \in Threads, Start(t) PROVE Exact'
  <2>1. Cardinality(Running(Threads)') = Cardinality(Running(Threads)) + 1
    BY <1>0, <1>4, OneMore DEF Start
  <2> QED
    BY <1>0, <1>4, <2>1 DEF Exact, Start, Goto
<1> QED
  BY <1>1, <1>2, <1>3, <1>4 DEF MainStep

LEMMA ExactEnd ==
  ASSUME TimerInv, Reliable, Reliable', NEW t \in Threads \cup Callers, EndStep(t)
  PROVE  Exact'
<1> USE DEF TypeOK, mainVars, history, MaxThreads, StartingOne
<1>0. Exact /\ TypeOK /\ Cardinality(Running(Threads)) \in Nat /\ MaxThreads \in Nat
  BY ExactMeans, RunningIsFinite, MaxIsPositive DEF TimerInv
<1>1. t \in Threads /\ t \in Running(Threads)
  BY OnlyThreads DEF EndStep, Finish, ReadToSubtract, Subtract
<1>2. CASE Finish(t)
  <2>1. threadCount > 0
    BY <1>0, <1>1, SomeRunning DEF Exact
  <2>2. thread' = [thread EXCEPT ![t] = "end"]
    BY <1>2, <2>1 DEF Finish
  <2>3. Cardinality(Running(Threads)') = Cardinality(Running(Threads))
    BY <1>0, <1>1, <1>2, <2>2, AsMany DEF Finish
  <2> QED
    BY <1>0, <1>1, <1>2, <2>2, <2>3 DEF Exact, Finish
<1>3. CASE ReadToSubtract(t)
  <2>1. Cardinality(Running(Threads)') = Cardinality(Running(Threads))
    BY <1>0, <1>1, <1>3, AsMany DEF ReadToSubtract
  <2>2. main # "add" /\ \A u \in Threads : thread[u] # "subtract"
    BY <1>3 DEF ReadToSubtract, Updating, Reliable
  <2> QED
    BY <1>0, <1>1, <1>3, <2>1, <2>2 DEF Exact, ReadToSubtract
<1>4. CASE Subtract(t)
  <2>1. Cardinality(Running(Threads)') = Cardinality(Running(Threads)) - 1
    BY <1>0, <1>1, <1>4, OneLess DEF Subtract
  <2> QED
    BY <1>0, <1>1, <1>4, <2>1 DEF Exact, Subtract
<1> QED
  BY <1>2, <1>3, <1>4 DEF EndStep

LEMMA ExactStep == TimerInv /\ [Next]_vars => (Reliable' => Exact')
<1> SUFFICES ASSUME TimerInv, [Next]_vars, Reliable' PROVE Exact'
  OBVIOUS
<1> USE DEF mainVars, history, MaxThreads, StartingOne
<1>0. Reliable /\ Exact /\ TypeOK
  BY StaysUnreliable, ExactMeans DEF TimerInv
<1>1. CASE MainStep
  BY <1>0, <1>1, ExactMain
<1>2. CASE Pex \/ Shutdown \/ UNCHANGED vars
  <2>1. Cardinality(Running(Threads)') = Cardinality(Running(Threads)) /\ thread' = thread
    BY <1>0, <1>2, AsMany DEF Pex, Shutdown, vars
  <2> QED
    BY <1>0, <1>2, <2>1 DEF Exact, Pex, Shutdown, vars
<1>3. ASSUME NEW c \in Callers, Call(c) PROVE FALSE
  BY <1>3 DEF Call, Reliable, Undisturbed
<1>4. ASSUME NEW t \in Threads \cup Callers, EndStep(t) PROVE Exact'
  BY <1>0, <1>4, ExactEnd
<1>5. ASSUME NEW t \in Threads \cup Callers, Raise(t) PROVE FALSE
  BY <1>5 DEF Raise, Reliable, Undisturbed
<1> QED
  BY <1>1, <1>2, <1>3, <1>4, <1>5 DEF Next

\* With one thread at most, the main thread never adds while that one subtracts.
LEMMA AloneStep == TimerInv /\ [Next]_vars => AloneIsReliable'
<1> SUFFICES ASSUME TimerInv, [Next]_vars, MaxThreads' = 1, Undisturbed'
             PROVE  ~overlapped'
  BY DEF AloneIsReliable
<1>0. function' = function /\ MaxThreads = 1
  BY FlagsStep DEF TimerInv, MaxThreads
<1>1. Undisturbed /\ Reliable /\ Exact /\ TypeOK
  <2>1. Undisturbed
    <3> USE DEF Undisturbed, history
    <3>1. CASE MainStep
      BY <3>1 DEF MainStep, Due, NoPeer, NotDue, TooMany, NotTooMany, ReadToAdd, Add, Start,
                  Reset, ReadCount, Bump
    <3>2. CASE Pex \/ Shutdown \/ UNCHANGED vars \/ \E c \in Callers : Call(c)
      BY <3>2 DEF Pex, Shutdown, Call, vars
    <3>3. ASSUME NEW t \in Threads \cup Callers, EndStep(t) \/ Raise(t) PROVE Undisturbed
      BY <3>3 DEF EndStep, Finish, ReadToSubtract, Subtract, Raise
    <3> QED
      BY <3>1, <3>2, <3>3 DEF Next
  <2> QED
    BY <2>1, <1>0, ExactMeans DEF TimerInv, AloneIsReliable, Reliable
<1>2. \A t \in Threads \cup Callers : thread[t] # "free" => t \in Running(Threads)
  BY <1>1, OnlyThreads
<1>3. CASE ReadToAdd
  <2>1. Cardinality(Running(Threads)) = 0
    BY <1>0, <1>1, <1>3, RunningIsFinite DEF ReadToAdd, Goto, Exact, StartingOne, TypeOK
  <2>2. ~Updating
    BY <1>2, <1>3, <2>1, SomeRunning DEF Updating, ReadToAdd, Goto
  <2> QED
    BY <1>1, <1>3, <2>2 DEF ReadToAdd, Reliable
<1>4. ASSUME NEW t \in Threads \cup Callers, ReadToSubtract(t) PROVE ~overlapped'
  <2>1. t \in Running(Threads) /\ thread[t] = "end"
    BY <1>2, <1>4 DEF ReadToSubtract
  <2>2. Cardinality(Running(Threads)) = 1 /\ main # "add"
    BY <1>0, <1>1, <2>1, SomeRunning, RunningIsFinite DEF Exact, StartingOne, TypeOK
  <2>3. ~Updating
    BY <1>2, <2>1, <2>2, TwoRunning DEF Updating
  <2> QED
    BY <1>1, <1>4, <2>3 DEF ReadToSubtract, Reliable
<1>5. CASE ~ReadToAdd /\ \A t \in Threads \cup Callers : ~ReadToSubtract(t)
  <2> USE <1>1, <1>5 DEF Reliable, history
  <2>1. CASE MainStep
    BY <2>1 DEF MainStep, Due, NoPeer, NotDue, TooMany, NotTooMany, Add, Start, Reset,
                ReadCount, Bump
  <2>2. CASE Pex \/ Shutdown \/ UNCHANGED vars \/ \E c \in Callers : Call(c)
    BY <2>2 DEF Pex, Shutdown, Call, vars
  <2>3. ASSUME NEW t \in Threads \cup Callers, EndStep(t) \/ Raise(t) PROVE ~overlapped'
    BY <2>3 DEF EndStep, Finish, Subtract, Raise
  <2> QED
    BY <2>1, <2>2, <2>3 DEF Next
<1> QED
  BY <1>3, <1>4, <1>5

LEMMA TimerStep == TimerInv /\ [Next]_vars => TimerInv'
<1> SUFFICES ASSUME TimerInv, [Next]_vars PROVE TimerInv'
  OBVIOUS
<1>1. TypeOK' /\ NobodyCalls' /\ BelowFrequency'
  BY TypeStep, CallsStep, BelowStep DEF TimerInv
<1>2. CountExact' /\ BelowLimit' /\ OneUpdate'
  BY ExactStep DEF CountExact, BelowLimit, OneUpdate, Exact
<1>3. AloneIsReliable'
  BY AloneStep
<1> QED
  BY <1>1, <1>2, <1>3 DEF TimerInv

LEMMA AlwaysTimerInv == Spec => []TimerInv
  BY TimerInit, TimerStep, PTL DEF Spec

-----------------------------------------------------------------------------

(***************************************************************************)
(* For any limit and any number of threads, threadCounts counts the        *)
(* threads that run and stays within maxThreads, until two updates         *)
(* overlap, the function is called directly or it raises                   *)
(* (onionrcommunicatortimers.py:54, communicator.py:202).                  *)
(***************************************************************************)
THEOREM ThreadsAreCounted == Spec => []RunningAreCounted
<1>1. TimerInv => RunningAreCounted
  BY DEF TimerInv, CountExact, BelowLimit, Reliable, RunningAreCounted, StartingOne
<1> QED
  BY AlwaysTimerInv, <1>1, PTL

(***************************************************************************)
(* A function with maxThreads=1 that only its timer calls never runs       *)
(* twice at once, although nothing locks its count: no two updates of it   *)
(* can overlap (communicator.py:104, 120).                                 *)
(***************************************************************************)
THEOREM OnlyOneRuns == Spec => []OneAtATime
<1>1. TimerInv => OneAtATime
  <2> SUFFICES ASSUME TimerInv, MaxThreads = 1, Undisturbed
               PROVE  ~overlapped /\ \A t, u \in Running(Threads) : t = u
    BY DEF OneAtATime
  <2>1. Reliable /\ Exact
    BY ExactMeans DEF TimerInv, AloneIsReliable, Reliable
  <2>2. Cardinality(Running(Threads)) <= 1
    BY <2>1, RunningIsFinite DEF Exact, StartingOne
  <2>3. ASSUME NEW t \in Running(Threads), NEW u \in Running(Threads), t # u PROVE FALSE
    BY <2>2, <2>3, TwoRunning, RunningIsFinite
  <2> QED
    BY <2>1, <2>3 DEF Reliable
<1> QED
  BY AlwaysTimerInv, <1>1, PTL

(***************************************************************************)
(* The count of a timer never passes its frequency, whenever a pex command *)
(* sets it (daemonqueuehandler.py:46, onionrcommunicatortimers.py:45).     *)
(***************************************************************************)
THEOREM TimersKeepFiring == Spec => []NeverPassed
<1>1. TimerInv => NeverPassed
  BY DEF TimerInv, BelowFrequency
<1> QED
  BY AlwaysTimerInv, <1>1, PTL

=============================================================================
