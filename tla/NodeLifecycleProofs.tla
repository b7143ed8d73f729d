------------------------ MODULE NodeLifecycleProofs ------------------------
(***************************************************************************)
(* Proofs about NodeLifecycle: the lock keeps the main threads of daemons  *)
(* apart, and with them their communicators and their Tor.                 *)
(***************************************************************************)
EXTENDS NodeLifecycle, FiniteSetTheorems, SequenceTheorems, WellFoundedInduction, TLAPS

\* The main thread works with the files of the node.
Alive == {"files", "tor", "run", "api", "end"}

\* One main thread at a time is alive, and holds the lock.
OneAlive ==
  /\ \A d \in Daemons : main[d] \in Alive => lock
  /\ \A d, e \in Daemons : main[d] \in Alive /\ main[e] \in Alive => d = e

\* A communicator starts late, and its main thread waits for it unless a SIGTERM comes.
Watched ==
  \A d \in Daemons :
    /\ main[d] \in {"new", "files", "tor"} => comm[d] = "new"
    /\ comm[d] \in {"init", "run"} /\ ~stop[d] /\ ~killed[d] => main[d] = "run"

\* Tor belongs to a live main thread, which writes its number when it is ready.
TorOwned ==
  /\ \A d \in Daemons : torPid = d => main[d] \notin {"new", "files", "tor"}
  /\ \A d \in Daemons :
       ~crashed /\ tor = d => /\ main[d] \in Alive \ {"files"}
                              /\ main[d] = "tor" \/ torPid = d
  /\ tor \in Daemons \cup {None}

AtMostOnce(s, x) == \A i, j \in DOMAIN s : s[i] = x /\ s[j] = x => i = j

\* A command is given once, so that the queue has one row of it, and none before.
GivenOnce ==
  /\ \A c \in Uploads : AtMostOnce(queue, c)
  /\ \A c \in Uploads : user[c] = "new" =>
       /\ ~Contains(queue, c) /\ uploads[c] = 0
       /\ \A d \in Daemons, h \in Handlers : handler[d][h] # c

\* Until handlers overlap one of them has read a row, and what has been run is not in the
\* queue or with a handler any more.
RunOnce ==
  ~overlapped =>
    /\ \A d, e \in Daemons, h, i \in Handlers :
         handler[d][h] # None /\ handler[e][i] # None => d = e /\ h = i
    /\ \A c \in Uploads :
         /\ uploads[c] <= 1
         /\ Contains(queue, c) => uploads[c] = 0
         /\ \A d \in Daemons, h \in Handlers : handler[d][h] = c => uploads[c] = 0

NodeInv == TypeOK /\ OneAlive /\ Watched /\ TorOwned /\ GivenOnce /\ RunOnce

\* A set of numbers has a least one.
LEMMA LeastOfSet ==
  ASSUME NEW T, T # {}, T \subseteq Nat
  PROVE  Min(T) \in T
<1>1. \E x \in T : \A y \in T : ~ (<<y, x>> \in {ss \in Nat \X Nat : ss[1] < ss[2]})
  BY NatLessThanWellFounded, WFMin, Zenon DEF OpToRel
<1>2. PICK x \in T : \A y \in T : ~ (<<y, x>> \in {ss \in Nat \X Nat : ss[1] < ss[2]})
  BY <1>1
<1>3. ASSUME NEW y \in T PROVE x <= y
  <2>1. x \in Nat /\ y \in Nat
    BY <1>2, <1>3
  <2>2. ~ (<<y, x>> \in {ss \in Nat \X Nat : ss[1] < ss[2]})
    BY <1>2, <1>3
  <2> QED
    BY <2>1, <2>2
<1> QED
  BY <1>2, <1>3 DEF Min

\* Deleting the first row of a command leaves the other rows as they are.
LEMMA RemoveFirstRow ==
  ASSUME NEW S, NEW s \in Seq(S), NEW c, Contains(s, c)
  PROVE  \E k \in 1..Len(s) :
           /\ s[k] = c
           /\ RemoveFirst(s, c) \in Seq(S)
           /\ Len(RemoveFirst(s, c)) = Len(s) - 1
           /\ \A i \in 1..(Len(s) - 1) :
                RemoveFirst(s, c)[i] = IF i < k THEN s[i] ELSE s[i + 1]
<1> DEFINE at == {i \in 1..Len(s) : s[i] = c}
           k == Min(at)
           left == SubSeq(s, 1, k - 1)
           right == SubSeq(s, k + 1, Len(s))
<1>1. RemoveFirst(s, c) = RemoveAt(s, k)
  BY DEF RemoveFirst, SelectInSeq, Contains
<1>2. k \in at
  <2>1. at # {} /\ at \subseteq Nat
    BY DEF Contains
  <2> QED
    BY <2>1, LeastOfSet
<1>3. k \in 1..Len(s) /\ s[k] = c /\ Len(s) \in Nat
  BY <1>2
<1>4. \A i \in 1..Len(s) : s[i] \in S
  BY LenProperties
<1> HIDE DEF k
<1>5. left \in Seq(S) /\ Len(left) = k - 1 /\ \A i \in 1..(k - 1) : left[i] = s[i]
  BY <1>3, <1>4, SubSeqProperties
<1>6. /\ right \in Seq(S) /\ Len(right) = Len(s) - k
      /\ \A i \in 1..(Len(s) - k) : right[i] = s[k + i]
  BY <1>3, <1>4, SubSeqProperties
<1> HIDE DEF left, right
<1>7. /\ left \o right \in Seq(S) /\ Len(left \o right) = Len(s) - 1
      /\ \A i \in 1..(Len(s) - 1) :
           (left \o right)[i] = IF i < k THEN s[i] ELSE s[i + 1]
  <2>1. /\ left \o right \in Seq(S) /\ Len(left \o right) = Len(left) + Len(right)
        /\ \A i \in 1..(Len(left) + Len(right)) :
             (left \o right)[i] = IF i <= Len(left) THEN left[i] ELSE right[i - Len(left)]
    BY <1>5, <1>6, ConcatProperties
  <2>2. ASSUME NEW i \in 1..(Len(s) - 1)
        PROVE  (left \o right)[i] = IF i < k THEN s[i] ELSE s[i + 1]
    <3>1. (left \o right)[i] = IF i <= k - 1 THEN left[i] ELSE right[i - (k - 1)]
      BY <1>3, <1>5, <1>6, <2>1
    <3>2. CASE i < k
      BY <1>3, <1>5, <3>1, <3>2
    <3>3. CASE ~(i < k)
      <4>1. i - (k - 1) \in 1..(Len(s) - k) /\ k + (i - (k - 1)) = i + 1
        BY <1>3, <3>3
      <4> QED
        BY <1>3, <1>6, <3>1, <3>3, <4>1
    <3> QED
      BY <3>2, <3>3
  <2> QED
    BY <1>3, <1>5, <1>6, <2>1, <2>2
<1>8. RemoveFirst(s, c) = left \o right
  BY <1>1 DEF RemoveAt, left, right
<1> QED
  BY <1>3, <1>7, <1>8

\* The queue stays a sequence, with no rows but those it had.
LEMMA RemoveFirstOnly ==
  ASSUME NEW S, NEW s \in Seq(S), NEW c, NEW r, r = RemoveFirst(s, c)
  PROVE  r \in Seq(S) /\ \A x : Contains(r, x) => Contains(s, x)
<1>1. CASE ~Contains(s, c)
  BY <1>1 DEF RemoveFirst, SelectInSeq, Contains
<1>2. CASE Contains(s, c)
  <2>1. PICK k \in 1..Len(s) :
          /\ s[k] = c /\ r \in Seq(S) /\ Len(r) = Len(s) - 1
          /\ \A i \in 1..(Len(s) - 1) : r[i] = IF i < k THEN s[i] ELSE s[i + 1]
    BY <1>2, RemoveFirstRow
  <2>2. Len(s) \in Nat
    BY LenProperties
  <2>3. ASSUME NEW x, Contains(r, x) PROVE Contains(s, x)
    <3>1. PICK i \in 1..(Len(s) - 1) : r[i] = x
      BY <2>1, <2>3 DEF Contains
    <3>2. i \in 1..Len(s) /\ i + 1 \in 1..Len(s)
      BY <2>2
    <3> QED
      BY <2>1, <3>1, <3>2 DEF Contains
  <2> QED
    BY <2>1, <2>3
<1> QED
  BY <1>1, <1>2

\* A command that has one row has at most one after that, and none if it was deleted.
LEMMA RemoveFirstOnce ==
  ASSUME NEW S, NEW s \in Seq(S), NEW c, NEW x, AtMostOnce(s, x),
         NEW r, r = RemoveFirst(s, c)
  PROVE  /\ AtMostOnce(r, x)
         /\ x = c => ~Contains(r, x)
<1> USE DEF AtMostOnce
<1>1. CASE ~Contains(s, c)
  BY <1>1 DEF RemoveFirst, SelectInSeq, Contains
<1>2. CASE Contains(s, c)
  <2>1. PICK k \in 1..Len(s) :
          /\ s[k] = c /\ r \in Seq(S) /\ Len(r) = Len(s) - 1
          /\ \A i \in 1..(Len(s) - 1) : r[i] = IF i < k THEN s[i] ELSE s[i + 1]
    BY <1>2, RemoveFirstRow
  <2>2. Len(s) \in Nat /\ DOMAIN s = 1..Len(s) /\ DOMAIN r = 1..(Len(s) - 1)
    BY <2>1, LenProperties
  <2> DEFINE was(i) == IF i < k THEN i ELSE i + 1
  <2>3. ASSUME NEW i \in DOMAIN r, NEW j \in DOMAIN r, r[i] = x, r[j] = x PROVE i = j
    <3>1. /\ was(i) \in DOMAIN s /\ s[was(i)] = x
          /\ was(j) \in DOMAIN s /\ s[was(j)] = x
      BY <2>1, <2>2, <2>3
    <3>2. was(i) = was(j)
      BY <3>1
    <3>3. i \in Nat /\ j \in Nat /\ k \in Nat
      BY <2>1, <2>2, <2>3
    <3> QED
      BY <3>2, <3>3
  <2>4. ASSUME x = c PROVE ~Contains(r, x)
    BY <2>1, <2>2, <2>4 DEF Contains
  <2> QED
    BY <2>3, <2>4
<1> QED
  BY <1>1, <1>2

\* The types are kept.
LEMMA TypeStep ==
  ASSUME NodeInv, [Next]_vars
  PROVE  TypeOK'
<1> USE NodeConstants DEF NodeInv, TypeOK, Alive, files, threads, handlers, history
<1>1. ASSUME NEW d \in Daemons, Start(d) PROVE TypeOK'
  BY <1>1 DEF Start
<1>2. ASSUME NEW d \in Daemons, LaunchTor(d) PROVE TypeOK'
  BY <1>2 DEF LaunchTor, OnionService, Goto
<1>3. ASSUME NEW d \in Daemons, TorFails(d) PROVE TypeOK'
  BY <1>3 DEF TorFails, Goto, ShutdownServers
<1>4. ASSUME NEW d \in Daemons, TorReady(d) PROVE TypeOK'
  BY <1>4 DEF TorReady, Goto
<1>5. ASSUME NEW d \in Daemons, Leave(d) PROVE TypeOK'
  <2>1. Append(queue, d) \in Seq(Commands)
    BY AppendProperties DEF Commands, Shutdowns
  <2> QED
    BY <1>5, <2>1 DEF Leave, Goto
<1>6. ASSUME NEW d \in Daemons, StopServers(d) PROVE TypeOK'
  BY <1>6 DEF StopServers, Goto, ShutdownServers
<1>7. ASSUME NEW d \in Daemons, End(d) PROVE TypeOK'
  BY <1>7 DEF End, Goto, KillTor
<1>8. ASSUME NEW d \in Daemons, ServeApi(d) PROVE TypeOK'
  BY <1>8 DEF ServeApi
<1>9. ASSUME NEW d \in Daemons, ServePublic(d) PROVE TypeOK'
  BY <1>9 DEF ServePublic
<1>10. ASSUME NEW d \in Daemons, StartCommunicator(d) PROVE TypeOK'
  BY <1>10 DEF StartCommunicator
<1>11. ASSUME NEW d \in Daemons, StopCommunicator(d) PROVE TypeOK'
  BY <1>11 DEF StopCommunicator, ShutdownServers
<1>12. ASSUME NEW d \in Daemons, DetectAPICrash(d) PROVE TypeOK'
  BY <1>12 DEF DetectAPICrash
<1>13. ASSUME NEW d \in Daemons, Sigterm(d) PROVE TypeOK'
  BY <1>13 DEF Sigterm
<1>14. ASSUME NEW d \in Daemons, Crash(d) PROVE TypeOK'
  BY <1>14 DEF Crash
<1>15. ASSUME NEW d \in Daemons, NEW h \in Handlers, ReadCommand(d, h) PROVE TypeOK'
  <2>1. Head(queue) \in Commands
    BY <1>15, HeadTailProperties DEF ReadCommand
  <2> QED
    BY <1>15, <2>1 DEF ReadCommand
<1>16. ASSUME NEW d \in Daemons, NEW h \in Handlers, RunCommand(d, h) PROVE TypeOK'
  <2>1. queue' \in Seq(Commands)
    BY <1>16, RemoveFirstOnly DEF RunCommand
  <2>2. stop' \in [Daemons -> BOOLEAN] /\ uploads' \in [Uploads -> Nat]
    BY <1>16 DEF RunCommand, Handle
  <2>3. handler' \in [Daemons -> [Handlers -> Commands \cup {None}]]
    BY <1>16 DEF RunCommand, Idle
  <2> QED
    BY <1>16, <2>1, <2>2, <2>3 DEF RunCommand
<1>17. ASSUME NEW u \in Kills \cup Uploads, GiveCommand(u) PROVE TypeOK'
  <2>1. Append(queue, u) \in Seq(Commands)
    BY AppendProperties DEF Commands, Shutdowns
  <2> QED
    BY <1>17, <2>1 DEF GiveCommand
<1>18. ASSUME NEW k \in Kills \cup Uploads, StopTor(k) PROVE TypeOK'
  BY <1>18 DEF StopTor, KillTor
<1>19. CASE UNCHANGED vars
  BY <1>19 DEF vars
<1>20. CASE Unlock
  BY <1>20 DEF Unlock
<1>21. QED
  BY <1>1, <1>2, <1>3, <1>4, <1>5, <1>6, <1>7, <1>8, <1>9, <1>10, <1>11, <1>12, <1>13, <1>14,
      <1>15, <1>16, <1>17, <1>18, <1>19, <1>20
  DEF Next, MainThread, Servers, Communicator

\* Only a start makes a main thread alive, and it needs the lock.
LEMMA OneAliveStep ==
  ASSUME NodeInv, [Next]_vars
  PROVE  OneAlive'
<1> USE NodeConstants DEF NodeInv, TypeOK, OneAlive, Alive, files, threads, handlers, history
<1>1. ASSUME NEW d \in Daemons, Start(d) PROVE OneAlive'
  BY <1>1 DEF Start
<1>2. ASSUME NEW d \in Daemons, LaunchTor(d) PROVE OneAlive'
  BY <1>2 DEF LaunchTor, OnionService, Goto
<1>3. ASSUME NEW d \in Daemons, TorFails(d) PROVE OneAlive'
  BY <1>3 DEF TorFails, Goto
<1>4. ASSUME NEW d \in Daemons, TorReady(d) PROVE OneAlive'
  BY <1>4 DEF TorReady, Goto
<1>5. ASSUME NEW d \in Daemons, Leave(d) PROVE OneAlive'
  BY <1>5 DEF Leave, Goto
<1>6. ASSUME NEW d \in Daemons, StopServers(d) PROVE OneAlive'
  BY <1>6 DEF StopServers, Goto
<1>7. ASSUME NEW d \in Daemons, End(d) PROVE OneAlive'
  BY <1>7 DEF End, Goto, KillTor
<1>8. ASSUME NEW d \in Daemons, ServeApi(d) PROVE OneAlive'
  BY <1>8 DEF ServeApi
<1>9. ASSUME NEW d \in Daemons, ServePublic(d) PROVE OneAlive'
  BY <1>9 DEF ServePublic
<1>10. ASSUME NEW d \in Daemons, StartCommunicator(d) PROVE OneAlive'
  BY <1>10 DEF StartCommunicator
<1>11. ASSUME NEW d \in Daemons, StopCommunicator(d) PROVE OneAlive'
  BY <1>11 DEF StopCommunicator
<1>12. ASSUME NEW d \in Daemons, DetectAPICrash(d) PROVE OneAlive'
  BY <1>12 DEF DetectAPICrash
<1>13. ASSUME NEW d \in Daemons, Sigterm(d) PROVE OneAlive'
  BY <1>13 DEF Sigterm
<1>14. ASSUME NEW d \in Daemons, Crash(d) PROVE OneAlive'
  BY <1>14 DEF Crash
<1>15. ASSUME NEW d \in Daemons, NEW h \in Handlers, ReadCommand(d, h) PROVE OneAlive'
  BY <1>15 DEF ReadCommand
<1>16. ASSUME NEW d \in Daemons, NEW h \in Handlers, RunCommand(d, h) PROVE OneAlive'
  BY <1>16 DEF RunCommand, Handle
<1>17. ASSUME NEW u \in Kills \cup Uploads, GiveCommand(u) PROVE OneAlive'
  BY <1>17 DEF GiveCommand
<1>18. ASSUME NEW k \in Kills \cup Uploads, StopTor(k) PROVE OneAlive'
  BY <1>18 DEF StopTor, KillTor
<1>19. CASE UNCHANGED vars
  BY <1>19 DEF vars
<1>20. CASE Unlock
  BY <1>20 DEF Unlock
<1>21. QED
  BY <1>1, <1>2, <1>3, <1>4, <1>5, <1>6, <1>7, <1>8, <1>9, <1>10, <1>11, <1>12, <1>13, <1>14,
      <1>15, <1>16, <1>17, <1>18, <1>19, <1>20
  DEF Next, MainThread, Servers, Communicator

\* A main thread leaves when its communicator has been stopped.
LEMMA WatchedStep ==
  ASSUME NodeInv, [Next]_vars
  PROVE  Watched'
<1> USE NodeConstants DEF NodeInv, TypeOK, Watched, Alive, files, threads, handlers, history
<1>1. ASSUME NEW d \in Daemons, Start(d) PROVE Watched'
  BY <1>1 DEF Start
<1>2. ASSUME NEW d \in Daemons, LaunchTor(d) PROVE Watched'
  BY <1>2 DEF LaunchTor, OnionService, Goto
<1>3. ASSUME NEW d \in Daemons, TorFails(d) PROVE Watched'
  BY <1>3 DEF TorFails, Goto
<1>4. ASSUME NEW d \in Daemons, TorReady(d) PROVE Watched'
  BY <1>4 DEF TorReady, Goto
<1>5. ASSUME NEW d \in Daemons, Leave(d) PROVE Watched'
  BY <1>5 DEF Leave, Goto
<1>6. ASSUME NEW d \in Daemons, StopServers(d) PROVE Watched'
  BY <1>6 DEF StopServers, Goto
<1>7. ASSUME NEW d \in Daemons, End(d) PROVE Watched'
  BY <1>7 DEF End, Goto, KillTor
<1>8. ASSUME NEW d \in Daemons, ServeApi(d) PROVE Watched'
  BY <1>8 DEF ServeApi
<1>9. ASSUME NEW d \in Daemons, ServePublic(d) PROVE Watched'
  BY <1>9 DEF ServePublic
<1>10. ASSUME NEW d \in Daemons, StartCommunicator(d) PROVE Watched'
  BY <1>10 DEF StartCommunicator
<1>11. ASSUME NEW d \in Daemons, StopCommunicator(d) PROVE Watched'
  BY <1>11 DEF StopCommunicator
<1>12. ASSUME NEW d \in Daemons, DetectAPICrash(d) PROVE Watched'
  BY <1>12 DEF DetectAPICrash
<1>13. ASSUME NEW d \in Daemons, Sigterm(d) PROVE Watched'
  BY <1>13 DEF Sigterm
<1>14. ASSUME NEW d \in Daemons, Crash(d) PROVE Watched'
  BY <1>14 DEF Crash
<1>15. ASSUME NEW d \in Daemons, NEW h \in Handlers, ReadCommand(d, h) PROVE Watched'
  BY <1>15 DEF ReadCommand
<1>16. ASSUME NEW d \in Daemons, NEW h \in Handlers, RunCommand(d, h) PROVE Watched'
  BY <1>16 DEF RunCommand, Handle
<1>17. ASSUME NEW u \in Kills \cup Uploads, GiveCommand(u) PROVE Watched'
  BY <1>17 DEF GiveCommand
<1>18. ASSUME NEW k \in Kills \cup Uploads, StopTor(k) PROVE Watched'
  BY <1>18 DEF StopTor, KillTor
<1>19. CASE UNCHANGED vars
  BY <1>19 DEF vars
<1>20. CASE Unlock
  BY <1>20 DEF Unlock
<1>21. QED
  BY <1>1, <1>2, <1>3, <1>4, <1>5, <1>6, <1>7, <1>8, <1>9, <1>10, <1>11, <1>12, <1>13, <1>14,
      <1>15, <1>16, <1>17, <1>18, <1>19, <1>20
  DEF Next, MainThread, Servers, Communicator

\* Tor is launched when none runs, and killed before its main thread is over.
LEMMA TorOwnedStep ==
  ASSUME NodeInv, [Next]_vars
  PROVE  TorOwned'
<1> USE NodeConstants DEF NodeInv, TypeOK, OneAlive, TorOwned, Alive, files, threads, handlers,
    history
<1>1. ASSUME NEW d \in Daemons, Start(d) PROVE TorOwned'
  BY <1>1 DEF Start
<1>2. ASSUME NEW d \in Daemons, LaunchTor(d) PROVE TorOwned'
  BY <1>2 DEF LaunchTor, OnionService, Goto
<1>3. ASSUME NEW d \in Daemons, TorFails(d) PROVE TorOwned'
  BY <1>3 DEF TorFails, Goto
<1>4. ASSUME NEW d \in Daemons, TorReady(d) PROVE TorOwned'
  BY <1>4 DEF TorReady, Goto
<1>5. ASSUME NEW d \in Daemons, Leave(d) PROVE TorOwned'
  BY <1>5 DEF Leave, Goto
<1>6. ASSUME NEW d \in Daemons, StopServers(d) PROVE TorOwned'
  BY <1>6 DEF StopServers, Goto
<1>7. ASSUME NEW d \in Daemons, End(d) PROVE TorOwned'
  BY <1>7 DEF End, Goto, KillTor
<1>8. ASSUME NEW d \in Daemons, ServeApi(d) PROVE TorOwned'
  BY <1>8 DEF ServeApi
<1>9. ASSUME NEW d \in Daemons, ServePublic(d) PROVE TorOwned'
  BY <1>9 DEF ServePublic
<1>10. ASSUME NEW d \in Daemons, StartCommunicator(d) PROVE TorOwned'
  BY <1>10 DEF StartCommunicator
<1>11. ASSUME NEW d \in Daemons, StopCommunicator(d) PROVE TorOwned'
  BY <1>11 DEF StopCommunicator
<1>12. ASSUME NEW d \in Daemons, DetectAPICrash(d) PROVE TorOwned'
  BY <1>12 DEF DetectAPICrash
<1>13. ASSUME NEW d \in Daemons, Sigterm(d) PROVE TorOwned'
  BY <1>13 DEF Sigterm
<1>14. ASSUME NEW d \in Daemons, Crash(d) PROVE TorOwned'
  BY <1>14 DEF Crash
<1>15. ASSUME NEW d \in Daemons, NEW h \in Handlers, ReadCommand(d, h) PROVE TorOwned'
  BY <1>15 DEF ReadCommand
<1>16. ASSUME NEW d \in Daemons, NEW h \in Handlers, RunCommand(d, h) PROVE TorOwned'
  BY <1>16 DEF RunCommand, Handle
<1>17. ASSUME NEW u \in Kills \cup Uploads, GiveCommand(u) PROVE TorOwned'
  BY <1>17 DEF GiveCommand
<1>18. ASSUME NEW k \in Kills \cup Uploads, StopTor(k) PROVE TorOwned'
  BY <1>18 DEF StopTor, KillTor
<1>19. CASE UNCHANGED vars
  BY <1>19 DEF vars
<1>20. CASE Unlock
  BY <1>20 DEF Unlock
<1>21. QED
  BY <1>1, <1>2, <1>3, <1>4, <1>5, <1>6, <1>7, <1>8, <1>9, <1>10, <1>11, <1>12, <1>13, <1>14,
      <1>15, <1>16, <1>17, <1>18, <1>19, <1>20
  DEF Next, MainThread, Servers, Communicator

\* What only some steps change.
commandVars == <<queue, handler, user, uploads, overlapped>>

\* The steps that give, read, run or clear commands; all others leave them.
LEMMA CommandSteps ==
  ASSUME [Next]_vars
  PROVE  \/ \E d \in Daemons :
              \/ Leave(d) \/ Crash(d) \/ StartCommunicator(d)
              \/ \E h \in Handlers : ReadCommand(d, h) \/ RunCommand(d, h)
         \/ \E u \in Kills \cup Uploads : GiveCommand(u) \/ StopTor(u)
         \/ UNCHANGED commandVars
<1> USE DEF commandVars, files, threads, handlers, history
<1>1. ASSUME NEW d \in Daemons,
             Start(d) \/ LaunchTor(d) \/ TorFails(d) \/ TorReady(d) \/ StopServers(d) \/ End(d)
      PROVE  UNCHANGED commandVars
  BY <1>1 DEF Start, LaunchTor, TorFails, TorReady, StopServers, End
<1>2. ASSUME NEW d \in Daemons,
             Servers(d) \/ StopCommunicator(d) \/ DetectAPICrash(d) \/ Sigterm(d)
      PROVE  UNCHANGED commandVars
  BY <1>2 DEF Servers, ServeApi, ServePublic, StopCommunicator, DetectAPICrash, Sigterm
<1>3. CASE Unlock
  BY <1>3 DEF Unlock
<1>4. CASE UNCHANGED vars
  BY <1>4 DEF vars
<1> QED
  BY <1>1, <1>2, <1>3, <1>4, Zenon DEF Next, MainThread, Communicator

\* A command that is run has no row after that, and the others have those they had.
LEMMA RunCommandRows ==
  ASSUME NodeInv, NEW d \in Daemons, NEW h \in Handlers, RunCommand(d, h), NEW c \in Uploads
  PROVE  /\ Contains(queue', c) => Contains(queue, c) /\ c # handler[d][h]
         /\ AtMostOnce(queue', c)
<1>1. queue \in Seq(Commands)
  BY DEF NodeInv, TypeOK
<1>2. AtMostOnce(queue, c)
  BY DEF NodeInv, GivenOnce
<1> DEFINE row == handler[d][h]
           rest == RemoveFirst(queue, row)
<1>3. queue' = rest
  BY DEF RunCommand
<1>4. Contains(rest, c) => Contains(queue, c)
  BY <1>1, RemoveFirstOnly
<1>5. rest = RemoveFirst(queue, row)
  OBVIOUS
<1> HIDE DEF row, rest
<1>6. AtMostOnce(rest, c) /\ (c = row => ~Contains(rest, c))
  BY <1>1, <1>2, <1>5, RemoveFirstOnce
<1> QED
  BY <1>3, <1>4, <1>6 DEF row, AtMostOnce

\* A command has at most one row, since it is given once and rows are only deleted.
LEMMA GivenOnceStep ==
  ASSUME NodeInv, [Next]_vars
  PROVE  GivenOnce'
<1> USE NodeConstants DEF NodeInv, TypeOK, GivenOnce, Commands, Shutdowns
<1>1. ASSUME NEW d \in Daemons, Leave(d) PROVE GivenOnce'
  <2>1. \A c \in Uploads : c # d
    BY NodeConstants
  <2>2. queue' = Append(queue, d) /\ UNCHANGED <<handler, user, uploads>>
    BY <1>1 DEF Leave, handlers
  <2> QED
    BY <2>1, <2>2, AppendProperties, LenProperties DEF Contains, AtMostOnce
<1>2. ASSUME NEW d \in Daemons, Crash(d) PROVE GivenOnce'
  BY <1>2 DEF Crash, AtMostOnce, Contains
<1>3. ASSUME NEW d \in Daemons, StartCommunicator(d) PROVE GivenOnce'
  BY <1>3 DEF StartCommunicator, handlers, Contains, AtMostOnce
<1>4. ASSUME NEW d \in Daemons, NEW h \in Handlers, ReadCommand(d, h) PROVE GivenOnce'
  <2>1. queue # <<>> /\ Contains(queue, Head(queue)) /\ queue' = queue
    BY <1>4, LenProperties, EmptySeq DEF ReadCommand, Contains
  <2>2. /\ UNCHANGED <<user, uploads>>
        /\ handler' = [handler EXCEPT ![d][h] = Head(queue)]
    BY <1>4 DEF ReadCommand
  <2> QED
    BY <2>1, <2>2 DEF AtMostOnce
<1>5. ASSUME NEW d \in Daemons, NEW h \in Handlers, RunCommand(d, h) PROVE GivenOnce'
  <2>1. UNCHANGED user
    BY <1>5 DEF RunCommand
  <2>2. \A c \in Uploads :
          /\ Contains(queue', c) => Contains(queue, c)
          /\ AtMostOnce(queue', c)
    BY <1>5, RunCommandRows
  <2>3. \A e \in Daemons, i \in Handlers : handler'[e][i] = handler[e][i] \/ handler'[e][i] = None
    BY <1>5 DEF RunCommand, Idle
  <2>4. \A c \in Uploads : c # handler[d][h] => uploads'[c] = uploads[c]
    BY <1>5 DEF RunCommand, Handle
  <2> QED
    BY <2>1, <2>2, <2>3, <2>4
<1>6. ASSUME NEW u \in Kills \cup Uploads, GiveCommand(u) PROVE GivenOnce'
  <2>1. /\ user[u] = "new" /\ user' = [user EXCEPT ![u] = "given"]
        /\ queue' = Append(queue, u) /\ UNCHANGED <<handler, uploads>>
    BY <1>6 DEF GiveCommand, handlers
  <2>2. u \in Uploads => ~Contains(queue, u)
    BY <2>1
  <2> QED
    BY <2>1, <2>2, AppendProperties, LenProperties DEF Contains, AtMostOnce
<1>7. ASSUME NEW k \in Kills \cup Uploads, StopTor(k) PROVE GivenOnce'
  BY <1>7 DEF StopTor, handlers, AtMostOnce, Contains
<1>8. CASE UNCHANGED commandVars
  BY <1>8 DEF commandVars, AtMostOnce, Contains
<1> QED
  BY <1>1, <1>2, <1>3, <1>4, <1>5, <1>6, <1>7, <1>8, CommandSteps

\* A handler that reads while none else has a row is the only one to run and delete it.
LEMMA RunOnceStep ==
  ASSUME NodeInv, [Next]_vars
  PROVE  RunOnce'
<1> USE NodeConstants DEF NodeInv, TypeOK, RunOnce
<1>1. ASSUME NEW d \in Daemons, Leave(d) PROVE RunOnce'
  <2>1. \A c \in Uploads : c # d
    BY NodeConstants
  <2>2. queue' = Append(queue, d) /\ UNCHANGED <<handler, uploads, overlapped>>
    BY <1>1 DEF Leave, handlers, history
  <2>3. \A c \in Uploads : Contains(queue', c) => Contains(queue, c)
    BY <2>1, <2>2, AppendProperties, LenProperties DEF Contains, Commands, Shutdowns
  <2> QED
    BY <2>2, <2>3
<1>2. ASSUME NEW d \in Daemons, Crash(d) PROVE RunOnce'
  BY <1>2 DEF Crash
<1>3. ASSUME NEW d \in Daemons, StartCommunicator(d) PROVE RunOnce'
  BY <1>3 DEF StartCommunicator, handlers, history, Contains
<1>4. ASSUME NEW d \in Daemons, NEW h \in Handlers, ReadCommand(d, h) PROVE RunOnce'
  <2>1. queue # <<>> /\ Contains(queue, Head(queue)) /\ queue' = queue
    BY <1>4, LenProperties, EmptySeq DEF ReadCommand, Contains
  <2>2. /\ UNCHANGED uploads
        /\ handler' = [handler EXCEPT ![d][h] = Head(queue)]
        /\ ~overlapped' => /\ ~overlapped
                           /\ \A e \in Daemons, i \in Handlers : handler[e][i] = None
    BY <1>4 DEF ReadCommand
  <2> QED
    BY <2>1, <2>2
<1>5. ASSUME NEW d \in Daemons, NEW h \in Handlers, RunCommand(d, h) PROVE RunOnce'
  <2> DEFINE row == handler[d][h]
  <2> SUFFICES ASSUME ~overlapped PROVE RunOnce'
    BY <1>5 DEF RunCommand, history
  <2>1. row # None
    BY <1>5 DEF RunCommand
  <2>2. handler' = [handler EXCEPT ![d][h] = None]
    BY <1>5 DEF RunCommand, Idle
  <2>3. \A e \in Daemons, i \in Handlers : handler'[e][i] = None
    BY <2>1, <2>2
  <2>4. \A c \in Uploads : Contains(queue', c) => Contains(queue, c) /\ c # row
    BY <1>5, RunCommandRows
  <2>5. \A c \in Uploads : uploads'[c] = IF c = row THEN uploads[c] + 1 ELSE uploads[c]
    BY <1>5 DEF RunCommand, Handle
  <2>6. row \in Uploads => uploads[row] = 0
    OBVIOUS
  <2>7. \A c \in Uploads : c # None
    BY NodeConstants
  <2> QED
    BY <2>3, <2>4, <2>5, <2>6, <2>7
<1>6. ASSUME NEW u \in Kills \cup Uploads, GiveCommand(u) PROVE RunOnce'
  <2>1. /\ user[u] = "new" /\ queue' = Append(queue, u)
        /\ UNCHANGED <<handler, uploads, overlapped>>
    BY <1>6 DEF GiveCommand, handlers, history
  <2>2. u \in Uploads => uploads[u] = 0
    BY <2>1 DEF GivenOnce
  <2>3. \A c \in Uploads : Contains(queue', c) => Contains(queue, c) \/ c = u
    BY <2>1, AppendProperties, LenProperties DEF Contains, Commands, Shutdowns
  <2> QED
    BY <2>1, <2>2, <2>3
<1>7. ASSUME NEW k \in Kills \cup Uploads, StopTor(k) PROVE RunOnce'
  BY <1>7 DEF StopTor, handlers, history
<1>8. CASE UNCHANGED commandVars
  BY <1>8 DEF commandVars
<1> QED
  BY <1>1, <1>2, <1>3, <1>4, <1>5, <1>6, <1>7, <1>8, CommandSteps

LEMMA NodeInvHolds == Spec => []NodeInv
<1>1. Init => NodeInv
  <2> SUFFICES ASSUME Init PROVE NodeInv
    OBVIOUS
  <2>1. TypeOK
    BY EmptySeq DEF Init, TypeOK
  <2>2. OneAlive /\ Watched /\ TorOwned
    BY NodeConstants DEF Init, OneAlive, Watched, TorOwned, Alive
  <2>3. GivenOnce /\ RunOnce
    BY NodeConstants DEF Init, GivenOnce, RunOnce, Contains, AtMostOnce
  <2> QED
    BY <2>1, <2>2, <2>3 DEF NodeInv
<1>2. NodeInv /\ [Next]_vars => NodeInv'
  BY TypeStep, OneAliveStep, WatchedStep, TorOwnedStep, GivenOnceStep, RunOnceStep DEF NodeInv
<1>3. QED
  BY <1>1, <1>2, PTL DEF Spec

\* One communicator at a time works on the data as long as no SIGTERM comes: OneCommunicator,
\* for any number of daemons (start, daemon).
THEOREM OneCommunicatorWorks == Spec => []OneCommunicator
<1>1. NodeInv => OneCommunicator
  <2>1. SUFFICES ASSUME NodeInv, \A d \in Daemons : ~killed[d]
                 PROVE  Cardinality(Active) <= 1
    BY DEF OneCommunicator
  <2>2. \A d, e \in Active : d = e
    BY <2>1 DEF NodeInv, TypeOK, OneAlive, Watched, Active, Alive
  <2>3. CASE Active = {}
    BY <2>3, FS_EmptySet
  <2>4. ASSUME NEW d \in Active PROVE Cardinality(Active) <= 1
    <3>1. Active = {d}
      BY <2>2, <2>4
    <3>2. Cardinality({d}) = 1
      BY FS_Singleton, Zenon
    <3>3. QED
      BY <3>1, <3>2
  <2>5. QED
    BY <2>3, <2>4
<1>2. QED
  BY <1>1, NodeInvHolds, PTL

\* No Tor outlives the daemons unless one crashes: NoStrayTor (kill_daemon, daemon, killTor).
THEOREM TorEndsWithItsDaemon == Spec => []NoStrayTor
<1>1. NodeInv => NoStrayTor
  BY DEF NodeInv, TorOwned, NoStrayTor, Alive
<1>2. QED
  BY <1>1, NodeInvHolds, PTL

\* The files, threads, handlers and the queue of commands stay well formed: among other
\* things, a handler runs only what somebody has given (daemonQueueAdd, daemonQueue).
THEOREM NodeTypeCorrect == Spec => []TypeOK
<1>1. NodeInv => TypeOK
  BY DEF NodeInv
<1>2. QED
  BY <1>1, NodeInvHolds, PTL

\* For any daemons and handlers no command is run twice until two handlers overlap: CommandsRunOnce
\* (daemonQueue, which reads a row and deletes it later, also when the daemon is killed between).
THEOREM NoCommandRunsTwice == Spec => []CommandsRunOnce
<1>1. NodeInv => CommandsRunOnce
  BY DEF NodeInv, RunOnce, CommandsRunOnce
<1>2. QED
  BY <1>1, NodeInvHolds, PTL
=============================================================================
