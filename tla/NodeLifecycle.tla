--------------------------- MODULE NodeLifecycle ---------------------------
(***************************************************************************)
(* Starting and stopping a node.  A daemon is a process with a main thread *)
(* (the command start), a thread for each of the two API servers, and a    *)
(* communicator whose handler threads take commands from a queue that is   *)
(* kept in a database.  Tor is a process of its own.  Other processes give *)
(* commands, and stop the daemon.  The lock file, the file with Tor's      *)
(* process number and the queue outlive a daemon.                          *)
(*                                                                         *)
(* A step goes from one access to a file, a database, another process or a *)
(* shared variable to the next.                                            *)
(***************************************************************************)
EXTENDS Integers, FiniteSets, Sequences, SequencesExt

CONSTANTS
  Daemons,        \* the processes that run the command start
  Handlers,       \* threads of the daemonCommands timer (maxThreads=3)
  First, Several, \* bounds of the model: the one handler of a daemon, and the daemons that
                  \* have them all
  Kills,          \* the processes that run the command stop
  Uploads,        \* the processes that want a block to be uploaded
  HiddenService,  \* general.security_level is 0
  None

ASSUME NodeConstants ==
  /\ IsFiniteSet(Daemons) /\ Several \subseteq Daemons /\ First \in Handlers
  /\ HiddenService \in BOOLEAN
  /\ Daemons \cap Kills = {} /\ Daemons \cap Uploads = {} /\ Kills \cap Uploads = {}
  /\ None \notin Daemons \cup Kills \cup Uploads

\* A row of the queue is known by who wrote it; a daemon writes one for itself.
Shutdowns == Kills \cup Daemons
Commands == Shutdowns \cup Uploads

VARIABLES
  \* files
  lock,        \* .onionr-lock exists
  hostFile,    \* the address of the public API server is known
  hostname,    \* Tor has made an onion service before
  torPid,      \* whose Tor has its number in torPid.txt
  queue,       \* the rows of the queue
  \* Tor, and the daemon's threads
  tor,         \* whose Tor runs
  main, api, public, comm,
  stop,        \* communicatorInst.shutdown
  killed,      \* SIGTERM has come
  handler,     \* the row that a handler thread has read, None if it has nothing to do
  \* the other processes
  user,        \* how far a process is that stops the daemon, or uploads
  uploads,     \* how often the block has been added to blocksToUpload
  \* history
  overlapped,  \* a handler has read the queue between another's read and its deletion
  crashed,     \* a daemon has been killed without notice
  unheard      \* daemons whose servers went on when they were asked to stop

files == <<lock, hostFile, hostname, torPid>>
threads == <<main, api, public, comm, stop, killed>>
handlers == <<handler, uploads>>
history == <<overlapped, crashed, unheard>>
vars == <<files, queue, tor, threads, handlers, user, history>>

TypeOK ==
  /\ {lock, hostFile, hostname, overlapped, crashed} \subseteq BOOLEAN
  /\ torPid \in Daemons \cup {None} /\ tor \in Daemons \cup {None}
  /\ queue \in Seq(Commands)
  /\ main \in [Daemons -> {"new", "files", "tor", "run", "api", "end", "over"}]
  /\ api \in [Daemons -> {"new", "starting", "serving", "over"}]
  /\ public \in [Daemons -> {"new", "starting", "serving", "over"}]
  /\ comm \in [Daemons -> {"new", "init", "run", "over"}]
  /\ stop \in [Daemons -> BOOLEAN] /\ killed \in [Daemons -> BOOLEAN]
  /\ handler \in [Daemons -> [Handlers -> Commands \cup {None}]]
  /\ user \in [Kills \cup Uploads -> {"new", "given", "over"}]
  /\ uploads \in [Uploads -> Nat] /\ unheard \subseteq Daemons

Init ==
  /\ lock = FALSE /\ hostFile = FALSE /\ hostname \in BOOLEAN
  /\ torPid = None /\ tor = None /\ queue = <<>>
  /\ main = [d \in Daemons |-> "new"] /\ api = [d \in Daemons |-> "new"]
  /\ public = [d \in Daemons |-> "new"] /\ comm = [d \in Daemons |-> "new"]
  /\ stop = [d \in Daemons |-> FALSE] /\ killed = [d \in Daemons |-> FALSE]
  /\ handler = [d \in Daemons |-> [h \in Handlers |-> None]]
  /\ user = [u \in Kills \cup Uploads |-> "new"]
  /\ uploads = [c \in Uploads |-> 0]
  /\ overlapped = FALSE /\ crashed = FALSE /\ unheard = {}

-----------------------------------------------------------------------------
(* What several steps do. *)

Goto(d, from, to) == main[d] = from /\ main' = [main EXCEPT ![d] = to]

\* The servers listen at one address, so a request reaches the daemon whose server has it.
Listening == {d \in Daemons : api[d] = "serving"}

\* shutdown of the private API: it stops both servers, or does nothing if the public one is
\* not there yet.  Nobody hears it if nobody listens.
ShutdownServers(asker) ==
  LET ready == {d \in Listening : public[d] \in {"serving", "over"}}
      Over(servers) == [d \in Daemons |-> IF d \in ready THEN "over" ELSE servers[d]]
  IN  /\ api' = Over(api) /\ public' = Over(public)
      /\ unheard' = IF api'[asker] = "over" /\ public'[asker] = "over" THEN unheard
                    ELSE unheard \cup {asker}

\* killTor: the process whose number is in the file, and the file if there was one.
KillTor ==
  /\ tor' = IF torPid = tor THEN None ELSE tor
  /\ torPid' = IF torPid = tor THEN None ELSE torPid

-----------------------------------------------------------------------------
(* The main thread: start and daemon. *)

\* Fault: the lock is written, but not looked for.
StartAnyway(d) ==
  /\ Goto(d, "new", "files")
  /\ api' = [api EXCEPT ![d] = "starting"]
  /\ lock' = TRUE
  /\ UNCHANGED <<hostFile, hostname, torPid, queue, tor, public, comm, stop, killed, handlers,
                 user, history>>

\* Look for the lock file; write it, and start the threads of the servers.  That another
\* start comes between is not modelled.
Start(d) ==
  /\ main[d] = "new"
  /\ main' = [main EXCEPT ![d] = IF lock THEN "over" ELSE "files"]
  /\ api' = IF lock THEN api ELSE [api EXCEPT ![d] = "starting"]
  /\ lock' = TRUE
  /\ UNCHANGED <<hostFile, hostname, torPid, queue, tor, public, comm, stop, killed, handlers,
                 user, history>>

\* The API server makes itself known, and then fails if the address is in use.
ServeApi(d) ==
  /\ api[d] = "starting"
  /\ api' = [api EXCEPT ![d] = IF Listening = {} THEN "serving" ELSE "over"]
  /\ public' = [public EXCEPT ![d] = "starting"]
  /\ hostFile' = TRUE
  /\ UNCHANGED <<lock, hostname, torPid, queue, tor, main, comm, stop, killed, handlers, user,
                 history>>

\* The public server waits for the address of the onion service.
ServePublic(d) ==
  /\ public[d] = "starting" /\ hostname
  /\ public' = [public EXCEPT ![d] =
                  IF \E e \in Daemons : public[e] = "serving" THEN "over" ELSE "serving"]
  /\ UNCHANGED <<files, queue, tor, main, api, comm, stop, killed, handlers, user, history>>

\* generateTorrc: Tor will have an onion service, or has kept one from before.
OnionService == hostname \/ HiddenService

\* startTor, when Tor's data is not in use.
LaunchTor(d) ==
  /\ hostFile /\ tor = None
  /\ Goto(d, "files", "tor")
  /\ tor' = d /\ hostname' = OnionService
  /\ UNCHANGED <<lock, hostFile, torPid, queue, api, public, comm, stop, killed, handlers, user,
                 history>>

\* Otherwise Tor ends at once; the daemon stops, and leaves the lock.
TorFails(d) ==
  /\ hostFile /\ tor # None
  /\ Goto(d, "files", "over")
  /\ ShutdownServers(d)
  /\ UNCHANGED <<files, queue, tor, comm, stop, killed, handlers, user, overlapped,
                 crashed>>

\* Tor is ready: write its number, and start the communicator.
TorReady(d) ==
  /\ Goto(d, "tor", "run")
  /\ torPid' = d
  /\ comm' = [comm EXCEPT ![d] = "init"]
  /\ UNCHANGED <<lock, hostFile, hostname, queue, tor, api, public, stop, killed, handlers, user,
                 history>>

\* The communicator has been stopped, or SIGTERM has come: it is told to stop.
Leave(d) ==
  /\ stop[d] \/ killed[d]
  /\ Goto(d, "run", "api")
  /\ queue' = Append(queue, d)
  /\ UNCHANGED <<files, tor, api, public, comm, stop, killed, handlers, user, history>>

StopServers(d) ==
  /\ Goto(d, "api", "end")
  /\ ShutdownServers(d)
  /\ UNCHANGED <<files, queue, tor, comm, stop, killed, handlers, user, overlapped,
                 crashed>>

\* Fault: Tor is left to the process that stopped the node.
EndLeavesTor(d) ==
  /\ Goto(d, "end", "over")
  /\ lock' = FALSE /\ hostFile' = FALSE
  /\ UNCHANGED <<hostname, torPid, queue, tor, api, public, comm, stop, killed, handlers, user,
                 history>>

End(d) ==
  /\ Goto(d, "end", "over")
  /\ KillTor
  /\ lock' = FALSE /\ hostFile' = FALSE
  /\ UNCHANGED <<hostname, queue, api, public, comm, stop, killed, handlers, user, history>>

\* Bound of the model: there is one SIGTERM or one crash.
Accident == crashed \/ \E d \in Daemons : killed[d]

Sigterm(d) ==
  /\ main[d] \in {"files", "tor", "run"} /\ ~Accident
  /\ killed' = [killed EXCEPT ![d] = TRUE]
  /\ UNCHANGED <<files, queue, tor, main, api, public, comm, stop, handlers, user, history>>

\* The process is gone; Tor is another one, and stays.
Crash(d) ==
  /\ main[d] \notin {"new", "over"} /\ ~Accident
  /\ crashed' = TRUE
  /\ main' = [main EXCEPT ![d] = "over"] /\ api' = [api EXCEPT ![d] = "over"]
  /\ public' = [public EXCEPT ![d] = "over"] /\ comm' = [comm EXCEPT ![d] = "over"]
  /\ handler' = [handler EXCEPT ![d] = [h \in Handlers |-> None]]
  /\ UNCHANGED <<files, queue, tor, stop, killed, uploads, user, overlapped, unheard>>

\* After a crash the user removes the lock, as start says, to try again.
Unlock ==
  /\ crashed /\ lock
  /\ \A d \in Daemons : main[d] \in {"new", "over"} /\ comm[d] \in {"new", "over"}
  /\ lock' = FALSE
  /\ UNCHANGED <<hostFile, hostname, torPid, queue, tor, threads, handlers, user, history>>

-----------------------------------------------------------------------------
(* The communicator, and its handlers. *)

\* Dead messages are cleared before the timers start.
StartCommunicator(d) ==
  /\ comm[d] = "init"
  /\ comm' = [comm EXCEPT ![d] = "run"]
  /\ queue' = <<>>
  /\ UNCHANGED <<files, tor, main, api, public, stop, killed, handlers, user, history>>

\* The end of the main loop.
StopCommunicator(d) ==
  /\ comm[d] = "run" /\ stop[d]
  /\ comm' = [comm EXCEPT ![d] = "over"]
  /\ ShutdownServers(d)
  /\ UNCHANGED <<files, queue, tor, main, stop, killed, handlers, user, overlapped, crashed>>

\* Fault: only a daemon whose main thread waits for it is stopped.
DetectAPICrashIfWatched(d) ==
  /\ comm[d] = "run" /\ ~stop[d] /\ Listening = {} /\ main[d] = "run"
  /\ stop' = [stop EXCEPT ![d] = TRUE]
  /\ UNCHANGED <<files, queue, tor, main, api, public, comm, killed, handlers, user, history>>

\* detectAPICrash: nobody has answered for long.
DetectAPICrash(d) ==
  /\ comm[d] = "run" /\ ~stop[d] /\ Listening = {}
  /\ stop' = [stop EXCEPT ![d] = TRUE]
  /\ UNCHANGED <<files, queue, tor, main, api, public, comm, killed, handlers, user, history>>

\* daemonQueue: the oldest row is read, and deleted after that.
ReadCommand(d, h) ==
  /\ comm[d] = "run" /\ ~stop[d]
  /\ h = First \/ d \in Several
  /\ handler[d][h] = None /\ queue # <<>>
  /\ handler' = [handler EXCEPT ![d][h] = Head(queue)]
  /\ overlapped' = (overlapped \/ \E e \in Daemons, i \in Handlers : handler[e][i] # None)
  /\ UNCHANGED <<files, queue, tor, threads, uploads, user, crashed, unheard>>

\* handle_daemon_commands, with the row that has been read.
Handle(d, c) ==
  /\ stop' = IF c \in Shutdowns THEN [stop EXCEPT ![d] = TRUE] ELSE stop
  /\ uploads' = IF c \in Uploads THEN [uploads EXCEPT ![c] = @ + 1] ELSE uploads

Idle(d, h) == handler' = [handler EXCEPT ![d][h] = None]

\* Fault: every row is deleted.
RunCommandAlone(d, h) ==
  /\ handler[d][h] # None
  /\ queue' = <<>> /\ Handle(d, handler[d][h]) /\ Idle(d, h)
  /\ UNCHANGED <<files, tor, main, api, public, comm, killed, user, history>>

\* Fault: the row is left.
RunCommandAgain(d, h) ==
  /\ handler[d][h] # None
  /\ Handle(d, handler[d][h]) /\ Idle(d, h)
  /\ UNCHANGED <<files, queue, tor, main, api, public, comm, killed, user, history>>

\* The row is deleted, and the command run at once.
RunCommand(d, h) ==
  /\ handler[d][h] # None
  /\ queue' = RemoveFirst(queue, handler[d][h])
  /\ Handle(d, handler[d][h]) /\ Idle(d, h)
  /\ UNCHANGED <<files, tor, main, api, public, comm, killed, user, history>>

-----------------------------------------------------------------------------
(* The other processes. *)

\* daemonQueueAdd, by any of them.
GiveCommand(u) ==
  /\ user[u] = "new"
  /\ user' = [user EXCEPT ![u] = "given"]
  /\ queue' = Append(queue, u)
  /\ UNCHANGED <<files, tor, threads, handlers, history>>

\* The command stop goes on with Tor.
StopTor(k) ==
  /\ k \in Kills /\ user[k] = "given"
  /\ user' = [user EXCEPT ![k] = "over"]
  /\ KillTor
  /\ UNCHANGED <<lock, hostFile, hostname, queue, threads, handlers, history>>

MainThread(d) ==
  \/ LaunchTor(d) \/ TorFails(d) \/ TorReady(d) \/ Leave(d)
  \/ StopServers(d) \/ End(d)

Servers(d) == ServeApi(d) \/ ServePublic(d)
Communicator(d) == StartCommunicator(d) \/ StopCommunicator(d)

Next ==
  \/ \E d \in Daemons :
       \/ Start(d) \/ MainThread(d) \/ Servers(d) \/ Communicator(d) \/ DetectAPICrash(d)
       \/ Sigterm(d) \/ Crash(d)
       \/ \E h \in Handlers : ReadCommand(d, h) \/ RunCommand(d, h)
  \/ \E u \in Kills \cup Uploads : GiveCommand(u) \/ StopTor(u)
  \/ Unlock

Spec == Init /\ [][Next]_vars

\* Threads go on, timers fire again and again, and it is noticed in the end that nobody
\* listens.
LiveSpec ==
  /\ Spec
  /\ \A d \in Daemons :
       /\ WF_vars(MainThread(d)) /\ WF_vars(Communicator(d))
       /\ WF_vars(ServeApi(d)) /\ WF_vars(ServePublic(d)) /\ WF_vars(DetectAPICrash(d))
       /\ \A h \in Handlers :
            WF_vars(ReadCommand(d, h) \/ RunCommand(d, h))
  /\ \A u \in Kills \cup Uploads : WF_vars(StopTor(u))

-----------------------------------------------------------------------------
(* Properties. *)

Active == {d \in Daemons : comm[d] # "over" /\ comm[d] # "new" /\ ~stop[d]}
Gone(d) == main[d] = "over" /\ api[d] \in {"new", "over"} /\ public[d] \in {"new", "over"}
           /\ comm[d] \in {"new", "over"}

\* One communicator at a time works on the data, since there is a lock; a
\* SIGTERM, which frees the lock before the communicator has stopped, is the
\* exception (start, daemon).
OneCommunicator ==
  (\A d \in Daemons : ~killed[d]) => Cardinality(Active) <= 1

\* No command is run twice, unless handlers overlap (daemonQueue).
CommandsRunOnce == ~overlapped => \A c \in Uploads : uploads[c] <= 1

\* Tor does not outlive the daemons, however they are stopped (kill_daemon, daemon).
NoStrayTor ==
  ~crashed /\ (\A d \in Daemons : main[d] \in {"new", "over"}) => tor = None

\* A communicator that runs when the command to stop is in the queue stops, unless one that
\* a SIGTERM has left over takes the command (daemonQueue, handle_daemon_commands).
StopIsHeard ==
  \A d \in Daemons :
    (comm[d] = "run" /\ \E k \in Kills : Contains(queue, k))
      ~> (comm[d] = "over" \/ \E e \in Daemons : killed[e])

\* A daemon that has come to its end ends as a process, if its servers heard when they were
\* asked to stop, which they do once both are up, and no other daemon answers in its place
\* (daemon, shutdown, detectAPICrash).
EndsAsProcess ==
  \A d \in Daemons : main[d] = "over" ~> (Gone(d) \/ d \in unheard \/ Listening \ {d} # {})
=============================================================================
