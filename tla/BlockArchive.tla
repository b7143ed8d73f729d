---------------------------- MODULE BlockArchive ----------------------------
(***************************************************************************)
(* What a node promises about the blocks it has, whatever its threads and  *)
(* commands do to one another.  A block is let in unless it is banned; it  *)
(* is offered only when it has been let in and its data is kept; it is     *)
(* withdrawn only when it is banned or cannot be read; the data that is    *)
(* kept stays, and so does a ban.  A restart forgets who was let in.       *)
(***************************************************************************)
CONSTANT Blocks

VARIABLES unreadable,   \* blocks that cannot be read, for good
          kept,         \* blocks whose data is on disk
          offered,      \* blocks the node has, and gives to peers
          banned,
          admitted      \* blocks let in that are not offered or given up yet

archiveVars == <<unreadable, kept, offered, banned, admitted>>

ArchiveInit ==
  /\ unreadable \subseteq Blocks
  /\ kept = {} /\ offered = {} /\ banned = {} /\ admitted = {}

\* Somebody is done with b; somebody else may still be at it.
LetGo(b) == admitted' \in {admitted, admitted \ {b}}

Admit(b) ==
  /\ b \notin banned
  /\ admitted' = admitted \cup {b}
  /\ UNCHANGED <<unreadable, kept, offered, banned>>

GiveUp(b) ==
  /\ LetGo(b)
  /\ UNCHANGED <<unreadable, kept, offered, banned>>

Keep(b) ==
  /\ b \in admitted
  /\ kept' = kept \cup {b}
  /\ UNCHANGED <<unreadable, offered, banned, admitted>>

Publish(b) ==
  /\ b \in admitted \cap kept
  /\ offered' = offered \cup {b}
  /\ LetGo(b)
  /\ UNCHANGED <<unreadable, kept, banned>>

\* By the operator, by the cleanup, or because b is invalid.
Ban(b) ==
  /\ banned' = banned \cup {b}
  /\ LetGo(b)
  /\ UNCHANGED <<unreadable, kept, offered>>

Withdraw(b) ==
  /\ b \in banned \cup unreadable
  /\ offered' = offered \ {b}
  /\ UNCHANGED <<unreadable, kept, banned, admitted>>

Restart ==
  /\ admitted' = {}
  /\ UNCHANGED <<unreadable, kept, offered, banned>>

ArchiveNext ==
  \/ \E b \in Blocks : Admit(b) \/ GiveUp(b) \/ Keep(b) \/ Publish(b)
                       \/ Ban(b) \/ Withdraw(b)
  \/ Restart

ArchiveSpec == ArchiveInit /\ [][ArchiveNext]_archiveVars

=============================================================================
