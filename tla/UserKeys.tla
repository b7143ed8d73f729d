------------------------------ MODULE UserKeys ------------------------------
(***************************************************************************)
(* The forward secrecy keys that users exchange inside their messages.     *)
(* Each message that is signed and encrypted carries the public half of a  *)
(* key pair generated for its recipient, who encrypts to it what it        *)
(* answers.  Both halves are kept for KeyLife: the private half from when  *)
(* it was generated, the public half from when the message was processed.  *)
(*                                                                         *)
(* Messages take any time and arrive in any order; several threads of a    *)
(* node process blocks; a node may stop at any moment.                     *)
(***************************************************************************)
EXTENDS Integers, FiniteSets

CONSTANTS
  Users,      \* one key of its own and one node each
  Importers,  \* the threads of all nodes that save and process blocks
  KeyLife,    \* DEFAULT_KEY_EXPIRE
  MaxTime, MaxKeys,  \* bounds of the model: the clock, and the keys generated
  None

ASSUME KeyConstants ==
  /\ KeyLife \in Nat \ {0} /\ MaxTime \in Nat /\ MaxKeys \in Nat
  /\ None \notin Int

VARIABLES
  now,      \* getEpoch of every node
  issued,   \* history: the key pairs generated so far
  mine,     \* table myForwardKeys of each user's node
  theirs,   \* table forwardKeys of each user's node
  blocks,   \* the messages that were sent
  held,     \* those of them that the node of the recipient has stored
  imports   \* what each thread imports, and what it does with the key in it

vars == <<now, issued, mine, theirs, blocks, held, imports>>

\* A key pair: who generated it, for whom and when; no tells those of a moment apart.
Keys == [by : Users, for : Users, at : Nat, no : Nat]
Mine == [peer : Users, key : Keys, expire : Nat]
Theirs == [peer : Users, key : Keys, date : Nat, expire : Nat]
\* fwd is the key the content is encrypted with, new the key in the metadata.
Messages == [from : Users, to : Users, fwd : Keys \cup {None}, new : Keys \cup {None},
             expire : Nat \cup {None}]
Imports == [step : {"read", "add"}, block : Messages, date : Nat]

TypeOK ==
  /\ now \in Nat /\ issued \subseteq Keys
  /\ mine \in [Users -> SUBSET Mine] /\ theirs \in [Users -> SUBSET Theirs]
  /\ blocks \subseteq Messages
  /\ held \subseteq Messages
  /\ imports \in [Importers -> Imports \cup {None}]

Init ==
  /\ now = 0 /\ issued = {}
  /\ mine = [u \in Users |-> {}] /\ theirs = [u \in Users |-> {}]
  /\ blocks = {} /\ held = {}
  /\ imports = [i \in Importers |-> None]

-----------------------------------------------------------------------------
(* The two tables. *)

Live(rows) == {r \in rows : r.expire > now}

\* deleteExpiredKeys.
WithoutMyExpired(u) == [mine EXCEPT ![u] = Live(@)]

\* Fault: the keys of the user are taken as they are.
AllOfTheirs(u, v) == theirs

\* deleteTheirExpiredKeys.
WithoutTheirExpired(u, v) ==
  [theirs EXCEPT ![u] = {r \in @ : r.peer = v => r.expire > now}]

\* _getForwardKeys.
TheirKeys(u, v) == {r \in theirs[u] : r.peer = v}

\* getGeneratedForwardKeys.
MyKeys(u, v) == {r.key : r \in {s \in mine[u] : s.peer = v}}

\* _getLatestForwardKey: a row with the greatest expire, of those of the same one any.
Latest(rows, v) ==
  {r \in rows : r.peer = v /\ \A s \in rows : s.peer = v => s.expire <= r.expire}

\* The row generateForwardKey inserts.
MyRow(k) == [peer |-> k.for, key |-> k, expire |-> k.at + KeyLife]

\* Fault: only the oldest of the keys is tried.
DecryptsWithOldest(u, b) ==
  \E r \in mine[u] :
    /\ r.peer = b.from /\ r.key = b.fwd
    /\ \A s \in mine[u] : s.peer = b.from => r.expire <= s.expire

\* forwardDecrypt tries all keys that were generated for the signer.
ForwardDecrypts(u, b) == b.fwd \in MyKeys(u, b.from)

\* Block.decrypt: with the user's own key, and then with a forward key if there is one.
Decrypts(u, b) == u = b.to /\ (b.fwd # None => ForwardDecrypts(u, b))

-----------------------------------------------------------------------------
(* insertBlock with encryptType "asym". *)

NewKey(u, v) == [by |-> u, for |-> v, at |-> now, no |-> Cardinality(issued)]

\* forwardEncrypt: with the latest key of the recipient, which gives the block's expire.
ForwardEncrypted(m, rows) ==
  {[m EXCEPT !.fwd = r.key, !.expire = r.expire] : r \in Latest(rows, m.to)}

\* Encrypt with a forward key of the user, if there is one, and generate a key for it.
Encrypt(u, v) ==
  /\ Cardinality(issued) < MaxKeys /\ u # v
  /\ LET rows == WithoutTheirExpired(u, v)[u]
         k == NewKey(u, v)
         plain == [from |-> u, to |-> v, fwd |-> None, new |-> k, expire |-> None]
     IN  /\ theirs' = WithoutTheirExpired(u, v)
         /\ mine' = [WithoutMyExpired(u) EXCEPT ![u] = @ \cup {MyRow(k)}]
         /\ issued' = issued \cup {k}
         /\ \/ /\ Latest(rows, v) = {}
               /\ blocks' = blocks \cup {plain}
            \/ \E m \in ForwardEncrypted(plain, rows) : blocks' = blocks \cup {m}
  /\ UNCHANGED <<now, held, imports>>

-----------------------------------------------------------------------------
(* Import of a block: validateMetadata, setData, processBlockMetadata. *)

Expired(b) == b.expire # None /\ b.expire <= now

\* The block passes validation; another thread may do the same with it.
StartImport(i, b) ==
  /\ imports[i] = None
  /\ b \in blocks /\ b \notin held /\ ~Expired(b)
  /\ imports' = [imports EXCEPT ![i] = [step |-> "read", block |-> b, date |-> 0]]
  /\ UNCHANGED <<now, issued, mine, theirs, blocks, held>>

Importing(i, step) == imports[i] # None /\ imports[i].step = step

\* addForwardKey: later by one than the row of the same moment.
DateFor(rows) == IF \E r \in rows : r.date = now THEN now + 1 ELSE now

\* Store the block and decrypt it; see whether the key in it is known, and choose the
\* date of its row.
Read(i) ==
  /\ Importing(i, "read")
  /\ LET b == imports[i].block
         rows == TheirKeys(b.to, b.from)
     IN  /\ held' = held \cup {b}
         /\ imports' = [imports EXCEPT ![i] =
              IF b.new = None \/ \E r \in rows : r.key = b.new THEN None
              ELSE [step |-> "add", block |-> b, date |-> DateFor(rows)]]
  /\ UNCHANGED <<now, issued, mine, theirs, blocks>>

\* Fault: the key is stored as one of the node's own user.
TheirRowOwn(b, date) ==
  [peer |-> b.to, key |-> b.new, date |-> date, expire |-> date + KeyLife]

TheirRow(b, date) ==
  [peer |-> b.from, key |-> b.new, date |-> date, expire |-> date + KeyLife]

\* Insert the row, after a sleep if the date was taken.
Add(i) ==
  /\ Importing(i, "add") /\ now >= imports[i].date
  /\ LET b == imports[i].block
     IN  theirs' = [theirs EXCEPT ![b.to] = @ \cup {TheirRow(b, imports[i].date)}]
  /\ imports' = [imports EXCEPT ![i] = None]
  /\ UNCHANGED <<now, issued, mine, blocks, held>>

-----------------------------------------------------------------------------
(* Housekeeping, time and failures. *)

\* Fault: the node's own keys are left.
CleanTheirs(u) ==
  /\ theirs' = [theirs EXCEPT ![u] = Live(@)]
  /\ UNCHANGED <<now, issued, mine, blocks, held, imports>>

\* clean_keys, which the daemon calls every 15 seconds: rows of the keys that have expired
\* in any row.
CleanKeys(u) ==
  /\ theirs' = [theirs EXCEPT ![u] =
       {r \in @ : \A s \in @ : s.key = r.key => s.expire > now}]
  /\ mine' = WithoutMyExpired(u)
  /\ UNCHANGED <<now, issued, blocks, held, imports>>

Tick ==
  /\ now < MaxTime
  /\ now' = now + 1
  /\ UNCHANGED <<issued, mine, theirs, blocks, held, imports>>

\* A node stops: what it was importing is lost.
Crash(u) ==
  /\ imports' = [i \in Importers |->
       IF imports[i] # None /\ imports[i].block.to = u THEN None ELSE imports[i]]
  /\ UNCHANGED <<now, issued, mine, theirs, blocks, held>>

-----------------------------------------------------------------------------
Next ==
  \/ \E u, v \in Users : Encrypt(u, v)
  \/ \E i \in Importers, b \in blocks : StartImport(i, b)
  \/ \E i \in Importers : Read(i) \/ Add(i)
  \/ \E u \in Users : CleanKeys(u) \/ Crash(u)
  \/ Tick

Spec == Init /\ [][Next]_vars

\* The daemon calls clean_keys again and again.
LiveSpec == Spec /\ \A u \in Users : WF_vars(CleanKeys(u))

-----------------------------------------------------------------------------
(* Properties. *)

\* Until KeyLife after a key pair was generated, the user it was generated by can read
\* every message encrypted with it, wherever that message is and however many other keys
\* were exchanged meanwhile: addForwardKey, forwardEncrypt and forwardDecrypt agree about
\* whose key is whose, and no key is deleted early.
MessagesCanBeRead ==
  \A b \in blocks :
    b.fwd # None /\ now < b.fwd.at + KeyLife => Decrypts(b.to, b)

\* A message that is made is not one that other nodes refuse as expired: forwardEncrypt
\* takes the block's expire time from a key that has not expired.
BornFresh == [][\A b \in blocks' \ blocks : ~Expired(b)]_vars

\* What a user stores was generated for that user by the one it is stored for, whatever
\* the order in which messages were processed.
KeysAreTheirs ==
  \A u \in Users : \A r \in theirs[u] : r.key.by = r.peer /\ r.key.for = u

\* Forward secrecy: the private halves of keys that have expired are deleted in the end,
\* also when the node sends no more messages.
PrivateKeysGo ==
  \A u \in Users : (Live(mine[u]) # mine[u]) ~> (Live(mine[u]) = mine[u])
=============================================================================
