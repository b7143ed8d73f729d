--------------------------- MODULE UserKeysProofs ---------------------------
(***************************************************************************)
(* For any number of users, keys and threads: a message can be read until  *)
(* the key it is encrypted with has reached its age, what a user stores as *)
(* a key of another one was generated by that one, for it, and no message  *)
(* is made that has expired.                                               *)
(***************************************************************************)
EXTENDS UserKeys, FiniteSetTheorems, TLAPS

\* The private half of every key is there until the key has reached its age.
KeptInTime ==
  \A k \in issued : now < k.at + KeyLife => MyRow(k) \in mine[k.by]

\* The keys in a message were generated by its sender for its recipient, and the one it
\* is encrypted with the other way round.
KeysInMessages ==
  \A b \in blocks :
    /\ b.new # None => b.new \in issued /\ b.new.by = b.from /\ b.new.for = b.to
    /\ b.fwd # None => b.fwd \in issued /\ b.fwd.by = b.to /\ b.fwd.for = b.from

StoredKeys == \A u \in Users : \A r \in theirs[u] : r.key \in issued

\* A thread imports what was sent, and adds the key in it only if there is one.
ImportsOfMessages ==
  \A i \in Importers : imports[i] # None =>
    /\ imports[i].block \in blocks
    /\ imports[i].step = "add" => imports[i].block.new # None

\* The inductive invariant: what is known of a key, from when it is generated to when it
\* is used.
IInv ==
  /\ TypeOK /\ IsFiniteSet(issued)
  /\ KeptInTime /\ KeysInMessages /\ StoredKeys /\ KeysAreTheirs /\ ImportsOfMessages

LEMMA InitIInv == Init => IInv
<1> SUFFICES ASSUME Init PROVE IInv
  OBVIOUS
<1>1. IsFiniteSet(issued)
  BY FS_EmptySet DEF Init
<1>2. TypeOK
  BY DEF Init, TypeOK
<1> QED
  BY <1>1, <1>2 DEF Init, IInv, KeptInTime, KeysInMessages, StoredKeys, KeysAreTheirs,
    ImportsOfMessages

\* A key that is generated is a new row of its owner and stays consistent with the
\* others: no row that is younger is deleted.
LEMMA EncryptIInv ==
  ASSUME IInv, NEW u \in Users, NEW v \in Users, Encrypt(u, v)
  PROVE  IInv'
<1> DEFINE k == NewKey(u, v)
           rows == WithoutTheirExpired(u, v)[u]
           plain == [from |-> u, to |-> v, fwd |-> None, new |-> k, expire |-> None]
<1> USE KeyConstants
<1>1. k \in Keys /\ k.by = u /\ k.for = v /\ k.at = now
  BY FS_CardinalityType DEF IInv, TypeOK, NewKey, Keys
<1>2. MyRow(k) \in Mine
  BY <1>1 DEF MyRow, Mine, Keys
<1>3. rows \subseteq theirs[u] /\ theirs' = [theirs EXCEPT ![u] = rows]
  BY DEF Encrypt, WithoutTheirExpired, IInv, TypeOK
<1>4. PICK b \in Messages :
        /\ blocks' = blocks \cup {b}
        /\ b.from = u /\ b.to = v /\ b.new = k
        /\ b.fwd # None => b.fwd \in issued /\ b.fwd.by = v /\ b.fwd.for = u
  <2>1. CASE blocks' = blocks \cup {plain}
    <3>1. plain \in Messages
      BY <1>1 DEF Messages
    <3> QED
      BY <2>1, <3>1
  <2>2. CASE \E r \in Latest(rows, v) :
               blocks' = blocks \cup {[plain EXCEPT !.fwd = r.key, !.expire = r.expire]}
    <3>1. PICK r \in Latest(rows, v) :
            blocks' = blocks \cup {[plain EXCEPT !.fwd = r.key, !.expire = r.expire]}
      BY <2>2
    <3>2. r \in theirs[u] /\ r.peer = v
      BY <1>3, <3>1 DEF Latest
    <3>3. r \in Theirs /\ r.key \in issued /\ r.key.by = v /\ r.key.for = u
      BY <3>2 DEF IInv, TypeOK, StoredKeys, KeysAreTheirs
    <3>4. [plain EXCEPT !.fwd = r.key, !.expire = r.expire] \in Messages
      BY <1>1, <3>3 DEF Messages, Theirs
    <3> QED
      BY <3>1, <3>3, <3>4
  <2> QED
    BY <2>1, <2>2 DEF Encrypt, ForwardEncrypted
<1>5. issued' = issued \cup {k} /\ now' = now /\ imports' = imports /\ held' = held
  BY DEF Encrypt
<1>6. mine' = [mine EXCEPT ![u] = Live(@) \cup {MyRow(k)}]
  BY DEF Encrypt, WithoutMyExpired, IInv, TypeOK
<1>7. TypeOK'
  <2>1. Live(mine[u]) \cup {MyRow(k)} \subseteq Mine
    BY <1>2 DEF Live, IInv, TypeOK
  <2>2. mine' \in [Users -> SUBSET Mine]
    BY <1>6, <2>1 DEF IInv, TypeOK
  <2>3. theirs' \in [Users -> SUBSET Theirs]
    BY <1>3 DEF IInv, TypeOK
  <2> QED
    BY <1>1, <1>4, <1>5, <2>2, <2>3 DEF IInv, TypeOK
<1>8. IsFiniteSet(issued')
  BY <1>5, FS_AddElement DEF IInv
<1>9. KeptInTime'
  <2> SUFFICES ASSUME NEW q \in issued', now' < q.at + KeyLife
               PROVE  MyRow(q) \in mine'[q.by]
    BY DEF KeptInTime, MyRow
  <2>1. CASE q = k
    BY <2>1, <1>1, <1>6 DEF IInv, TypeOK
  <2>2. CASE q # k
    <3>1. q \in issued /\ q \in Keys /\ MyRow(q) \in mine[q.by]
      BY <2>2, <1>5 DEF IInv, KeptInTime, TypeOK
    <3>2. MyRow(q).expire > now
      BY <3>1, <1>5 DEF MyRow, Keys, IInv, TypeOK
    <3> QED
      BY <3>1, <3>2, <1>6 DEF Live, IInv, TypeOK, Keys
  <2> QED
    BY <2>1, <2>2
<1>10. KeysInMessages'
  BY <1>1, <1>4, <1>5 DEF IInv, KeysInMessages
<1>11. StoredKeys' /\ KeysAreTheirs'
  BY <1>3, <1>5 DEF IInv, TypeOK, StoredKeys, KeysAreTheirs
<1>12. ImportsOfMessages'
  BY <1>4, <1>5 DEF IInv, ImportsOfMessages
<1> QED
  BY <1>7, <1>8, <1>9, <1>10, <1>11, <1>12 DEF IInv

\* A thread starts to import a message, and stores it.
LEMMA ImportIInv ==
  ASSUME IInv, NEW i \in Importers,
         Read(i) \/ \E b \in blocks : StartImport(i, b)
  PROVE  IInv'
<1>1. CASE \E b \in blocks : StartImport(i, b)
  <2> PICK b \in blocks : StartImport(i, b)
    BY <1>1
  <2>1. [step |-> "read", block |-> b, date |-> 0] \in Imports
    BY DEF IInv, TypeOK, Imports
  <2>2. TypeOK'
    BY <2>1 DEF IInv, TypeOK, StartImport
  <2>3. ImportsOfMessages'
    BY DEF IInv, TypeOK, ImportsOfMessages, StartImport
  <2> QED
    BY <2>2, <2>3 DEF StartImport, IInv, KeptInTime, KeysInMessages, StoredKeys,
      KeysAreTheirs, MyRow
<1>2. CASE Read(i)
  <2> DEFINE b == imports[i].block
             rows == TheirKeys(b.to, b.from)
             next == [step |-> "add", block |-> b, date |-> DateFor(rows)]
  <2>1. imports[i] \in Imports /\ b \in blocks /\ b \in Messages
    BY <1>2 DEF Read, Importing, IInv, TypeOK, ImportsOfMessages
  <2>2. next \in Imports
    BY <2>1 DEF Imports, DateFor, TheirKeys, IInv, TypeOK
  <2>3. /\ imports' = [imports EXCEPT ![i] = None]
        \/ /\ imports' = [imports EXCEPT ![i] = next]
           /\ b.new # None
    BY <1>2 DEF Read
  <2>4. TypeOK'
    BY <1>2, <2>1, <2>2, <2>3 DEF IInv, TypeOK, Read
  <2>5. ImportsOfMessages'
    BY <1>2, <2>1, <2>3 DEF IInv, TypeOK, ImportsOfMessages, Read
  <2> QED
    BY <1>2, <2>4, <2>5 DEF Read, IInv, KeptInTime, KeysInMessages, StoredKeys,
      KeysAreTheirs, MyRow
<1> QED
  BY <1>1, <1>2

\* The row a thread adds is of the message's sender, who generated the key.
LEMMA AddIInv ==
  ASSUME IInv, NEW i \in Importers, Add(i)
  PROVE  IInv'
<1> DEFINE b == imports[i].block
           row == TheirRow(b, imports[i].date)
<1> USE KeyConstants
<1>1. imports[i] \in Imports /\ b \in blocks /\ b \in Messages /\ b.new # None
  BY DEF Add, Importing, IInv, TypeOK, ImportsOfMessages
<1>2. b.new \in issued /\ b.new \in Keys /\ b.new.by = b.from /\ b.new.for = b.to
  BY <1>1 DEF IInv, TypeOK, KeysInMessages
<1>3. row \in Theirs
  BY <1>1, <1>2 DEF TheirRow, Theirs, Imports, Messages
<1>4. /\ theirs' = [theirs EXCEPT ![b.to] = @ \cup {row}]
      /\ imports' = [imports EXCEPT ![i] = None]
      /\ UNCHANGED <<now, issued, mine, blocks, held>>
  BY DEF Add
<1>5. b.to \in Users
  BY <1>1 DEF Messages
<1>6. TypeOK'
  <2>1. theirs' \in [Users -> SUBSET Theirs]
    BY <1>3, <1>4, <1>5 DEF IInv, TypeOK
  <2> QED
    BY <1>4, <2>1 DEF IInv, TypeOK
<1>7. row.key \in issued /\ row.key.by = row.peer /\ row.key.for = b.to
  BY <1>2 DEF TheirRow
<1>8. StoredKeys' /\ KeysAreTheirs'
  BY <1>4, <1>5, <1>7 DEF IInv, TypeOK, StoredKeys, KeysAreTheirs
<1>9. ImportsOfMessages'
  BY <1>4 DEF IInv, TypeOK, ImportsOfMessages
<1> QED
  BY <1>4, <1>6, <1>8, <1>9 DEF IInv, KeptInTime, KeysInMessages, MyRow

\* Only rows that have expired are deleted.
LEMMA CleanKeysIInv ==
  ASSUME IInv, NEW u \in Users, CleanKeys(u)
  PROVE  IInv'
<1> DEFINE rows == {r \in theirs[u] : \A s \in theirs[u] : s.key = r.key => s.expire > now}
<1>1. /\ theirs' = [theirs EXCEPT ![u] = rows]
      /\ mine' = [mine EXCEPT ![u] = Live(@)]
      /\ UNCHANGED <<now, issued, blocks, held, imports>>
  BY DEF CleanKeys, WithoutMyExpired, IInv, TypeOK
<1>2. rows \subseteq theirs[u] /\ Live(mine[u]) \subseteq mine[u]
  BY DEF Live
<1>3. TypeOK'
  BY <1>1, <1>2 DEF IInv, TypeOK
<1>4. KeptInTime'
  <2> SUFFICES ASSUME NEW k \in issued, now < k.at + KeyLife
               PROVE  MyRow(k) \in mine'[k.by]
    BY <1>1 DEF KeptInTime, MyRow
  <2>1. MyRow(k) \in mine[k.by] /\ k.by \in Users /\ MyRow(k).expire > now
    BY DEF IInv, KeptInTime, MyRow, TypeOK, Keys
  <2> QED
    BY <1>1, <2>1 DEF Live, IInv, TypeOK
<1>5. StoredKeys' /\ KeysAreTheirs'
  BY <1>1, <1>2 DEF IInv, TypeOK, StoredKeys, KeysAreTheirs
<1> QED
  BY <1>1, <1>3, <1>4, <1>5 DEF IInv, KeysInMessages, ImportsOfMessages

\* Time passes; a node stops.
LEMMA TickIInv == ASSUME IInv, Tick PROVE IInv'
<1> USE KeyConstants
<1>1. TypeOK'
  BY DEF IInv, TypeOK, Tick
<1>2. KeptInTime'
  <2> SUFFICES ASSUME NEW k \in issued, now + 1 < k.at + KeyLife
               PROVE  MyRow(k) \in mine[k.by]
    BY DEF KeptInTime, Tick, MyRow
  <2>1. k.at \in Nat /\ now \in Nat
    BY DEF IInv, TypeOK, Keys
  <2> QED
    BY <2>1 DEF IInv, KeptInTime
<1> QED
  BY <1>1, <1>2 DEF Tick, IInv, KeysInMessages, StoredKeys, KeysAreTheirs,
    ImportsOfMessages

LEMMA CrashIInv == ASSUME IInv, NEW u \in Users, Crash(u) PROVE IInv'
<1>1. TypeOK'
  BY DEF IInv, TypeOK, Crash
<1>2. ImportsOfMessages'
  BY DEF IInv, TypeOK, ImportsOfMessages, Crash
<1> QED
  BY <1>1, <1>2 DEF Crash, IInv, KeptInTime, KeysInMessages, StoredKeys, KeysAreTheirs,
    MyRow

LEMMA NextIInv == IInv /\ [Next]_vars => IInv'
<1> SUFFICES ASSUME IInv, [Next]_vars PROVE IInv'
  OBVIOUS
<1>1. CASE UNCHANGED vars
  BY <1>1 DEF vars, IInv, TypeOK, KeptInTime, KeysInMessages, StoredKeys, KeysAreTheirs,
    ImportsOfMessages, MyRow
<1>2. CASE \E u, v \in Users : Encrypt(u, v)
  BY <1>2, EncryptIInv
<1>3. CASE \E i \in Importers, b \in blocks : StartImport(i, b)
  BY <1>3, ImportIInv
<1>4. CASE \E i \in Importers : Read(i) \/ Add(i)
  BY <1>4, ImportIInv, AddIInv
<1>5. CASE \E u \in Users : CleanKeys(u) \/ Crash(u)
  BY <1>5, CleanKeysIInv, CrashIInv
<1>6. CASE Tick
  BY <1>6, TickIInv
<1> QED
  BY <1>1, <1>2, <1>3, <1>4, <1>5, <1>6 DEF Next

LEMMA AlwaysIInv == Spec => []IInv
BY InitIInv, NextIInv, PTL DEF Spec

\* Until a key has reached its age, the one it was generated by can read every message
\* encrypted with it, whatever was sent, imported and cleaned meanwhile.
THEOREM MessagesStayReadable == Spec => []MessagesCanBeRead
<1>1. IInv => MessagesCanBeRead
  <2> SUFFICES ASSUME IInv, NEW b \in blocks, b.fwd # None, now < b.fwd.at + KeyLife
               PROVE  Decrypts(b.to, b)
    BY DEF MessagesCanBeRead
  <2>1. b.fwd \in issued /\ b.fwd.by = b.to /\ b.fwd.for = b.from
    BY DEF IInv, KeysInMessages
  <2>2. MyRow(b.fwd) \in mine[b.to]
    BY <2>1 DEF IInv, KeptInTime
  <2>3. b.fwd \in MyKeys(b.to, b.from)
    BY <2>1, <2>2 DEF MyKeys, MyRow
  <2> QED
    BY <2>3 DEF Decrypts, ForwardDecrypts
<1> QED
  BY <1>1, AlwaysIInv, PTL

\* What a user stores as a key of another one was generated by that one, for the user.
THEOREM StoredKeysAreGenuine == Spec => []KeysAreTheirs
<1>1. IInv => KeysAreTheirs
  BY DEF IInv
<1> QED
  BY <1>1, AlwaysIInv, PTL

\* The tables of keys, the messages and the imports of threads stay well formed: the date of
\* a row is a time, and the keys in it were generated (generateForwardKey, addForwardKey).
THEOREM KeysTypeCorrect == Spec => []TypeOK
<1>1. IInv => TypeOK
  BY DEF IInv
<1> QED
  BY <1>1, AlwaysIInv, PTL

\* A message that is made has not expired: forwardEncrypt deletes the keys of the recipient
\* that have, before it takes one, with its time, from the rest.
THEOREM MessagesAreBornFresh == Spec => BornFresh
<1>1. ASSUME IInv, [Next]_vars PROVE [\A b \in blocks' \ blocks : ~Expired(b)]_vars
  <2>1. ASSUME NEW u \in Users, NEW v \in Users, Encrypt(u, v), NEW b \in blocks' \ blocks
        PROVE  ~Expired(b)
    <3> DEFINE rows == WithoutTheirExpired(u, v)[u]
               plain == [from |-> u, to |-> v, fwd |-> None, new |-> NewKey(u, v),
                         expire |-> None]
    <3>1. CASE b = plain
      BY <3>1 DEF Expired
    <3>2. ASSUME NEW r \in Latest(rows, v), b = [plain EXCEPT !.fwd = r.key, !.expire = r.expire]
          PROVE  ~Expired(b)
      <4>1. r \in theirs[u] /\ r.expire > now
        BY <1>1, <3>2 DEF Latest, WithoutTheirExpired, IInv, TypeOK
      <4>2. r.expire \in Nat /\ now \in Nat
        BY <1>1, <4>1 DEF IInv, TypeOK, Theirs
      <4>3. b.expire = r.expire
        BY <3>2
      <4> QED
        BY <4>1, <4>2, <4>3 DEF Expired
    <3> QED
      BY <2>1, <3>1, <3>2 DEF Encrypt, ForwardEncrypted
  <2>2. ASSUME ~ \E u, v \in Users : Encrypt(u, v) PROVE UNCHANGED blocks
    BY <1>1, <2>2 DEF Next, vars, StartImport, Read, Add, CleanKeys, Crash, Tick
  <2> QED
    BY <2>1, <2>2
<1> QED
  BY <1>1, AlwaysIInv, PTL DEF Spec, BornFresh
=============================================================================
