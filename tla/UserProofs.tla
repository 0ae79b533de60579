----------------------------- MODULE UserProofs -----------------------------
(***************************************************************************)
(* Users and their sessions, for any number of processes, names, ids,      *)
(* tokens and failures, with and without a shared store: no name is        *)
(* registered twice, and what was refused stays refused.                   *)
(*                                                                         *)
(* Neither is inductive.  UserInv says what a registration or disabling    *)
(* under way has written so far, what the processes know of a user, and    *)
(* where a disabled user or an ended session can still be found.           *)
(* NamesInv adds that a name is taken, in the shared store or in the one   *)
(* process, once it is registered or claimed, and is claimed once only.    *)
(***************************************************************************)
EXTENDS UserService, TLAPS

-----------------------------------------------------------------------------
(* The user service.                                                       *)

Record == [name : Names, enabled : BOOLEAN]
UserOrNone == Record \cup {NoUser}
IdOrNone == 0..MaxIds
Registering == [pc : {"claim", "user", "name", "record", "disk", "dropName", "dropBoth", "dropUser"},
                kind : {"register"}, id : Ids, user : Record]
Disabling == [pc : {"name", "record", "disk"}, kind : {"disable"}, id : Ids, user : Record,
              previous : BOOLEAN]
StoreType == [names : [Names -> IdOrNone], users : [Ids -> UserOrNone],
              sessions : [Tokens -> IdOrNone]]

\* What is assumed of the constants.
Configured == Solo \in Procs /\ 0 \notin Names /\ MaxIds \in Nat

UserTypes ==
  /\ Configured /\ shared \in BOOLEAN /\ store \in StoreType
  /\ memory \in [Procs -> [Ids -> UserOrNone]] /\ disk \in [Procs -> [Ids -> UserOrNone]]
  /\ byName \in [Procs -> [Names -> IdOrNone]]
  /\ sessions \in [Procs -> [Tokens -> IdOrNone]] /\ nextId \in [Procs -> Nat]
  /\ call \in [Procs -> {Idle} \cup Registering \cup Disabling]
  /\ registered \subseteq Names \X Ids /\ disabled \subseteq Procs \X Ids
  /\ ended \subseteq Tokens

\* An id that a process has drawn.
Drawn(i) == \E q \in Procs : nextId[q] > i

\* What a call in progress relies on.
CallInv(p) ==
  /\ call[p] # Idle => Serving(p)
  /\ call[p] # Idle /\ shared => Drawn(call[p].id)
  /\ call[p] \in Registering =>
       /\ memory[p][call[p].id] = NoUser
       /\ ~shared => nextId[p] = call[p].id + 1
  /\ call[p] \in Disabling =>
       /\ <<p, call[p].id>> \notin disabled /\ ~call[p].user.enabled
       /\ memory[p][call[p].id].name = call[p].user.name

\* A user that a process or the shared store knows has an id that was drawn.
KnownInv(p) ==
  \A i \in Ids :
    /\ memory[p][i] # NoUser => IF shared THEN Drawn(i) ELSE nextId[p] > i
    /\ shared /\ disk[p][i] # NoUser => Drawn(i)
StoreInv == shared => \A i \in Ids : store.users[i] # NoUser => Drawn(i)

\* A user that a process disabled is disabled in its memory and in its storage.
Off(u) == u # NoUser /\ ~u.enabled
DisabledInv(p) ==
  p \notin offline => \A i \in Ids : <<p, i>> \in disabled => Off(memory[p][i]) /\ Off(disk[p][i])

\* A token that was refused names no user.
SessionsInv ==
  /\ ~shared => \A p \in Procs \ {Solo}, t \in Tokens : sessions[p][t] = None
  /\ \A t \in ended : IF shared THEN store.sessions[t] = None
                               ELSE \A p \in Procs : sessions[p][t] = None

ProcInv(p) == CallInv(p) /\ KnownInv(p) /\ DisabledInv(p)
UserInv == UserTypes /\ StoreInv /\ SessionsInv /\ \A p \in Procs : ProcInv(p)

\* A set of ids has a highest one.
HasHighest == \A S \in SUBSET (0..MaxIds) : S # {} => \E x \in S : \A y \in S : x >= y

\* A step of one process leaves what the others rely on.
LEMMA OthersKeep ==
  ASSUME UserInv, NEW p \in Procs, UNCHANGED shared, offline \subseteq offline',
         \A q \in Procs : q # p => /\ call'[q] = call[q] /\ memory'[q] = memory[q]
                                   /\ disk'[q] = disk[q] /\ nextId'[q] = nextId[q]
                                   /\ q \in offline' => q \in offline
                                   /\ \A i \in Ids : <<q, i>> \in disabled' => <<q, i>> \in disabled,
         \A i \in Ids : shared /\ Drawn(i) => Drawn(i)',
         UserTypes', StoreInv', SessionsInv', ProcInv(p)'
  PROVE  UserInv'
<1> SUFFICES ASSUME NEW q \in Procs, q # p PROVE ProcInv(q)'
  BY Zenon DEF UserInv
<1>1. ProcInv(q) /\ UserTypes
  BY Zenon DEF UserInv
<1>2. call[q] # Idle => call[q].id \in Ids
  BY <1>1, Zenon DEF UserTypes, Registering, Disabling
<1>3. CallInv(q)'
  <2>1. Serving(q) => Serving(q)'
    BY Zenon DEF Serving
  <2>2. CallInv(q) /\ UserTypes
    BY <1>1, Zenon DEF ProcInv
  <2>3. call[q] # Idle /\ shared => Drawn(call[q].id)'
    BY <1>2, <2>2, Zenon DEF CallInv
  <2>4. call'[q] # Idle /\ shared' => \E r \in Procs : nextId'[r] > call'[q].id
    BY <2>3, Zenon DEF Drawn
  <2>5. call'[q] # Idle => Serving(q)'
    BY <2>1, <2>2, Zenon DEF CallInv
  <2>6. call'[q] \in Registering =>
          /\ memory'[q][call'[q].id] = NoUser
          /\ ~shared' => nextId'[q] = call'[q].id + 1
    BY <2>2, Zenon DEF CallInv
  <2>7. call'[q] \in Disabling =>
          /\ <<q, call'[q].id>> \notin disabled' /\ ~call'[q].user.enabled
          /\ memory'[q][call'[q].id].name = call'[q].user.name
    <3>1. call[q] \in Disabling => call[q] # Idle
      BY DEF Disabling, Idle
    <3> QED
      BY <1>2, <2>2, <3>1, Zenon DEF CallInv
  <2> QED
    BY <2>4, <2>5, <2>6, <2>7, Zenon DEF CallInv, Drawn
<1>4. KnownInv(q)'
  BY <1>1, Zenon DEF ProcInv, KnownInv
<1>5. DisabledInv(q)'
  BY <1>1, Zenon DEF ProcInv, DisabledInv
<1> QED
  BY <1>3, <1>4, <1>5, Zenon DEF ProcInv

\* The kinds of calls.
LEMMA CallKinds ==
  ASSUME UserTypes, NEW p \in Procs, call[p].pc # "idle"
  PROVE  /\ call[p] # Idle /\ call[p].id \in Ids /\ call[p].user \in Record
         /\ call[p].user.name \in Names
         /\ call[p].kind = "register" => call[p] \in Registering /\ call[p] \notin Disabling
         /\ call[p].kind = "disable" => call[p] \in Disabling /\ call[p] \notin Registering
         /\ call[p].kind \in {"register", "disable"}
         /\ call[p].pc \in {"claim", "user", "dropName", "dropBoth", "dropUser"} => call[p].kind = "register"
  BY DEF UserTypes, Registering, Disabling, Idle, Record

\* A call goes on, or ends.
LEMMA CallMoved ==
  ASSUME UserTypes, NEW p \in Procs, NEW pc, CallTo(p, pc), call[p].pc # "idle",
         \/ pc \in {"idle", "name", "record", "disk"}
         \/ call[p].kind = "register" /\ pc \in {"user", "dropName", "dropBoth", "dropUser"}
  PROVE  /\ call' \in [Procs -> {Idle} \cup Registering \cup Disabling]
         /\ \A q \in Procs : q # p => call'[q] = call[q]
         /\ pc = "idle" => call'[p] = Idle
         /\ pc # "idle" => /\ call'[p] # Idle /\ call'[p].pc = pc /\ call'[p].kind = call[p].kind
                           /\ call'[p].id = call[p].id /\ call'[p].user = call[p].user
                           /\ call'[p] \in Registering => call[p] \in Registering
                           /\ call'[p] \in Disabling => call[p] \in Disabling
<1>1. \A q \in Procs : q # p => call'[q] = call[q]
  BY Zenon DEF CallTo, UserTypes
<1>2. CASE pc = "idle"
  <2>1. call' = [call EXCEPT ![p] = Idle]
    BY <1>2, Zenon DEF CallTo
  <2> QED
    BY <1>1, <1>2, <2>1, Zenon DEF UserTypes
<1>3. CASE pc # "idle"
  <2>1. PICK c \in Registering \cup Disabling : c = call[p]
    BY CallKinds, Zenon
  <2>2. PICK d : d = [c EXCEPT !.pc = pc]
    BY Zenon
  <2>3. call' = [call EXCEPT ![p] = d]
    BY <1>3, <2>1, <2>2, Zenon DEF CallTo
  <2>4. CASE c \in Registering
    <3>1. /\ d \in Registering /\ d \notin Disabling /\ d # Idle
          /\ d.pc = pc /\ d.kind = c.kind /\ d.id = c.id /\ d.user = c.user
      BY <1>3, <2>1, <2>2, <2>4, Zenon DEF Registering, Disabling, Idle
    <3> QED
      BY <1>1, <1>3, <2>1, <2>3, <2>4, <3>1, Zenon DEF UserTypes
  <2>5. CASE c \in Disabling
    <3>1. /\ d \in Disabling /\ d \notin Registering /\ d # Idle
          /\ d.pc = pc /\ d.kind = c.kind /\ d.id = c.id /\ d.user = c.user
      BY <1>3, <2>1, <2>2, <2>5, Zenon DEF Registering, Disabling, Idle
    <3> QED
      BY <1>1, <1>3, <2>1, <2>3, <2>5, <3>1, Zenon DEF UserTypes
  <2> QED
    BY <2>4, <2>5, Zenon
<1> QED
  BY <1>2, <1>3, Zenon

\* A step of a call that writes to the shared store, or fails to, and goes on.
LEMMA StoreStep ==
  ASSUME UserInv, NEW p \in Procs, call[p].pc # "idle", CallRest, UNCHANGED <<memory, disk, nextId>>,
         NEW pc, CallTo(p, pc),
         \/ pc \in {"idle", "name", "record", "disk"}
         \/ call[p].kind = "register" /\ pc \in {"user", "dropName", "dropBoth", "dropUser"},
         store' \in StoreType, store'.sessions = store.sessions,
         \A i \in Ids : store'.users[i] # NoUser => store.users[i] # NoUser \/ i = call[p].id
  PROVE  UserInv'
<1>1. UserTypes /\ ProcInv(p) /\ StoreInv /\ SessionsInv
  BY Zenon DEF UserInv
<1>2. UNCHANGED <<shared, byName, sessions, registered, disabled, ended, offline>>
  BY Zenon DEF CallRest
<1>3. /\ call' \in [Procs -> {Idle} \cup Registering \cup Disabling]
      /\ \A q \in Procs : q # p => call'[q] = call[q]
      /\ pc = "idle" => call'[p] = Idle
      /\ pc # "idle" => /\ call'[p].id = call[p].id /\ call'[p].user = call[p].user
                        /\ call'[p] \in Registering => call[p] \in Registering
                        /\ call'[p] \in Disabling => call[p] \in Disabling
  BY <1>1, CallMoved, Zenon
<1>4. UserTypes'
  BY <1>1, <1>2, <1>3, Zenon DEF UserTypes
<1>5. \A i : Drawn(i)' <=> Drawn(i)
  BY Zenon DEF Drawn
<1>6. call[p] # Idle /\ (shared => Drawn(call[p].id))
  BY <1>1, CallKinds, Zenon DEF ProcInv, CallInv
<1>7. StoreInv'
  BY <1>1, <1>2, <1>5, <1>6, Zenon DEF StoreInv
<1>8. SessionsInv'
  BY <1>1, <1>2, Zenon DEF SessionsInv
<1>9. KnownInv(p)' /\ DisabledInv(p)'
  BY <1>1, <1>2, <1>5, Zenon DEF ProcInv, KnownInv, DisabledInv
<1>10. CallInv(p)'
  <2>1. CASE pc = "idle"
    <3>1. Idle \notin Registering /\ Idle \notin Disabling
      BY Zenon DEF Idle, Registering, Disabling
    <3> QED
      BY <1>3, <2>1, <3>1, Zenon DEF CallInv
  <2>2. CASE pc # "idle"
    BY <1>1, <1>2, <1>3, <1>5, <1>6, <2>2, Zenon DEF ProcInv, CallInv, Serving
  <2> QED
    BY <2>1, <2>2, Zenon
<1>11. ProcInv(p)'
  BY <1>9, <1>10, Zenon DEF ProcInv
<1> QED
  BY <1>2, <1>3, <1>4, <1>5, <1>7, <1>8, <1>11, OthersKeep, Zenon

\* What a write of the shared store may leave.
LEMMA StoreWrites ==
  ASSUME UserTypes, NEW n \in Names, NEW i \in Ids, NEW u \in UserOrNone, NEW j \in IdOrNone,
         \/ store' = store \/ store' = [store EXCEPT !.names[n] = j]
         \/ store' = [store EXCEPT !.users[i] = u]
  PROVE  /\ store' \in StoreType /\ store'.sessions = store.sessions
         /\ \A k \in Ids : store'.users[k] # NoUser => store.users[k] # NoUser \/ k = i
<1>1. store \in StoreType
  BY Zenon DEF UserTypes
<1>2. /\ [store EXCEPT !.names[n] = j] \in StoreType
      /\ [store EXCEPT !.names[n] = j].sessions = store.sessions
      /\ [store EXCEPT !.names[n] = j].users = store.users
  BY <1>1, Zenon DEF StoreType
<1>3. /\ [store EXCEPT !.users[i] = u] \in StoreType
      /\ [store EXCEPT !.users[i] = u].sessions = store.sessions
      /\ \A k \in Ids : [store EXCEPT !.users[i] = u].users[k] = IF k = i THEN u ELSE store.users[k]
  BY <1>1, Zenon DEF StoreType
<1> QED
  BY <1>1, <1>2, <1>3, Zenon

\* The steps of a call that change the shared store only.
LEMMA StoreSteps ==
  ASSUME UserInv, NEW p \in Procs,
         \/ claim(p) \/ setUser(p) \/ dropName(p) \/ dropUser(p)
         \/ (persistName(p) \/ persistRecord(p)) /\ UNCHANGED <<memory, nextId>>
                                                 /\ (CallTo(p, "record") \/ CallTo(p, "disk"))
  PROVE  UserInv'
<1>1. UserTypes
  BY Zenon DEF UserInv
<1>2. call[p].pc # "idle" /\ CallRest /\ UNCHANGED <<memory, disk, nextId>>
  BY Zenon DEF claim, setUser, dropName, dropUser, persistName, persistRecord
<1>3. PICK n \in Names, i \in Ids, u \in Record :
        n = call[p].user.name /\ i = call[p].id /\ u = call[p].user
  BY <1>1, <1>2, CallKinds, Zenon
<1>4. i \in IdOrNone /\ None \in IdOrNone /\ u \in UserOrNone /\ NoUser \in UserOrNone
  BY <1>1 DEF UserTypes, Configured, UserOrNone, IdOrNone, Ids, None
<1>5. call[p].pc \in {"claim", "user", "dropName", "dropBoth", "dropUser"} => call[p].kind = "register"
  BY <1>1, <1>2, CallKinds, Zenon
<1>6. \/ store' = store \/ store' = [store EXCEPT !.names[n] = i]
      \/ store' = [store EXCEPT !.users[i] = u]
      \/ store' = [store EXCEPT !.names[n] = None] \/ store' = [store EXCEPT !.users[i] = NoUser]
  BY <1>3, Zenon DEF claim, setUser, dropName, dropUser, persistName, persistRecord, Wrote, WriteLost
<1>7. /\ store' \in StoreType /\ store'.sessions = store.sessions
      /\ \A k \in Ids : store'.users[k] # NoUser => store.users[k] # NoUser \/ k = i
  BY <1>1, <1>4, <1>6, StoreWrites, Zenon
<1>8. \E pc : /\ CallTo(p, pc)
              /\ \/ pc \in {"idle", "name", "record", "disk"}
                 \/ call[p].kind = "register" /\ pc \in {"user", "dropName", "dropBoth", "dropUser"}
  <2>1. CASE claim(p)
    BY <1>5, <2>1, Zenon DEF claim
  <2>2. CASE setUser(p)
    BY <1>5, <2>2, Zenon DEF setUser
  <2>3. CASE dropName(p) \/ dropUser(p)
    BY <1>5, <2>3, Zenon DEF dropName, dropUser
  <2>4. CASE CallTo(p, "record") \/ CallTo(p, "disk")
    BY <2>4, Zenon
  <2> QED
    BY <2>1, <2>2, <2>3, <2>4, Zenon
<1>9. PICK pc : /\ CallTo(p, pc)
                /\ \/ pc \in {"idle", "name", "record", "disk"}
                   \/ call[p].kind = "register" /\ pc \in {"user", "dropName", "dropBoth", "dropUser"}
  BY <1>8, Zenon
<1> QED
  BY <1>2, <1>3, <1>7, <1>9, StoreStep, Zenon

\* A call that writes a user: the process serves, the user is in no way disabled yet,
\* and the id was drawn.
LEMMA CallFacts ==
  ASSUME UserInv, NEW p \in Procs, call[p].pc # "idle"
  PROVE  /\ Serving(p) /\ p \notin offline /\ <<p, call[p].id>> \notin disabled
         /\ shared => Drawn(call[p].id)
         /\ NoUser \notin Record /\ Idle \notin Registering /\ Idle \notin Disabling
         /\ call[p].kind = "register" => /\ memory[p][call[p].id] = NoUser
                                         /\ (~shared => nextId[p] = call[p].id + 1)
         /\ call[p].kind = "disable" => /\ memory[p][call[p].id] \in Record
                                        /\ memory[p][call[p].id].name = call[p].user.name
                                        /\ ~call[p].user.enabled /\ call[p].previous \in BOOLEAN
<1>1. UserTypes /\ CallInv(p) /\ DisabledInv(p)
  BY Zenon DEF UserInv, ProcInv
<1>2. /\ call[p] # Idle /\ call[p].id \in Ids /\ call[p].user.name \in Names
      /\ call[p].kind = "register" => call[p] \in Registering
      /\ call[p].kind = "disable" => call[p] \in Disabling
      /\ call[p].kind \in {"register", "disable"}
  BY <1>1, CallKinds, Zenon
<1>3. Serving(p) /\ p \notin offline
  BY <1>1, <1>2, Zenon DEF CallInv, Serving
<1>4. /\ NoUser \notin Record /\ Idle \notin Registering /\ Idle \notin Disabling
      /\ NoUser.name \notin Names
  BY <1>1, Zenon DEF UserTypes, Configured, NoUser, User, None, Record, Idle, Registering, Disabling
<1>5. <<p, call[p].id>> \notin disabled
  BY <1>1, <1>2, <1>3, <1>4, Zenon DEF CallInv, DisabledInv, Off
<1>6. call[p].kind = "disable" => call[p].previous \in BOOLEAN
  BY <1>2, Zenon DEF Disabling
<1>7. memory[p][call[p].id] \in UserOrNone
  BY <1>1, <1>2 DEF UserTypes
<1>8. call[p].kind = "disable" => memory[p][call[p].id] \in Record
  BY <1>1, <1>2, <1>4, <1>7, Zenon DEF CallInv, UserOrNone
<1> QED
  BY <1>1, <1>2, <1>3, <1>4, <1>5, <1>6, <1>8, Zenon DEF CallInv

\* persist fails: a registration is undone, a disabled user enabled again.
LEMMA FailedStep ==
  ASSUME UserInv, NEW p \in Procs, call[p].pc # "idle", PersistFailed(p),
         UNCHANGED <<shared, byName, sessions, registered, disabled, ended, offline>>,
         store' \in StoreType, store'.sessions = store.sessions,
         \A i \in Ids : store'.users[i] # NoUser => store.users[i] # NoUser \/ i = call[p].id,
         disk' = disk \/ disk' = [disk EXCEPT ![p][call[p].id] = call[p].user]
  PROVE  UserInv'
<1>1. UserTypes /\ KnownInv(p) /\ DisabledInv(p) /\ StoreInv /\ SessionsInv
  BY Zenon DEF UserInv, ProcInv
<1>2. PICK i \in Ids, u \in Record : i = call[p].id /\ u = call[p].user
  BY <1>1, CallKinds, Zenon
<1>3. /\ Serving(p) /\ p \notin offline /\ <<p, i>> \notin disabled /\ (shared => Drawn(i))
      /\ NoUser \notin Record /\ Idle \notin Registering /\ Idle \notin Disabling
  BY <1>2, CallFacts, Zenon
<1>4. /\ disk' \in [Procs -> [Ids -> UserOrNone]]
      /\ \A q \in Procs : q # p => disk'[q] = disk[q]
      /\ \A j \in Ids : j # i => disk'[p][j] = disk[p][j]
  <2>1. disk' = disk \/ disk' = [disk EXCEPT ![p][i] = u]
    BY <1>2, Zenon
  <2>2. disk \in [Procs -> [Ids -> UserOrNone]] /\ u \in UserOrNone
    BY <1>1, Zenon DEF UserTypes, UserOrNone
  <2> QED
    BY <2>1, <2>2
<1>5. /\ memory' \in [Procs -> [Ids -> UserOrNone]]
      /\ \A q \in Procs : q # p => memory'[q] = memory[q]
      /\ \A j \in Ids : j # i => memory'[p][j] = memory[p][j]
      /\ memory'[p][i] # NoUser => memory[p][i] # NoUser
      /\ call[p].kind = "register" => memory' = memory
  <2>1. CASE call[p].kind = "disable"
    <3>1. PICK b \in BOOLEAN, m \in Record : b = call[p].previous /\ m = memory[p][i]
      BY <1>2, <2>1, CallFacts, Zenon
    <3>2. memory' = [memory EXCEPT ![p][i].enabled = b]
      BY <1>2, <2>1, <3>1, Zenon DEF PersistFailed
    <3>3. [m EXCEPT !.enabled = b] \in Record
      BY Zenon DEF Record
    <3>4. memory' = [memory EXCEPT ![p] = [memory[p] EXCEPT ![i] = [m EXCEPT !.enabled = b]]]
      BY <1>1, <3>1, <3>2, Zenon DEF UserTypes
    <3> QED
      BY <1>1, <1>3, <2>1, <3>1, <3>3, <3>4 DEF UserTypes, UserOrNone
  <2>2. CASE call[p].kind # "disable"
    BY <1>1, <2>2, Zenon DEF PersistFailed, UserTypes
  <2> QED
    BY <2>1, <2>2, Zenon
<1>6. /\ nextId' \in [Procs -> Nat] /\ \A q \in Procs : q # p => nextId'[q] = nextId[q]
      /\ shared \/ call[p].kind # "register" => nextId' = nextId
      /\ ~shared /\ call[p].kind = "register" => nextId'[p] = i /\ nextId[p] = i + 1
  <2>1. CASE shared \/ call[p].kind # "register"
    BY <1>1, <2>1, Zenon DEF PersistFailed, UserTypes
  <2>2. CASE ~shared /\ call[p].kind = "register"
    <3>1. nextId[p] = i + 1
      BY <1>2, <2>2, CallFacts, Zenon
    <3>2. nextId' = [nextId EXCEPT ![p] = nextId[p] - 1]
      BY <2>2, Zenon DEF PersistFailed
    <3>3. i \in Nat
      BY <1>1 DEF UserTypes, Configured, Ids
    <3> QED
      BY <1>1, <2>2, <3>1, <3>2, <3>3 DEF UserTypes
  <2> QED
    BY <2>1, <2>2, Zenon
<1>7. /\ call' \in [Procs -> {Idle} \cup Registering \cup Disabling]
      /\ \A q \in Procs : q # p => call'[q] = call[q]
      /\ \/ call'[p] = Idle
         \/ /\ shared /\ call[p].kind = "register" /\ call'[p].id = i /\ call'[p] \notin Disabling
  <2>1. CASE call[p].kind = "register" /\ shared
    <3>1. CallTo(p, "dropBoth")
      BY <2>1, Zenon DEF PersistFailed
    <3>2. call[p] \notin Disabling
      BY <1>1, <2>1, CallKinds, Zenon
    <3> QED
      BY <1>1, <1>2, <2>1, <3>1, <3>2, CallMoved, Zenon
  <2>2. CASE ~(call[p].kind = "register" /\ shared)
    <3>1. CallTo(p, "idle")
      BY <2>2, Zenon DEF PersistFailed
    <3> QED
      BY <1>1, <3>1, CallMoved, Zenon
  <2> QED
    BY <2>1, <2>2, Zenon
<1>8. UserTypes'
  BY <1>1, <1>4, <1>5, <1>6, <1>7, Zenon DEF UserTypes
<1>9. \A j : shared => (Drawn(j)' <=> Drawn(j))
  BY <1>6, Zenon DEF Drawn
<1>10. StoreInv' /\ SessionsInv'
  BY <1>1, <1>2, <1>3, <1>9, Zenon DEF StoreInv, SessionsInv
<1>11. CallInv(p)'
  <2>1. CASE call'[p] = Idle
    BY <1>3, <2>1, Zenon DEF CallInv
  <2>2. CASE call'[p] # Idle
    <3>1. shared /\ call[p].kind = "register" /\ call'[p].id = i /\ call'[p] \notin Disabling /\ Drawn(i)'
      BY <1>3, <1>7, <1>9, <2>2, Zenon
    <3>2. memory[p][i] = NoUser
      BY <1>2, <3>1, CallFacts, Zenon
    <3>3. call[p].kind # "disable" /\ memory' = memory
      BY <1>5, <3>1
    <3>4. memory'[p][i] = NoUser
      BY <3>2, <3>3, Zenon
    <3> QED
      BY <1>3, <3>1, <3>4, Zenon DEF CallInv, Serving, Drawn
  <2> QED
    BY <2>1, <2>2, Zenon
<1>12. KnownInv(p)'
  <2>1. CASE shared
    BY <1>1, <1>3, <1>4, <1>5, <1>9, <2>1, Zenon DEF KnownInv
  <2>2. CASE ~shared /\ call[p].kind = "register"
    <3>1. memory' = memory /\ memory[p][i] = NoUser
      BY <1>2, <1>5, <2>2, CallFacts, Zenon
    <3>2. \A j \in Ids : memory[p][j] # NoUser => j # i /\ i + 1 > j
      BY <1>1, <1>6, <2>2, <3>1, Zenon DEF KnownInv
    <3>3. \A j \in Ids : j # i /\ i + 1 > j => i > j
      BY <1>1 DEF UserTypes, Configured, Ids
    <3> QED
      BY <1>6, <2>2, <3>1, <3>2, <3>3, Zenon DEF KnownInv
  <2>3. CASE ~shared /\ call[p].kind # "register"
    BY <1>1, <1>5, <1>6, <2>3, Zenon DEF KnownInv
  <2> QED
    BY <2>1, <2>2, <2>3, Zenon
<1>13. DisabledInv(p)'
  BY <1>1, <1>3, <1>4, <1>5, Zenon DEF DisabledInv
<1>14. ProcInv(p)'
  BY <1>11, <1>12, <1>13, Zenon DEF ProcInv
<1> QED
  BY <1>4, <1>5, <1>6, <1>7, <1>8, <1>9, <1>10, <1>14, OthersKeep, Zenon

\* persist succeeds: the user is in memory and in storage, registered or disabled.
LEMMA DoneStep ==
  ASSUME UserInv, NEW p \in Procs, call[p].pc = "disk", CallTo(p, "idle"),
         UNCHANGED <<shared, store, ended, offline, nextId>>,
         NEW i \in Ids, NEW u \in Record, NEW n \in Names,
         i = call[p].id /\ u = call[p].user /\ n = call[p].user.name,
         disk' = [disk EXCEPT ![p][i] = u], memory' = [memory EXCEPT ![p][i] = u],
         byName' \in [Procs -> [Names -> IdOrNone]],
         registered' = registered \/ registered' = registered \cup {<<n, i>>},
         disabled' = disabled \/ (call[p].kind = "disable" /\ disabled' = disabled \cup {<<p, i>>}),
         sessions' \in [Procs -> [Tokens -> IdOrNone]],
         \A q \in Procs, t \in Tokens : sessions[q][t] = None => sessions'[q][t] = None
  PROVE  UserInv'
<1>1. UserTypes /\ KnownInv(p) /\ DisabledInv(p) /\ StoreInv /\ SessionsInv
  BY Zenon DEF UserInv, ProcInv
<1>0. call[p].pc # "idle"
  BY Zenon
<1>3. /\ Serving(p) /\ p \notin offline /\ <<p, i>> \notin disabled /\ (shared => Drawn(i))
      /\ NoUser \notin Record /\ Idle \notin Registering /\ Idle \notin Disabling
      /\ call[p].kind = "disable" => ~u.enabled /\ memory[p][i] \in Record
      /\ call[p].kind = "register" => (~shared => nextId[p] = i + 1)
  BY <1>0, CallFacts, Zenon
<1>4. /\ disk' \in [Procs -> [Ids -> UserOrNone]]
      /\ \A q \in Procs : q # p => disk'[q] = disk[q]
      /\ disk'[p][i] = u /\ \A j \in Ids : j # i => disk'[p][j] = disk[p][j]
  <2>1. disk \in [Procs -> [Ids -> UserOrNone]] /\ u \in UserOrNone
    BY <1>1, Zenon DEF UserTypes, UserOrNone
  <2> QED
    BY <2>1, Zenon
<1>5. /\ memory' \in [Procs -> [Ids -> UserOrNone]]
      /\ \A q \in Procs : q # p => memory'[q] = memory[q]
      /\ memory'[p][i] = u /\ \A j \in Ids : j # i => memory'[p][j] = memory[p][j]
  <2>1. memory \in [Procs -> [Ids -> UserOrNone]] /\ u \in UserOrNone
    BY <1>1, Zenon DEF UserTypes, UserOrNone
  <2> QED
    BY <2>1, Zenon
<1>6. registered' \subseteq Names \X Ids
  BY <1>1 DEF UserTypes
<1>7. /\ call' \in [Procs -> {Idle} \cup Registering \cup Disabling]
      /\ \A q \in Procs : q # p => call'[q] = call[q]
      /\ call'[p] = Idle
  BY <1>0, <1>1, CallMoved, Zenon
<1>8. UserTypes'
  BY <1>1, <1>4, <1>5, <1>6, <1>7 DEF UserTypes
<1>9. \A j : Drawn(j)' <=> Drawn(j)
  BY Zenon DEF Drawn
<1>10. StoreInv' /\ SessionsInv'
  <2>1. SessionsInv'
    BY <1>1, Zenon DEF SessionsInv, UserTypes
  <2> QED
    BY <1>1, <1>9, <2>1, Zenon DEF StoreInv
<1>11. CallInv(p)'
  BY <1>3, <1>7, Zenon DEF CallInv
<1>12. KnownInv(p)'
  <2>1. CASE shared
    BY <1>1, <1>3, <1>4, <1>5, <1>9, <2>1 DEF KnownInv
  <2>2. CASE ~shared
    <3>1. nextId[p] > i
      <4>1. CASE call[p].kind = "register"
        BY <1>1, <1>3, <2>2, <4>1 DEF Ids, UserTypes, Configured
      <4>2. CASE call[p].kind = "disable"
        BY <1>1, <1>3, <2>2, <4>2, Zenon DEF KnownInv
      <4> QED
        BY <1>0, <1>1, <4>1, <4>2, CallKinds, Zenon
    <3> QED
      BY <1>1, <1>5, <2>2, <3>1 DEF KnownInv
  <2> QED
    BY <2>1, <2>2, Zenon
<1>13. DisabledInv(p)'
  <2>1. <<p, i>> \in disabled' => ~u.enabled
    BY <1>3, Zenon
  <2>2. \A j \in Ids : j # i /\ <<p, j>> \in disabled' => <<p, j>> \in disabled
    OBVIOUS
  <2>3. <<p, i>> \in disabled' => Off(memory'[p][i]) /\ Off(disk'[p][i])
    BY <1>3, <1>4, <1>5, <2>1 DEF Off
  <2> QED
    BY <1>1, <1>3, <1>4, <1>5, <2>2, <2>3, Zenon DEF DisabledInv
<1>14. ProcInv(p)'
  BY <1>11, <1>12, <1>13, Zenon DEF ProcInv
<1>15. \A q \in Procs : q # p => \A j \in Ids : <<q, j>> \in disabled' => <<q, j>> \in disabled
  OBVIOUS
<1> QED
  BY <1>4, <1>5, <1>7, <1>8, <1>9, <1>10, <1>14, <1>15, OthersKeep, Zenon

\* persist: what its steps leave.
LEMMA PersistSteps ==
  ASSUME UserInv, NEW p \in Procs, persistName(p) \/ persistRecord(p) \/ persistDisk(p)
  PROVE  UserInv'
<1>1. UserTypes
  BY Zenon DEF UserInv
<1>2. call[p].pc # "idle"
  BY Zenon DEF persistName, persistRecord, persistDisk
<1>3. PICK n \in Names, i \in Ids, u \in Record :
        n = call[p].user.name /\ i = call[p].id /\ u = call[p].user
  BY <1>1, <1>2, CallKinds, Zenon
<1>4. i \in IdOrNone /\ None \in IdOrNone /\ u \in UserOrNone
  BY <1>1 DEF UserTypes, Configured, UserOrNone, IdOrNone, Ids, None
<1>5. CASE (persistName(p) \/ persistRecord(p)) /\ PersistFailed(p)
  <2>1. \/ store' = store \/ store' = [store EXCEPT !.names[n] = i]
        \/ store' = [store EXCEPT !.users[i] = u]
    BY <1>3, <1>5, Zenon DEF persistName, persistRecord, Wrote, WriteLost
  <2>2. /\ store' \in StoreType /\ store'.sessions = store.sessions
        /\ \A k \in Ids : store'.users[k] # NoUser => store.users[k] # NoUser \/ k = i
    BY <1>1, <1>4, <2>1, StoreWrites, Zenon
  <2>3. UNCHANGED <<shared, byName, sessions, registered, disabled, ended, offline, disk>>
    BY <1>5, Zenon DEF persistName, persistRecord, CallRest
  <2> QED
    BY <1>2, <1>3, <1>5, <2>2, <2>3, FailedStep, Zenon
<1>6. CASE (persistName(p) \/ persistRecord(p)) /\ ~PersistFailed(p)
  <2>1. UNCHANGED <<memory, nextId>> /\ (CallTo(p, "record") \/ CallTo(p, "disk"))
    BY <1>6, Zenon DEF persistName, persistRecord
  <2> QED
    BY <1>6, <2>1, StoreSteps, Zenon
<1>7. Stored(call[p].user) = u
  BY <1>3, Zenon DEF Stored, User, Record
<1>8. CASE persistDisk(p) /\ PersistFailed(p) /\ UNCHANGED <<byName, registered, disabled, sessions>>
  <2>1. UNCHANGED <<shared, store, ended, offline>>
        /\ (disk' = disk \/ disk' = [disk EXCEPT ![p][i] = u])
    BY <1>3, <1>7, <1>8, Zenon DEF persistDisk
  <2>2. store' \in StoreType
    BY <1>1, <2>1, Zenon DEF UserTypes
  <2> QED
    BY <1>2, <1>3, <1>8, <2>1, <2>2, FailedStep, Zenon
<1>9. CASE persistDisk(p) /\ CallTo(p, "idle") /\ disk' = [disk EXCEPT ![p][i] = u]
           /\ memory' = [memory EXCEPT ![p][i] = u] /\ UNCHANGED nextId
           /\ byName' = (IF call[p].kind = "register" THEN [byName EXCEPT ![p][n] = i] ELSE byName)
           /\ registered' = (IF call[p].kind = "register" THEN registered \cup {<<n, i>>} ELSE registered)
           /\ disabled' = (IF call[p].kind = "disable" THEN disabled \cup {<<p, i>>} ELSE disabled)
           /\ sessions' = (IF call[p].kind = "disable"
                THEN [sessions EXCEPT ![p] = [t \in Tokens |-> IF @[t] = i THEN None ELSE @[t]]]
                ELSE sessions)
  <2>1. call[p].pc = "disk" /\ UNCHANGED <<shared, store, ended, offline>>
    BY <1>9, Zenon DEF persistDisk
  <2>2. byName' \in [Procs -> [Names -> IdOrNone]]
    <3>1. byName \in [Procs -> [Names -> IdOrNone]]
      BY <1>1, Zenon DEF UserTypes
    <3>2. CASE byName' = [byName EXCEPT ![p][n] = i]
      BY <1>4, <3>1, <3>2, Zenon
    <3> QED
      BY <1>9, <3>1, <3>2, Zenon
  <2>3. /\ sessions' \in [Procs -> [Tokens -> IdOrNone]]
        /\ \A q \in Procs, t \in Tokens : sessions[q][t] = None => sessions'[q][t] = None
    <3>1. sessions \in [Procs -> [Tokens -> IdOrNone]]
      BY <1>1, Zenon DEF UserTypes
    <3>2. CASE sessions' = [sessions EXCEPT ![p] = [t \in Tokens |-> IF @[t] = i THEN None ELSE @[t]]]
      BY <1>4, <3>1, <3>2, Zenon
    <3> QED
      BY <1>9, <3>1, <3>2, Zenon
  <2>4. registered' = registered \/ registered' = registered \cup {<<n, i>>}
    BY <1>9, Zenon
  <2>5. disabled' = disabled \/ (call[p].kind = "disable" /\ disabled' = disabled \cup {<<p, i>>})
    BY <1>9, Zenon
  <2> QED
    BY <1>3, <1>9, <2>1, <2>2, <2>3, <2>4, <2>5, DoneStep, Zenon
<1>10. CASE persistDisk(p)
  BY <1>3, <1>7, <1>8, <1>9, <1>10, Zenon DEF persistDisk
<1> QED
  BY <1>5, <1>6, <1>10, Zenon

\* The highest of a set of ids.
LEMMA MaxFacts ==
  ASSUME HasHighest, NEW S \in SUBSET (0..MaxIds), S # {}
  PROVE  Highest(S) \in S /\ \A y \in S : Highest(S) >= y
<1>1. \E x \in S : \A y \in S : x >= y
  BY Zenon DEF HasHighest
<1> QED
  BY <1>1, Zenon DEF Highest

\* The id of a registration is higher than any that is in use.
LEMMA NewIdFacts ==
  ASSUME UserInv, HasHighest, NEW p \in Procs, NewId(p) \in Ids
  PROVE  /\ memory[p][NewId(p)] = NoUser
         /\ shared => \A i \in Ids : Drawn(i) => NewId(p) > i
         /\ ~shared => NewId(p) = nextId[p]
<1>1. UserTypes /\ KnownInv(p)
  BY Zenon DEF UserInv, ProcInv
<1>2. ASSUME shared PROVE \A i \in Ids : Drawn(i) => NewId(p) > i
  <2>1. PICK S : S = {0} \cup {i \in Ids : \E q \in Procs : nextId[q] > i}
    BY Zenon
  <2>2. S \in SUBSET (0..MaxIds) /\ S # {} /\ \A i \in Ids : Drawn(i) => i \in S
    BY <1>1, <2>1 DEF UserTypes, Configured, Ids, Drawn
  <2>3. Highest(S) \in S /\ \A y \in S : Highest(S) >= y
    BY <2>2, MaxFacts, Zenon
  <2>4. NewId(p) = 1 + Highest(S)
    BY <1>2, <2>1, Zenon DEF NewId
  <2>5. PICK m \in 0..MaxIds : m = Highest(S)
    BY <2>2, <2>3, Zenon
  <2>6. NewId(p) = 1 + m /\ \A i \in Ids : Drawn(i) => m >= i
    BY <2>2, <2>3, <2>4, <2>5, Zenon
  <2> QED
    BY <1>1, <2>6 DEF UserTypes, Configured, Ids
<1>3. ~shared => NewId(p) = nextId[p]
  BY Zenon DEF NewId
<1>4. memory[p][NewId(p)] = NoUser
  <2>1. \A k \in Ids : ~(k > k)
    BY <1>1 DEF Ids, UserTypes, Configured
  <2> QED
    BY <1>1, <1>2, <1>3, <2>1, Zenon DEF KnownInv
<1> QED
  BY <1>2, <1>3, <1>4, Zenon

\* registerUser begins with an id that nobody has.
LEMMA RegisterStep ==
  ASSUME UserInv, HasHighest, NEW p \in Procs, NEW n \in Names, registerUser(p, n)
  PROVE  UserInv'
<1>1. UserTypes /\ KnownInv(p) /\ DisabledInv(p) /\ StoreInv /\ SessionsInv
  BY Zenon DEF UserInv, ProcInv
<1>2. /\ Serving(p) /\ NewId(p) \in Ids /\ UNCHANGED <<store, memory, disk>> /\ CallRest
  BY Zenon DEF registerUser
<1>3. UNCHANGED <<shared, byName, sessions, registered, disabled, ended, offline>>
  BY <1>2, Zenon DEF CallRest
<1>4. PICK i \in Ids : i = NewId(p)
  BY <1>2, Zenon
<1>5. /\ memory[p][i] = NoUser /\ (~shared => i = nextId[p])
      /\ shared => \A j \in Ids : Drawn(j) => i > j
  BY <1>4, NewIdFacts, Zenon
<1>6. PICK c : c = [pc |-> IF shared THEN "claim" ELSE "disk", kind |-> "register", id |-> i,
                    user |-> User(n, TRUE)]
  BY Zenon
<1>7. c \in Registering /\ c \notin Disabling /\ c.id = i
  BY <1>6, Zenon DEF Registering, Disabling, Record, User
<1>8. call' = [call EXCEPT ![p] = c] /\ nextId' = [nextId EXCEPT ![p] = i + 1]
  BY <1>4, <1>6, Zenon DEF registerUser
<1>9. i \in Nat /\ i + 1 \in Nat /\ \A j \in Ids : (i > j => i + 1 > j) /\ j \in Nat
  BY <1>1 DEF UserTypes, Configured, Ids
<1>10. /\ call' \in [Procs -> {Idle} \cup Registering \cup Disabling] /\ call'[p] = c
       /\ \A q \in Procs : q # p => call'[q] = call[q]
  BY <1>1, <1>7, <1>8, Zenon DEF UserTypes
<1>11. /\ nextId' \in [Procs -> Nat] /\ nextId'[p] = i + 1
       /\ \A q \in Procs : q # p => nextId'[q] = nextId[q]
  BY <1>1, <1>8, <1>9, Zenon DEF UserTypes
<1>12. UserTypes'
  BY <1>1, <1>2, <1>3, <1>10, <1>11, Zenon DEF UserTypes
<1>13. \A j \in Ids : shared /\ Drawn(j) => Drawn(j)'
  <2> SUFFICES ASSUME NEW j \in Ids, shared, Drawn(j) PROVE nextId'[p] > j
    BY Zenon DEF Drawn
  <2> QED
    BY <1>5, <1>9, <1>11, Zenon
<1>14. Drawn(i)'
  BY <1>9, <1>11 DEF Drawn
<1>15. StoreInv' /\ SessionsInv'
  BY <1>1, <1>2, <1>3, <1>13, Zenon DEF StoreInv, SessionsInv
<1>16. CallInv(p)'
  BY <1>2, <1>3, <1>5, <1>7, <1>10, <1>11, <1>14, Zenon DEF CallInv, Serving, Drawn
<1>17. KnownInv(p)'
  <2>1. CASE shared
    BY <1>1, <1>2, <1>3, <1>13, <2>1, Zenon DEF KnownInv
  <2>2. CASE ~shared
    BY <1>1, <1>2, <1>3, <1>5, <1>9, <1>11, <2>2, Zenon DEF KnownInv
  <2> QED
    BY <2>1, <2>2, Zenon
<1>18. DisabledInv(p)'
  BY <1>1, <1>2, <1>3, Zenon DEF DisabledInv
<1>19. ProcInv(p)'
  BY <1>16, <1>17, <1>18, Zenon DEF ProcInv
<1> QED
  BY <1>2, <1>3, <1>10, <1>11, <1>12, <1>13, <1>15, <1>19, OthersKeep, Zenon

\* disable begins with a user the process knows and has not disabled.
LEMMA DisableStep ==
  ASSUME UserInv, NEW p \in Procs, NEW i \in Ids, disable(p, i)
  PROVE  UserInv'
<1>1. UserTypes /\ KnownInv(p) /\ DisabledInv(p) /\ StoreInv /\ SessionsInv
  BY Zenon DEF UserInv, ProcInv
<1>2. /\ Serving(p) /\ memory[p][i] # NoUser /\ <<p, i>> \notin disabled
      /\ UNCHANGED <<shared, store, byName, disk, sessions, nextId, registered, disabled, ended, offline>>
  BY Zenon DEF disable
<1>3. PICK m \in Record : m = memory[p][i]
  BY <1>1, <1>2 DEF UserTypes, UserOrNone
<1>4. PICK u : u = [m EXCEPT !.enabled = FALSE]
  BY Zenon
<1>5. u \in Record /\ u.name = m.name /\ ~u.enabled /\ u \in UserOrNone
  BY <1>4, Zenon DEF Record, UserOrNone
<1>6. PICK c : c = [pc |-> IF shared THEN "name" ELSE "disk", kind |-> "disable", id |-> i,
                    user |-> User(m.name, FALSE), previous |-> m.enabled]
  BY Zenon
<1>7. /\ c \in Disabling /\ c \notin Registering /\ c # Idle /\ c.id = i
      /\ c.user.name = m.name /\ ~c.user.enabled
  BY <1>3, <1>6, Zenon DEF Registering, Disabling, Record, User, Idle
<1>8. call' = [call EXCEPT ![p] = c] /\ memory' = [memory EXCEPT ![p][i].enabled = FALSE]
  BY <1>3, <1>6, Zenon DEF disable
<1>9. /\ memory' \in [Procs -> [Ids -> UserOrNone]] /\ memory'[p][i] = u
      /\ \A q \in Procs : q # p => memory'[q] = memory[q]
      /\ \A j \in Ids : j # i => memory'[p][j] = memory[p][j]
  <2>1. memory \in [Procs -> [Ids -> UserOrNone]]
    BY <1>1, Zenon DEF UserTypes
  <2>2. memory' = [memory EXCEPT ![p] = [memory[p] EXCEPT ![i] = u]]
    BY <1>3, <1>4, <1>8, <2>1, Zenon
  <2> QED
    BY <1>5, <2>1, <2>2, Zenon
<1>10. /\ call' \in [Procs -> {Idle} \cup Registering \cup Disabling] /\ call'[p] = c
       /\ \A q \in Procs : q # p => call'[q] = call[q]
  BY <1>1, <1>7, <1>8, Zenon DEF UserTypes
<1>11. UserTypes'
  BY <1>1, <1>2, <1>9, <1>10, Zenon DEF UserTypes
<1>12. \A j : Drawn(j)' <=> Drawn(j)
  BY <1>2, Zenon DEF Drawn
<1>13. StoreInv' /\ SessionsInv'
  BY <1>1, <1>2, <1>12, Zenon DEF StoreInv, SessionsInv
<1>14. KnownInv(p)'
  BY <1>1, <1>2, <1>9, <1>12, Zenon DEF KnownInv
<1>15. CallInv(p)'
  <2>1. shared => Drawn(i)
    BY <1>1, <1>2, Zenon DEF KnownInv
  <2> QED
    BY <1>2, <1>5, <1>7, <1>9, <1>10, <2>1, Zenon DEF CallInv, Serving, Drawn
<1>16. DisabledInv(p)'
  BY <1>1, <1>2, <1>9, Zenon DEF DisabledInv
<1>17. ProcInv(p)'
  BY <1>14, <1>15, <1>16, Zenon DEF ProcInv
<1> QED
  BY <1>2, <1>9, <1>10, <1>11, <1>12, <1>13, <1>17, OthersKeep, Zenon

\* A step of a process that is in no call: it may learn a user of the shared store.
LEMMA SessionStep ==
  ASSUME UserInv, NEW p \in Procs, SessionRest, call[p] = Idle,
         UNCHANGED <<memory, byName>> \/ \E i \in Ids : Load(p, i),
         store' \in StoreType, store'.users = store.users,
         sessions' \in [Procs -> [Tokens -> IdOrNone]], ended' \subseteq Tokens, SessionsInv'
  PROVE  UserInv'
<1>1. UserTypes /\ ProcInv(p) /\ KnownInv(p) /\ DisabledInv(p) /\ StoreInv
  BY Zenon DEF UserInv, ProcInv
<1>2. UNCHANGED <<shared, disk, nextId, call, registered, disabled, offline>>
  BY Zenon DEF SessionRest
<1>3. /\ memory' \in [Procs -> [Ids -> UserOrNone]] /\ byName' \in [Procs -> [Names -> IdOrNone]]
      /\ \A q \in Procs : q # p => memory'[q] = memory[q]
      /\ \A j \in Ids : \/ memory'[p][j] = memory[p][j]
                        \/ shared /\ memory[p][j] = NoUser /\ store.users[j] # NoUser
  <2>1. /\ memory \in [Procs -> [Ids -> UserOrNone]] /\ byName \in [Procs -> [Names -> IdOrNone]]
        /\ \A i \in Ids : i \in IdOrNone /\ store.users[i] \in UserOrNone
        /\ \A u \in UserOrNone : u # NoUser => u.name \in Names
    BY <1>1 DEF UserTypes, StoreType, Configured, Ids, IdOrNone, UserOrNone, Record
  <2>2. CASE UNCHANGED <<memory, byName>>
    BY <2>1, <2>2, Zenon
  <2>3. ASSUME NEW i \in Ids, Load(p, i), Learns(p, i)
        PROVE  <1>3
    <3>1. PICK u \in UserOrNone, n \in Names : u = store.users[i] /\ u # NoUser /\ n = u.name
      BY <2>1, <2>3, Zenon DEF Learns
    <3>2. memory' = [memory EXCEPT ![p][i] = u] /\ byName' = [byName EXCEPT ![p][n] = i]
      BY <2>3, <3>1, Zenon DEF Load, Loaded
    <3>3. shared /\ memory[p][i] = NoUser /\ store.users[i] # NoUser
      BY <2>3, Zenon DEF Learns
    <3>4. byName' \in [Procs -> [Names -> IdOrNone]]
      BY <2>1, <3>2, Zenon
    <3>5. /\ memory' \in [Procs -> [Ids -> UserOrNone]]
          /\ \A q \in Procs : q # p => memory'[q] = memory[q]
          /\ \A j \in Ids : j # i => memory'[p][j] = memory[p][j]
      BY <2>1, <3>2, Zenon
    <3> QED
      BY <3>3, <3>4, <3>5, Zenon
  <2>4. ASSUME NEW i \in Ids, Load(p, i), ~Learns(p, i)
        PROVE  UNCHANGED <<memory, byName>>
    BY <2>4, Zenon DEF Load, Loaded
  <2> QED
    BY <2>2, <2>3, <2>4, Zenon
<1>4. UserTypes'
  BY <1>1, <1>2, <1>3, Zenon DEF UserTypes
<1>5. \A j : Drawn(j)' <=> Drawn(j)
  BY <1>2, Zenon DEF Drawn
<1>6. StoreInv'
  BY <1>1, <1>2, <1>5, Zenon DEF StoreInv
<1>7. CallInv(p)'
  BY <1>2, Zenon DEF CallInv, Idle, Registering, Disabling
<1>8. KnownInv(p)'
  BY <1>1, <1>2, <1>3, <1>5, Zenon DEF KnownInv, StoreInv
<1>9. DisabledInv(p)'
  BY <1>1, <1>2, <1>3, Zenon DEF DisabledInv, Off
<1>10. ProcInv(p)'
  BY <1>7, <1>8, <1>9, Zenon DEF ProcInv
<1> QED
  BY <1>2, <1>3, <1>4, <1>5, <1>6, <1>10, OthersKeep, Zenon

\* login, authenticate and logout.
LEMMA SessionSteps ==
  ASSUME UserInv, NEW p \in Procs, NEW t \in Tokens,
         (\E n \in Names : login(p, n, t)) \/ authenticate(p, t) \/ logout(p, t)
  PROVE  UserInv'
<1>1. UserTypes /\ SessionsInv /\ store \in StoreType /\ sessions \in [Procs -> [Tokens -> IdOrNone]]
  BY Zenon DEF UserInv, UserTypes
<1>2. SessionRest /\ call[p] = Idle /\ Serving(p)
  BY Zenon DEF login, authenticate, logout
<1>3. UNCHANGED shared /\ (~shared => p = Solo)
  BY <1>2, Zenon DEF SessionRest, Serving
<1>4. \A i \in IdOrNone : i # None => i \in Ids
  BY <1>1 DEF UserTypes, Configured, IdOrNone, Ids, None
<1>5. ASSUME NEW n \in Names, login(p, n, t) PROVE UserInv'
  <2>1. PICK i \in {IF byName[p][n] # None THEN byName[p][n] ELSE store.names[n]} \ {None} :
          /\ Load(p, i)
          /\ \/ store' = store \/ store' = [store EXCEPT !.sessions[t] = i]
          /\ \/ sessions' = sessions \/ sessions' = [sessions EXCEPT ![p][t] = i]
    BY <1>5, Zenon DEF login, Wrote, WriteLost
  <2>2. i \in Ids /\ i \in IdOrNone
    BY <1>1, <1>4, <2>1 DEF UserTypes, StoreType
  <2>3. t \notin ended /\ ended' = ended
    BY <1>5, Zenon DEF login, FreshToken
  <2>4. /\ store' \in StoreType /\ store'.users = store.users
        /\ \A s \in Tokens : s # t => store'.sessions[s] = store.sessions[s]
    BY <1>1, <2>1, <2>2 DEF StoreType
  <2>5. /\ sessions' \in [Procs -> [Tokens -> IdOrNone]]
        /\ \A q \in Procs, s \in Tokens : q # p \/ s # t => sessions'[q][s] = sessions[q][s]
    BY <1>1, <2>1, <2>2
  <2>6. ended \subseteq Tokens
    BY <1>1, Zenon DEF UserTypes
  <2>7. SessionsInv'
    BY <1>1, <1>3, <2>3, <2>4, <2>5, <2>6 DEF SessionsInv
  <2> QED
    BY <1>2, <2>1, <2>2, <2>3, <2>4, <2>5, <2>6, <2>7, SessionStep, Zenon
<1>6. CASE authenticate(p, t)
  <2>1. UNCHANGED <<store, sessions, ended>> /\ Load(p, SessionUser(p, t)) /\ SessionUser(p, t) # None
    BY <1>6, Zenon DEF authenticate
  <2>2. SessionUser(p, t) \in Ids
    BY <1>1, <1>4, <2>1 DEF SessionUser, StoreType
  <2>3. SessionsInv'
    BY <1>1, <1>3, <2>1, Zenon DEF SessionsInv
  <2>4. ended' \subseteq Tokens
    BY <1>1, <2>1, Zenon DEF UserTypes
  <2> QED
    BY <1>1, <1>2, <2>1, <2>2, <2>3, <2>4, SessionStep, Zenon
<1>7. CASE logout(p, t)
  <2>1. store' = store \/ store' = [store EXCEPT !.sessions[t] = None]
    BY <1>7, Zenon DEF logout, Wrote, WriteLost
  <2>2. sessions' = sessions \/ sessions' = [sessions EXCEPT ![p][t] = None]
    BY <1>7, Zenon DEF logout
  <2>3. /\ UNCHANGED <<memory, byName>>
        /\ \/ ended' = ended
           \/ /\ ended' = ended \cup {t}
              /\ sessions' = [sessions EXCEPT ![p][t] = None]
              /\ shared => store' = [store EXCEPT !.sessions[t] = None]
              /\ ~shared => store' = store
    BY <1>7, Zenon DEF logout, Wrote
  <2>4. None \in IdOrNone
    BY <1>1 DEF UserTypes, Configured, IdOrNone, None
  <2>5. /\ store' \in StoreType /\ store'.users = store.users
        /\ \A s \in Tokens : store'.sessions[s] \in {store.sessions[s], None}
        /\ store' = [store EXCEPT !.sessions[t] = None] => store'.sessions[t] = None
    BY <1>1, <2>1, <2>4 DEF StoreType
  <2>6. /\ sessions' \in [Procs -> [Tokens -> IdOrNone]]
        /\ \A q \in Procs, s \in Tokens : sessions'[q][s] \in {sessions[q][s], None}
        /\ sessions' = [sessions EXCEPT ![p][t] = None] => sessions'[p][t] = None
    BY <1>1, <2>2, <2>4
  <2>7. ended \subseteq Tokens /\ ended' \subseteq Tokens
    BY <1>1, <2>3, Zenon DEF UserTypes
  <2>8. SessionsInv'
    <3>1. ~shared => \A q \in Procs \ {Solo}, s \in Tokens : sessions'[q][s] = None
      BY <1>1, <2>6, Zenon DEF SessionsInv
    <3>2. ASSUME shared, NEW s \in ended' PROVE store'.sessions[s] = None
      <4>1. s \in Tokens /\ store'.sessions[s] \in {store.sessions[s], None}
        BY <2>5, <2>7, <3>2, Zenon
      <4>2. s \in ended \/ (s = t /\ store' = [store EXCEPT !.sessions[t] = None])
        BY <2>3, <3>2, Zenon
      <4> QED
        BY <1>1, <2>5, <3>2, <4>1, <4>2, Zenon DEF SessionsInv
    <3>3. ASSUME ~shared, NEW s \in ended', NEW q \in Procs PROVE sessions'[q][s] = None
      <4>1. s \in Tokens /\ sessions'[q][s] \in {sessions[q][s], None}
        BY <2>6, <2>7, <3>3, Zenon
      <4>2. s \in ended \/ (s = t /\ sessions' = [sessions EXCEPT ![p][t] = None])
        BY <2>3, <3>3, Zenon
      <4>3. CASE s \in ended
        BY <1>1, <3>3, <4>1, <4>3, Zenon DEF SessionsInv
      <4>4. CASE s = t /\ sessions' = [sessions EXCEPT ![p][t] = None]
        BY <1>3, <2>6, <3>1, <3>3, <4>4, Zenon
      <4> QED
        BY <4>2, <4>3, <4>4, Zenon
    <3> QED
      BY <1>3, <3>1, <3>2, <3>3, Zenon DEF SessionsInv
  <2> QED
    BY <1>2, <2>3, <2>5, <2>6, <2>7, <2>8, SessionStep, Zenon
<1> QED
  BY <1>5, <1>6, <1>7, Zenon

\* A session ends by its time to live.
LEMMA ExpireStep ==
  ASSUME UserInv, NEW t \in Tokens, expire(t)
  PROVE  UserInv'
<1>1. UserTypes /\ SessionsInv /\ StoreInv
  BY Zenon DEF UserInv
<1>2. UNCHANGED <<shared, memory, byName, disk, nextId, call, registered, disabled, offline>>
  BY Zenon DEF expire, SessionRest
<1>3. /\ store' \in StoreType /\ store'.users = store.users /\ store'.sessions[t] = None
      /\ \A s \in Tokens : store'.sessions[s] \in {store.sessions[s], None}
  <2>1. store' = [store EXCEPT !.sessions[t] = None] /\ store \in StoreType /\ None \in IdOrNone
    BY <1>1 DEF expire, UserTypes, Configured, IdOrNone, None
  <2> QED
    BY <2>1, Zenon DEF StoreType
<1>4. /\ sessions' \in [Procs -> [Tokens -> IdOrNone]]
      /\ \A q \in Procs, s \in Tokens : sessions'[q][s] \in {sessions[q][s], None}
      /\ ~shared => \A q \in Procs : sessions'[q][t] = None
  <2>1. sessions \in [Procs -> [Tokens -> IdOrNone]] /\ None \in IdOrNone
    BY <1>1 DEF UserTypes, Configured, IdOrNone, None
  <2>2. CASE sessions' = sessions /\ shared
    BY <2>1, <2>2, Zenon
  <2>3. CASE sessions' = [p \in Procs |-> [sessions[p] EXCEPT ![t] = None]]
    BY <2>1, <2>3, Zenon
  <2> QED
    BY <2>2, <2>3, Zenon DEF expire
<1>5. ended' = ended \cup {t} /\ ended \subseteq Tokens
  BY <1>1, Zenon DEF expire, UserTypes
<1>6. UserTypes'
  BY <1>1, <1>2, <1>3, <1>4, <1>5, Zenon DEF UserTypes
<1>7. SessionsInv'
  BY <1>1, <1>2, <1>3, <1>4, <1>5 DEF SessionsInv
<1>8. \A j : Drawn(j)' <=> Drawn(j)
  BY <1>2, Zenon DEF Drawn
<1>9. StoreInv'
  BY <1>1, <1>2, <1>3, <1>8, Zenon DEF StoreInv
<1>10. ASSUME NEW p \in Procs PROVE ProcInv(p)'
  <2>1. ProcInv(p)
    BY Zenon DEF UserInv
  <2> QED
    BY <1>2, <2>1, Zenon DEF ProcInv, CallInv, KnownInv, DisabledInv, Serving, Drawn
<1> QED
  BY <1>6, <1>7, <1>9, <1>10, Zenon DEF UserInv

\* A restart leaves what the storage has, or a process that does not serve.
LEMMA RestartStep ==
  ASSUME UserInv, HasHighest, NEW p \in Procs, restart(p)
  PROVE  UserInv'
<1>1. UserTypes /\ KnownInv(p) /\ DisabledInv(p) /\ StoreInv /\ SessionsInv
  BY Zenon DEF UserInv, ProcInv
<1>2. UNCHANGED <<shared, store, disk, registered, disabled, ended>>
  BY Zenon DEF restart
<1>3. None \in IdOrNone /\ Idle \notin Registering /\ Idle \notin Disabling /\ NoUser \in UserOrNone
  BY <1>1 DEF UserTypes, Configured, IdOrNone, None, Idle, Registering, Disabling, UserOrNone
<1>4. /\ call' \in [Procs -> {Idle} \cup Registering \cup Disabling] /\ call'[p] = Idle
      /\ \A q \in Procs : q # p => call'[q] = call[q]
  BY <1>1, Zenon DEF restart, UserTypes
<1>5. /\ sessions' \in [Procs -> [Tokens -> IdOrNone]]
      /\ \A q \in Procs, t \in Tokens : sessions'[q][t] \in {sessions[q][t], None}
  BY <1>1, <1>3, Zenon DEF restart, UserTypes
<1>6. \A n \in Names : Highest({None} \cup Known(disk[p], n)) \in IdOrNone
  <2> TAKE n \in Names
  <2>1. PICK S : S = {None} \cup Known(disk[p], n)
    BY Zenon
  <2>2. S \in SUBSET (0..MaxIds) /\ S # {}
    BY <1>1, <2>1 DEF UserTypes, Configured, Known, Ids, None
  <2> QED
    BY <2>1, <2>2, MaxFacts, Zenon DEF IdOrNone
<1>7. byName' \in [Procs -> [Names -> IdOrNone]]
  <2>1. byName \in [Procs -> [Names -> IdOrNone]]
    BY <1>1, Zenon DEF UserTypes
  <2>2. CASE byName' = [byName EXCEPT ![p] = NoNames]
    BY <1>3, <2>1, <2>2, Zenon DEF NoNames
  <2>3. CASE byName' = [byName EXCEPT ![p] = [n \in Names |-> Highest({None} \cup Known(disk[p], n))]]
    <3>1. PICK g : g = [n \in Names |-> Highest({None} \cup Known(disk[p], n))]
      BY Zenon
    <3>2. g \in [Names -> IdOrNone]
      BY <1>6, <3>1, Zenon
    <3> QED
      BY <2>1, <2>3, <3>1, <3>2, Zenon
  <2> QED
    BY <2>2, <2>3, Zenon DEF restart
<1>8. /\ memory' \in [Procs -> [Ids -> UserOrNone]]
      /\ \A q \in Procs : q # p => memory'[q] = memory[q] /\ (q \in offline' => q \in offline)
      /\ offline \subseteq offline'
      /\ memory'[p] = disk[p] \/ (memory'[p] = NoUsers /\ p \in offline')
  <2>1. /\ memory \in [Procs -> [Ids -> UserOrNone]] /\ disk \in [Procs -> [Ids -> UserOrNone]]
        /\ NoUsers \in [Ids -> UserOrNone]
    BY <1>1, <1>3, Zenon DEF UserTypes, NoUsers
  <2> QED
    BY <2>1, Zenon DEF restart
<1>9. /\ nextId' \in [Procs -> Nat] /\ \A q \in Procs : q # p => nextId'[q] = nextId[q]
      /\ shared => nextId' = nextId
      /\ ~shared => \A i \in Ids : disk[p][i] # NoUser => nextId'[p] > i
  <2>1. nextId \in [Procs -> Nat]
    BY <1>1, Zenon DEF UserTypes
  <2>2. CASE shared
    BY <2>1, <2>2, Zenon DEF restart
  <2>3. CASE ~shared
    <3>1. PICK S : S = {0} \cup {i \in Ids : disk[p][i] # NoUser}
      BY Zenon
    <3>2. S \in SUBSET (0..MaxIds) /\ S # {} /\ \A i \in Ids : disk[p][i] # NoUser => i \in S
      BY <1>1, <3>1 DEF UserTypes, Configured, Ids
    <3>3. PICK m \in 0..MaxIds : m = Highest(S) /\ \A y \in S : m >= y
      BY <3>2, MaxFacts, Zenon
    <3>4. nextId' = [nextId EXCEPT ![p] = 1 + m]
      BY <2>3, <3>1, <3>3, Zenon DEF restart
    <3>5. \A i \in Ids : disk[p][i] # NoUser => m >= i
      BY <3>2, <3>3, Zenon
    <3> QED
      BY <1>1, <2>1, <2>3, <3>4, <3>5 DEF UserTypes, Configured, Ids
  <2> QED
    BY <2>2, <2>3, Zenon
<1>10. UserTypes'
  BY <1>1, <1>2, <1>4, <1>5, <1>7, <1>8, <1>9, Zenon DEF UserTypes
<1>11. \A j : shared /\ Drawn(j) => Drawn(j)'
  BY <1>9, Zenon DEF Drawn
<1>12. StoreInv' /\ SessionsInv'
  <2>1. SessionsInv'
    BY <1>1, <1>2, <1>5, Zenon DEF SessionsInv, UserTypes
  <2> QED
    BY <1>1, <1>2, <1>11, <2>1, Zenon DEF StoreInv
<1>13. CallInv(p)'
  BY <1>3, <1>4, Zenon DEF CallInv
<1>14. KnownInv(p)'
  <2>1. \A i \in Ids : memory'[p][i] # NoUser => disk[p][i] # NoUser
    BY <1>8, Zenon DEF NoUsers
  <2> QED
    BY <1>1, <1>2, <1>9, <1>11, <2>1, Zenon DEF KnownInv
<1>15. DisabledInv(p)'
  BY <1>1, <1>2, <1>8, Zenon DEF DisabledInv
<1>16. ProcInv(p)'
  BY <1>13, <1>14, <1>15, Zenon DEF ProcInv
<1> QED
  BY <1>2, <1>4, <1>8, <1>9, <1>10, <1>11, <1>12, <1>16, OthersKeep, Zenon

\* Every step keeps the users' invariant.
LEMMA UserStep ==
  ASSUME UserInv, HasHighest, [UserNext]_userVars
  PROVE  UserInv'
<1>1. CASE UNCHANGED userVars
  <2>1. UNCHANGED <<shared, store, memory, byName, disk, sessions, nextId, call, registered,
                    disabled, ended, offline>>
    BY <1>1, Zenon DEF userVars
  <2> QED
    BY <2>1, Zenon DEF UserInv, UserTypes, StoreInv, SessionsInv, ProcInv, CallInv, KnownInv, DisabledInv,
       Drawn, Serving
<1>2. ASSUME NEW p \in Procs, NEW n \in Names, registerUser(p, n) PROVE UserInv'
  BY <1>2, RegisterStep, Zenon
<1>3. ASSUME NEW p \in Procs, claim(p) \/ setUser(p) \/ dropName(p) \/ dropUser(p) PROVE UserInv'
  BY <1>3, StoreSteps, Zenon
<1>4. ASSUME NEW p \in Procs, persistName(p) \/ persistRecord(p) \/ persistDisk(p) PROVE UserInv'
  BY <1>4, PersistSteps, Zenon
<1>5. ASSUME NEW p \in Procs, restart(p) PROVE UserInv'
  BY <1>5, RestartStep, Zenon
<1>6. ASSUME NEW p \in Procs, NEW i \in Ids, disable(p, i) PROVE UserInv'
  BY <1>6, DisableStep, Zenon
<1>7. ASSUME NEW p \in Procs, NEW t \in Tokens,
             (\E n \in Names : login(p, n, t)) \/ authenticate(p, t) \/ logout(p, t)
      PROVE  UserInv'
  BY <1>7, SessionSteps, Zenon
<1>8. ASSUME NEW t \in Tokens, expire(t) PROVE UserInv'
  BY <1>8, ExpireStep, Zenon
<1> QED
  BY <1>1, <1>2, <1>3, <1>4, <1>5, <1>6, <1>7, <1>8, Zenon DEF UserNext

\* At first there is no user.
LEMMA UserStart ==
  ASSUME UserInit, Configured
  PROVE  UserInv
<1>1. None \in IdOrNone /\ NoUser \in UserOrNone
  BY DEF Configured, IdOrNone, None, UserOrNone
<1>2. NoNames \in [Names -> IdOrNone] /\ NoUsers \in [Ids -> UserOrNone] /\ \A i \in Ids : NoUsers[i] = NoUser
  BY <1>1, Zenon DEF NoNames, NoUsers
<1>3. store \in StoreType /\ store.users = NoUsers
  BY <1>1, <1>2, Zenon DEF UserInit, StoreType
<1>4. UserTypes
  BY <1>1, <1>2, <1>3, Zenon DEF UserInit, UserTypes
<1>5. StoreInv /\ SessionsInv
  BY <1>2, <1>3, Zenon DEF UserInit, StoreInv, SessionsInv
<1>6. \A p \in Procs : ProcInv(p)
  BY <1>2, Zenon DEF UserInit, ProcInv, CallInv, KnownInv, DisabledInv, Idle, Registering, Disabling
<1> QED
  BY <1>4, <1>5, <1>6, Zenon DEF UserInv

\* What the invariant says of tokens.
LEMMA UsersRefused ==
  ASSUME UserInv
  PROVE  RefusedForGood
<1>1. UserTypes /\ SessionsInv
  BY Zenon DEF UserInv
<1>2. ASSUME NEW t \in ended, NEW p \in Procs PROVE ~Accepts(p, t)
  BY <1>1, Zenon DEF SessionsInv, Accepts, SessionUser
<1>3. ASSUME NEW t \in Tokens, NEW d \in disabled, d[1] \notin offline, SessionUser(d[1], t) = d[2]
      PROVE  ~Accepts(d[1], t)
  <2>1. PICK p \in Procs, i \in Ids : d = <<p, i>> /\ d[1] = p /\ d[2] = i
    BY <1>1 DEF UserTypes
  <2>2. DisabledInv(p)
    BY Zenon DEF UserInv, ProcInv
  <2>3. Off(memory[p][i])
    BY <1>3, <2>1, <2>2, Zenon DEF DisabledInv
  <2>4. Loaded(p, i) = memory
    BY <2>3, Zenon DEF Loaded, Learns, Off
  <2> QED
    BY <1>3, <2>1, <2>3, <2>4, Zenon DEF Accepts, Off
<1> QED
  BY <1>2, <1>3, Zenon DEF RefusedForGood

-----------------------------------------------------------------------------
(* Names.                                                                  *)

\* A registration that owns its name in the shared store.
Owning == {"user", "name", "record", "disk", "dropName", "dropBoth"}
Owns(p, n) == call[p] \in Registering /\ call[p].user.name = n /\ call[p].pc \in Owning

Registered(n) == \E i \in Ids : <<n, i>> \in registered

\* With a shared store the claim on a name lasts from its compare-and-set to the
\* registration; without one the process knows every name it registered.
SharedNames ==
  shared => \A n \in Names :
    /\ Registered(n) => store.names[n] # None
    /\ \A p \in Procs : Owns(p, n) =>
         /\ store.names[n] # None /\ ~Registered(n)
         /\ \A q \in Procs : Owns(q, n) => q = p
SoloNames ==
  ~shared /\ Solo \notin offline =>
    /\ call[Solo] \in Registering => ~Registered(call[Solo].user.name)
    /\ \A n \in Names, i \in Ids : <<n, i>> \in registered =>
         byName[Solo][n] # None /\ memory[Solo][i].name = n /\ disk[Solo][i].name = n

NamesInv == SharedNames /\ SoloNames /\ NamesAreUnique

\* A step that registers nobody and claims no name.
LEMMA NamesKeep ==
  ASSUME NamesInv, UNCHANGED <<shared, registered>>,
         shared => \A n \in Names :
           /\ \A q \in Procs : Owns(q, n)' => Owns(q, n)
           /\ \/ store'.names[n] = None => store.names[n] = None
              \/ \E q \in Procs : Owns(q, n) /\ ~Owns(q, n)',
         SoloNames'
  PROVE  NamesInv'
<1>1. \A n : Registered(n)' <=> Registered(n)
  BY Zenon DEF Registered
<1>2. NamesAreUnique'
  BY Zenon DEF NamesInv, NamesAreUnique
<1>3. SharedNames'
  BY <1>1, Zenon DEF NamesInv, SharedNames
<1> QED
  BY <1>2, <1>3, Zenon DEF NamesInv

\* A call that goes on owns no name it did not own before.
LEMMA OwnsKeep ==
  ASSUME UserTypes, NEW p \in Procs, \A q \in Procs : q # p => call'[q] = call[q],
         \/ call'[p] = Idle \/ call'[p].pc \notin Owning \/ call'[p] \notin Registering
         \/ /\ call[p].pc \in Owning /\ call'[p].user = call[p].user
            /\ call'[p] \in Registering => call[p] \in Registering
  PROVE  \A n \in Names, q \in Procs : Owns(q, n)' => Owns(q, n)
<1>1. Idle \notin Registering
  BY Zenon DEF Idle, Registering
<1> QED
  BY <1>1, Zenon DEF Owns

\* claim: the compare-and-set finds the name free, so nobody owns it.
LEMMA ClaimNames ==
  ASSUME UserInv, NamesInv, NEW p \in Procs, claim(p)
  PROVE  NamesInv'
<1>1. UserTypes /\ CallInv(p) /\ SharedNames /\ NamesAreUnique /\ SoloNames
  BY Zenon DEF UserInv, ProcInv, NamesInv
<1>2. call[p].pc = "claim" /\ call[p].pc # "idle" /\ UNCHANGED <<memory, disk>>
      /\ UNCHANGED <<shared, byName, registered, offline>>
  BY Zenon DEF claim, CallRest
<1>3. PICK n \in Names, i \in Ids : n = call[p].user.name /\ i = call[p].id
  BY <1>1, <1>2, CallKinds, Zenon
<1>4. /\ Serving(p) /\ call[p] # Idle /\ call[p] \in Registering /\ i # None /\ i \in IdOrNone
  <2>1. Serving(p) /\ call[p] # Idle /\ call[p].kind = "register"
    BY <1>1, <1>2, CallFacts, CallKinds, Zenon
  <2>2. call[p] \in Registering
    BY <1>1, <1>2, <2>1, CallKinds, Zenon
  <2> QED
    BY <1>1, <2>1, <2>2 DEF Ids, None, UserTypes, Configured, IdOrNone
<1>5. \A m : Registered(m)' <=> Registered(m)
  BY <1>2, Zenon DEF Registered
<1>6. \A q \in Procs : q # p => call'[q] = call[q]
  BY <1>1, Zenon DEF claim, CallTo, UserTypes
<1>7. \A m \in Names, q \in Procs : q # p => (Owns(q, m)' <=> Owns(q, m))
  BY <1>6, Zenon DEF Owns
<1>8. SoloNames'
  <2>1. CASE shared
    BY <1>2, <2>1, Zenon DEF SoloNames
  <2>2. CASE ~shared
    <3>1. p = Solo
      BY <1>4, <2>2, Zenon DEF Serving
    <3>2. \/ CallTo(p, "user") \/ CallTo(p, "idle")
      BY Zenon DEF claim
    <3>3. call'[p] \in Registering => call'[p].user = call[p].user
      <4>1. Idle \notin Registering
        BY Zenon DEF Idle, Registering
      <4> QED
        BY <1>1, <1>2, <1>4, <3>2, <4>1, CallKinds, CallMoved, Zenon
    <3> QED
      BY <1>1, <1>2, <1>4, <1>5, <2>2, <3>1, <3>3 DEF SoloNames, Registered
  <2> QED
    BY <2>1, <2>2, Zenon
<1>9. CASE call'[p] = Idle /\ (store' = store \/ store' = [store EXCEPT !.names[n] = i])
  <2>1. \A m \in Names, q \in Procs : Owns(q, m)' => Owns(q, m)
    BY <1>1, <1>6, <1>9, OwnsKeep, Zenon
  <2>2. \A m \in Names : store'.names[m] = None => store.names[m] = None
    BY <1>1, <1>4, <1>9, Zenon DEF UserTypes, StoreType
  <2> QED
    BY <1>2, <1>8, <2>1, <2>2, NamesKeep, Zenon
<1>10. CASE /\ store.names[n] = None /\ store' = [store EXCEPT !.names[n] = i]
            /\ call'[p].user = call[p].user
  <2>1. store'.names[n] # None /\ \A m \in Names : m # n => store'.names[m] = store.names[m]
    BY <1>1, <1>4, <1>10, Zenon DEF UserTypes, StoreType
  <2>2. \A m \in Names : m # n => ~Owns(p, m) /\ ~Owns(p, m)'
    BY <1>3, <1>10, Zenon DEF Owns
  <2>3. shared => ~Registered(n) /\ \A q \in Procs : ~Owns(q, n)
    BY <1>1, <1>10, Zenon DEF SharedNames
  <2>4. SharedNames'
    <3> SUFFICES ASSUME shared, NEW m \in Names
                 PROVE  /\ Registered(m)' => store'.names[m] # None
                        /\ \A q \in Procs : Owns(q, m)' =>
                             /\ store'.names[m] # None /\ ~Registered(m)'
                             /\ \A r \in Procs : Owns(r, m)' => r = q
      BY <1>2, Zenon DEF SharedNames
    <3>1. CASE m = n
      BY <1>5, <1>7, <2>1, <2>3, <3>1, Zenon
    <3>2. CASE m # n
      BY <1>1, <1>5, <1>7, <2>1, <2>2, <3>2, Zenon DEF SharedNames
    <3> QED
      BY <3>1, <3>2, Zenon
  <2>5. NamesAreUnique'
    BY <1>1, <1>2, Zenon DEF NamesAreUnique
  <2> QED
    BY <1>8, <2>4, <2>5, Zenon DEF NamesInv
<1>11. ASSUME NEW pc \in {"user", "idle"}, CallTo(p, pc)
       PROVE  (pc = "idle" => call'[p] = Idle) /\ (pc = "user" => call'[p].user = call[p].user)
  <2>1. call[p].kind = "register"
    BY <1>1, <1>2, CallKinds, Zenon
  <2> QED
    BY <1>1, <1>2, <1>11, <2>1, CallMoved, Zenon
<1> QED
  BY <1>3, <1>9, <1>10, <1>11, Zenon DEF claim, Wrote, WriteLost

\* The steps of a call that write to the shared store after the claim.
LEMMA StoreNames ==
  ASSUME UserInv, NamesInv, NEW p \in Procs, setUser(p) \/ dropName(p) \/ dropUser(p)
  PROVE  NamesInv'
<1>1. UserTypes /\ SharedNames /\ SoloNames
  BY Zenon DEF UserInv, NamesInv
<1>2. /\ call[p].pc \in {"user", "dropName", "dropBoth", "dropUser"} /\ call[p].pc # "idle"
      /\ UNCHANGED <<memory, disk>> /\ UNCHANGED <<shared, byName, registered, offline>>
  BY Zenon DEF setUser, dropName, dropUser, CallRest
<1>3. PICK n \in Names, i \in Ids : n = call[p].user.name /\ i = call[p].id
  BY <1>1, <1>2, CallKinds, Zenon
<1>4. Serving(p) /\ call[p].kind = "register" /\ call[p] \in Registering
  BY <1>1, <1>2, CallFacts, CallKinds, Zenon
<1>5. PICK pc \in {"idle", "name", "dropName", "dropUser"} :
        CallTo(p, pc) /\ (pc \in {"name", "dropName"} => call[p].pc = "user")
  BY Zenon DEF setUser, dropName, dropUser
<1>6. /\ \A q \in Procs : q # p => call'[q] = call[q]
      /\ pc = "idle" => call'[p] = Idle
      /\ pc # "idle" => /\ call'[p].pc = pc /\ call'[p].user = call[p].user
                        /\ call'[p] \in Registering => call[p] \in Registering
  BY <1>1, <1>2, <1>4, <1>5, CallMoved, Zenon
<1>7. \A m \in Names, q \in Procs : Owns(q, m)' => Owns(q, m)
  <2>1. \/ call'[p] = Idle \/ call'[p].pc \notin Owning
        \/ call[p].pc \in Owning /\ call'[p].user = call[p].user
           /\ (call'[p] \in Registering => call[p] \in Registering)
    BY <1>5, <1>6, Zenon DEF Owning
  <2> QED
    BY <1>1, <1>6, <2>1, OwnsKeep, Zenon
<1>8. SoloNames'
  <2>1. CASE shared
    BY <1>2, <2>1, Zenon DEF SoloNames
  <2>2. CASE ~shared
    <3>1. p = Solo
      BY <1>4, <2>2, Zenon DEF Serving
    <3>2. Idle \notin Registering
      BY Zenon DEF Idle, Registering
    <3> QED
      BY <1>1, <1>2, <1>4, <1>6, <2>2, <3>1, <3>2, Zenon DEF SoloNames, Registered
  <2> QED
    BY <2>1, <2>2, Zenon
<1>9. \A m \in Names : \/ store'.names[m] = None => store.names[m] = None
                       \/ \E q \in Procs : Owns(q, m) /\ ~Owns(q, m)'
  <2>1. CASE setUser(p) \/ dropUser(p)
    <3>1. store' = store \/ \E u : store' = [store EXCEPT !.users[i] = u]
      BY <1>3, <2>1, Zenon DEF setUser, dropUser, Wrote, WriteLost
    <3>2. store'.names = store.names
      BY <1>1, <3>1, Zenon DEF UserTypes, StoreType
    <3> QED
      BY <3>2, Zenon
  <2>2. CASE dropName(p)
    <3>1. store' = store \/ store' = [store EXCEPT !.names[n] = None]
      BY <1>3, <2>2, Zenon DEF dropName, Wrote, WriteLost
    <3>2. \A m \in Names : m # n => store'.names[m] = store.names[m]
      BY <1>1, <3>1 DEF UserTypes, StoreType
    <3>3. call[p].pc \in {"dropName", "dropBoth"} /\ (CallTo(p, "idle") \/ CallTo(p, "dropUser"))
      BY <2>2, Zenon DEF dropName
    <3>4. Owns(p, n)
      BY <1>3, <1>4, <3>3, Zenon DEF Owns, Owning
    <3>5. ~Owns(p, n)'
      <4>1. call'[p] = Idle \/ call'[p].pc = "dropUser"
        BY <1>1, <1>2, <1>4, <3>3, CallMoved, Zenon
      <4> QED
        BY <4>1 DEF Owns, Owning, Idle, Registering
    <3> QED
      BY <3>2, <3>4, <3>5, Zenon
  <2> QED
    BY <2>1, <2>2, Zenon
<1> QED
  BY <1>2, <1>7, <1>8, <1>9, NamesKeep, Zenon

\* The failures of persist.
LEMMA FailedNames ==
  ASSUME UserInv, NamesInv, NEW p \in Procs, call[p].pc \in {"name", "record", "disk"}, PersistFailed(p),
         UNCHANGED <<shared, byName, registered, offline>>,
         \A m \in Names : store'.names[m] = None => store.names[m] = None,
         disk' = disk \/ disk' = [disk EXCEPT ![p][call[p].id] = call[p].user]
  PROVE  NamesInv'
<1>1. UserTypes /\ SoloNames
  BY Zenon DEF UserInv, NamesInv
<1>2. PICK i \in Ids, u \in Record : i = call[p].id /\ u = call[p].user
  BY <1>1, CallKinds, Zenon
<1>3. /\ Serving(p) /\ NoUser \notin Record /\ Idle \notin Registering /\ p \notin offline
      /\ call[p].kind = "register" => memory[p][i] = NoUser
      /\ call[p].kind = "disable" => memory[p][i] \in Record /\ memory[p][i].name = u.name /\ call[p].previous \in BOOLEAN
      /\ call[p].kind \in {"register", "disable"}
  <2>1. call[p].pc # "idle"
    BY Zenon
  <2> QED
    BY <1>1, <1>2, <2>1, CallFacts, CallKinds, Zenon
<1>4. PICK pc \in {"dropBoth", "idle"} : CallTo(p, pc) /\ (pc = "dropBoth" => shared /\ call[p].kind = "register")
  BY Zenon DEF PersistFailed
<1>5. /\ \A q \in Procs : q # p => call'[q] = call[q]
      /\ pc = "idle" => call'[p] = Idle
      /\ pc # "idle" => /\ call'[p].pc = pc /\ call'[p].user = call[p].user
                        /\ call'[p] \in Registering => call[p] \in Registering
  BY <1>1, <1>4, CallMoved
<1>6. \A m \in Names, q \in Procs : Owns(q, m)' => Owns(q, m)
  <2>1. call[p].pc \in Owning
    BY Zenon DEF Owning
  <2> QED
    BY <1>1, <1>5, <2>1, OwnsKeep, Zenon
<1>7. SoloNames'
  <2>1. CASE shared
    BY <2>1, Zenon DEF SoloNames
  <2>2. CASE ~shared
    <3>1. p = Solo /\ call'[p] = Idle
      BY <1>3, <1>4, <1>5, <2>2, Zenon DEF Serving
    <3>2. \A m \in Names, j \in Ids : <<m, j>> \in registered =>
            byName[p][m] # None /\ memory[p][j].name = m /\ disk[p][j].name = m
      BY <1>1, <1>3, <2>2, <3>1, Zenon DEF SoloNames
    <3>3. \A j \in Ids : memory'[p][j].name = memory[p][j].name
      <4>1. CASE call[p].kind = "register"
        BY <4>1, Zenon DEF PersistFailed
      <4>2. CASE call[p].kind = "disable"
        <5>1. PICK b \in BOOLEAN, r \in Record : b = call[p].previous /\ r = memory[p][i]
          BY <1>3, <4>2, Zenon
        <5>2. memory' = [memory EXCEPT ![p][i].enabled = b]
          BY <1>2, <4>2, <5>1, Zenon DEF PersistFailed
        <5>3. [r EXCEPT !.enabled = b].name = r.name
          BY Zenon DEF Record
        <5>4. memory' = [memory EXCEPT ![p] = [memory[p] EXCEPT ![i] = [r EXCEPT !.enabled = b]]]
          BY <1>1, <5>1, <5>2, Zenon DEF UserTypes
        <5> QED
          BY <1>1, <5>1, <5>3, <5>4 DEF UserTypes
      <4> QED
        BY <1>3, <4>1, <4>2, Zenon
    <3>4. \A j \in Ids : disk'[p][j] = disk[p][j] \/ (j = i /\ disk'[p][j] = u)
      BY <1>1, <1>2 DEF UserTypes
    <3>5. \A m \in Names : <<m, i>> \in registered => u.name = m
      <4>1. NoUser.name \notin Names
        BY <1>1, Zenon DEF UserTypes, Configured, NoUser, User, None
      <4> SUFFICES ASSUME NEW m \in Names, <<m, i>> \in registered PROVE u.name = m
        BY Zenon
      <4>2. memory[p][i].name = m
        BY <3>2, Zenon
      <4>3. call[p].kind # "register"
        BY <1>3, <4>1, <4>2, Zenon
      <4> QED
        BY <1>3, <4>2, <4>3, Zenon
    <3> QED
      BY <1>3, <3>1, <3>2, <3>3, <3>4, <3>5 DEF SoloNames
  <2> QED
    BY <2>1, <2>2, Zenon
<1> QED
  BY <1>6, <1>7, NamesKeep, Zenon

\* A registration succeeds, or a user is disabled.
LEMMA DoneNames ==
  ASSUME UserInv, NamesInv, NEW p \in Procs, call[p].pc = "disk", CallTo(p, "idle"),
         UNCHANGED <<shared, store, offline>>,
         NEW i \in Ids, NEW u \in Record, NEW n \in Names,
         i = call[p].id /\ u = call[p].user /\ n = call[p].user.name,
         disk' = [disk EXCEPT ![p][i] = u], memory' = [memory EXCEPT ![p][i] = u],
         byName' = (IF call[p].kind = "register" THEN [byName EXCEPT ![p][n] = i] ELSE byName),
         registered' = (IF call[p].kind = "register" THEN registered \cup {<<n, i>>} ELSE registered)
  PROVE  NamesInv'
<1>1. UserTypes /\ SharedNames /\ SoloNames /\ NamesAreUnique
  BY Zenon DEF UserInv, NamesInv
<1>2. call[p].pc # "idle"
  BY Zenon
<1>3. /\ Serving(p) /\ NoUser \notin Record /\ Idle \notin Registering /\ p \notin offline
      /\ call[p].kind = "register" => memory[p][i] = NoUser /\ call[p] \in Registering
      /\ call[p].kind = "disable" => memory[p][i].name = n /\ call[p] \notin Registering
      /\ call[p].kind \in {"register", "disable"}
  BY <1>1, <1>2, CallFacts, CallKinds, Zenon
<1>4. call'[p] = Idle /\ \A q \in Procs : q # p => call'[q] = call[q]
  BY <1>1, <1>2, CallMoved, Zenon
<1>5. \A m \in Names, q \in Procs : Owns(q, m)' => Owns(q, m) /\ q # p
  BY <1>3, <1>4, Zenon DEF Owns
<1>6. call[p].kind = "register" => ~Registered(n)
  <2>1. CASE shared
    <3>1. call[p].kind = "register" => Owns(p, n)
      BY <1>3, Zenon DEF Owns, Owning
    <3> QED
      BY <1>1, <2>1, <3>1, Zenon DEF SharedNames
  <2>2. CASE ~shared
    BY <1>1, <1>3, <2>2, Zenon DEF SoloNames, Serving
  <2> QED
    BY <2>1, <2>2, Zenon
<1>7. SoloNames'
  <2>1. CASE shared
    BY <2>1, Zenon DEF SoloNames
  <2>2. CASE ~shared
    <3>1. p = Solo
      BY <1>3, <2>2, Zenon DEF Serving
    <3>2. \A m \in Names, j \in Ids : <<m, j>> \in registered =>
            byName[p][m] # None /\ memory[p][j].name = m /\ disk[p][j].name = m
      BY <1>1, <1>3, <2>2, <3>1, Zenon DEF SoloNames
    <3>3. /\ \A j \in Ids : j # i => memory'[p][j] = memory[p][j] /\ disk'[p][j] = disk[p][j]
          /\ memory'[p][i] = u /\ disk'[p][i] = u /\ u.name = n
      BY <1>1, Zenon DEF UserTypes
    <3>4. i # None
      BY <1>1 DEF Ids, None, UserTypes, Configured
    <3>5. /\ \A m \in Names : byName[p][m] # None => byName'[p][m] # None
          /\ call[p].kind = "register" => byName'[p][n] # None
      <4>1. byName \in [Procs -> [Names -> IdOrNone]]
        BY <1>1, Zenon DEF UserTypes
      <4> QED
        BY <1>3, <3>4, <4>1, Zenon
    <3>6. ASSUME NEW m \in Names, NEW j \in Ids, <<m, j>> \in registered'
          PROVE  byName'[p][m] # None /\ memory'[p][j].name = m /\ disk'[p][j].name = m
      <4>1. CASE <<m, j>> \in registered /\ j # i
        <5>1. byName[p][m] # None /\ memory[p][j].name = m /\ disk[p][j].name = m
          BY <3>2, <4>1, Zenon
        <5>2. memory'[p][j] = memory[p][j] /\ disk'[p][j] = disk[p][j]
          BY <3>3, <4>1, Zenon
        <5> QED
          BY <3>5, <5>1, <5>2, Zenon
      <4>2. CASE <<m, j>> \in registered /\ j = i
        <5>1. NoUser.name \notin Names
          BY <1>1, Zenon DEF UserTypes, Configured, NoUser, User, None
        <5>2. memory[p][i].name = m /\ byName[p][m] # None
          BY <3>2, <4>2, Zenon
        <5>3. call[p].kind # "register"
          BY <1>3, <5>1, <5>2, Zenon
        <5> QED
          BY <1>3, <3>3, <3>5, <4>2, <5>2, <5>3
      <4>3. CASE <<m, j>> \notin registered
        <5>1. call[p].kind = "register" /\ m = n /\ j = i
          BY <3>6, <4>3, Zenon
        <5> QED
          BY <3>3, <3>5, <5>1, Zenon
      <4> QED
        BY <4>1, <4>2, <4>3, Zenon
    <3> QED
      BY <1>3, <1>4, <3>1, <3>6 DEF SoloNames
  <2> QED
    BY <2>1, <2>2, Zenon
<1>8. CASE call[p].kind # "register"
  BY <1>5, <1>7, <1>8, NamesKeep, Zenon
<1>9. CASE call[p].kind = "register"
  <2>1. registered' = registered \cup {<<n, i>>}
    BY <1>9, Zenon
  <2>2. \A m \in Names : m # n => (Registered(m)' <=> Registered(m))
    BY <2>1, Zenon DEF Registered
  <2>3. NamesAreUnique'
    <3>1. \A r \in registered : r[1] # n
      <4>1. \A r \in registered : \E m \in Names, j \in Ids : r = <<m, j>> /\ r[1] = m
        BY <1>1 DEF UserTypes
      <4> QED
        BY <1>6, <1>9, <4>1, Zenon DEF Registered
    <3> QED
      BY <1>1, <2>1, <3>1 DEF NamesAreUnique
  <2>4. shared => Owns(p, n)
    BY <1>3, <1>9, Zenon DEF Owns, Owning
  <2>5. SharedNames'
    <3> SUFFICES ASSUME shared, NEW m \in Names
                 PROVE  /\ Registered(m)' => store.names[m] # None
                        /\ \A q \in Procs : Owns(q, m)' =>
                             /\ store.names[m] # None /\ ~Registered(m)'
                             /\ \A r \in Procs : Owns(r, m)' => r = q
      BY Zenon DEF SharedNames
    <3>1. CASE m = n
      BY <1>1, <1>5, <2>4, <3>1, Zenon DEF SharedNames
    <3>2. CASE m # n
      BY <1>1, <1>5, <2>2, <3>2, Zenon DEF SharedNames
    <3> QED
      BY <3>1, <3>2, Zenon
  <2> QED
    BY <1>7, <2>3, <2>5, Zenon DEF NamesInv
<1> QED
  BY <1>8, <1>9, Zenon

\* persist.
LEMMA PersistNames ==
  ASSUME UserInv, NamesInv, NEW p \in Procs, persistName(p) \/ persistRecord(p) \/ persistDisk(p)
  PROVE  NamesInv'
<1>1. UserTypes /\ SoloNames
  BY Zenon DEF UserInv, NamesInv
<1>2. call[p].pc \in {"name", "record", "disk"} /\ call[p].pc # "idle" /\ call[p].pc \in Owning
  BY Zenon DEF persistName, persistRecord, persistDisk, Owning
<1>3. PICK n \in Names, i \in Ids, u \in Record :
        n = call[p].user.name /\ i = call[p].id /\ u = call[p].user
  BY <1>1, <1>2, CallKinds, Zenon
<1>4. i # None /\ Stored(call[p].user) = u
  BY <1>1, <1>3 DEF Ids, None, UserTypes, Configured, Stored, User, Record
<1>5. \A m \in Names : store'.names[m] = None => store.names[m] = None
  <2>1. \/ store' = store \/ store' = [store EXCEPT !.names[n] = i]
        \/ store' = [store EXCEPT !.users[i] = u]
    BY <1>3, Zenon DEF persistName, persistRecord, persistDisk, Wrote, WriteLost
  <2> QED
    BY <1>1, <1>4, <2>1, Zenon DEF UserTypes, StoreType
<1>6. UNCHANGED <<shared, offline>>
  BY Zenon DEF persistName, persistRecord, persistDisk, CallRest
<1>7. CASE PersistFailed(p) /\ UNCHANGED <<byName, registered>> /\ (disk' = disk \/ disk' = [disk EXCEPT ![p][i] = u])
  BY <1>2, <1>3, <1>5, <1>6, <1>7, FailedNames, Zenon
<1>8. CASE (CallTo(p, "record") \/ CallTo(p, "disk")) /\ UNCHANGED <<memory, disk, byName, registered>>
  <2>1. /\ \A q \in Procs : q # p => call'[q] = call[q]
        /\ call'[p].user = call[p].user
        /\ call'[p] \in Registering => call[p] \in Registering
    BY <1>1, <1>2, <1>8, CallMoved
  <2>2. \A m \in Names, q \in Procs : Owns(q, m)' => Owns(q, m)
    BY <1>1, <1>2, <2>1, OwnsKeep, Zenon
  <2>3. SoloNames'
    <3>1. ~shared => p = Solo
      BY <1>2, CallFacts, Zenon DEF Serving
    <3> QED
      BY <1>1, <1>6, <1>8, <2>1, <3>1, Zenon DEF SoloNames, Registered
  <2> QED
    BY <1>5, <1>6, <1>8, <2>2, <2>3, NamesKeep, Zenon
<1>9. CASE /\ persistDisk(p) /\ CallTo(p, "idle") /\ disk' = [disk EXCEPT ![p][i] = u]
           /\ memory' = [memory EXCEPT ![p][i] = u]
           /\ byName' = (IF call[p].kind = "register" THEN [byName EXCEPT ![p][n] = i] ELSE byName)
           /\ registered' = (IF call[p].kind = "register" THEN registered \cup {<<n, i>>} ELSE registered)
  <2>1. call[p].pc = "disk" /\ UNCHANGED store
    BY <1>9, Zenon DEF persistDisk
  <2> QED
    BY <1>3, <1>6, <1>9, <2>1, DoneNames, Zenon
<1>10. CASE persistDisk(p)
  BY <1>3, <1>4, <1>7, <1>9, <1>10, Zenon DEF persistDisk
<1>11. CASE persistName(p) \/ persistRecord(p)
  BY <1>7, <1>8, <1>11, Zenon DEF persistName, persistRecord, CallRest
<1> QED
  BY <1>10, <1>11, Zenon

\* A call begins: it owns no name, and one that registers without a shared store has
\* a name that the process does not know.
LEMMA BeginNames ==
  ASSUME UserInv, NamesInv, NEW p \in Procs,
         (\E n \in Names : registerUser(p, n)) \/ (\E i \in Ids : disable(p, i))
  PROVE  NamesInv'
<1>1. UserTypes /\ SoloNames
  BY Zenon DEF UserInv, NamesInv
<1>2. /\ Serving(p) /\ UNCHANGED <<store, disk>> /\ UNCHANGED <<shared, byName, registered, offline>>
      /\ \A q \in Procs : q # p => call'[q] = call[q]
  <2>1. CASE \E n \in Names : registerUser(p, n)
    BY <1>1, <2>1, Zenon DEF registerUser, CallRest, UserTypes
  <2>2. CASE \E i \in Ids : disable(p, i)
    <3>1. PICK i \in Ids : disable(p, i)
      BY <2>2, Zenon
    <3>2. Serving(p) /\ \E c : call' = [call EXCEPT ![p] = c]
      BY <3>1, Zenon DEF disable
    <3>3. UNCHANGED <<shared, store, disk, byName, registered, offline>>
      BY <3>1, Zenon DEF disable
    <3> QED
      BY <1>1, <3>2, <3>3, Zenon DEF UserTypes
  <2> QED
    BY <2>1, <2>2, Zenon
<1>3. call'[p].pc \notin Owning \/ call'[p] \notin Registering \/ ~shared
  <2>1. ASSUME NEW n \in Names, registerUser(p, n), shared PROVE call'[p].pc = "claim"
    <3>1. PICK c : /\ c = [pc |-> "claim", kind |-> "register", id |-> NewId(p), user |-> User(n, TRUE)]
                   /\ call' = [call EXCEPT ![p] = c]
      BY <2>1, Zenon DEF registerUser
    <3> QED
      BY <1>1, <3>1, Zenon DEF UserTypes
  <2>2. (\E i \in Ids : disable(p, i)) => call'[p].kind = "disable"
    BY <1>1 DEF disable, UserTypes
  <2> QED
    BY <2>1, <2>2, Zenon DEF Owning, Registering
<1>4. shared => \A m \in Names, q \in Procs : Owns(q, m)' => Owns(q, m)
  BY <1>1, <1>2, <1>3, OwnsKeep, Zenon
<1>5. SoloNames'
  <2>1. CASE shared
    BY <1>2, <2>1, Zenon DEF SoloNames
  <2>2. CASE ~shared
    <3>1. p = Solo
      BY <1>2, <2>2, Zenon DEF Serving
    <3>2. ASSUME NEW n \in Names, registerUser(p, n) PROVE SoloNames'
      <4>1. byName[p][n] = None /\ UNCHANGED memory
        BY <3>2, Zenon DEF registerUser, Taken
      <4>2. call'[p].user.name = n
        BY <1>1, <3>2, Zenon DEF registerUser, UserTypes, User
      <4>3. Solo \notin offline => ~Registered(n)
        BY <1>1, <2>2, <3>1, <4>1, Zenon DEF SoloNames, Registered
      <4> QED
        BY <1>1, <1>2, <2>2, <3>1, <4>1, <4>2, <4>3, Zenon DEF SoloNames, Registered
    <3>3. ASSUME NEW i \in Ids, disable(p, i) PROVE SoloNames'
      <4>1. call'[p] \notin Registering
        BY <1>1, <3>3 DEF disable, UserTypes, Registering
      <4>2. memory[p][i] \in Record /\ memory' = [memory EXCEPT ![p][i].enabled = FALSE]
        BY <1>1, <3>3 DEF disable, UserTypes, UserOrNone
      <4>3. \A j \in Ids : memory'[p][j].name = memory[p][j].name
        BY <1>1, <4>2, Zenon DEF UserTypes, Record
      <4> QED
        BY <1>1, <1>2, <2>2, <3>1, <4>1, <4>3, Zenon DEF SoloNames
    <3> QED
      BY <3>2, <3>3, Zenon
  <2> QED
    BY <2>1, <2>2, Zenon
<1> QED
  BY <1>2, <1>4, <1>5, NamesKeep, Zenon

\* Sessions do not touch names; without a shared store nothing is learned.
LEMMA SessionNames ==
  ASSUME UserInv, NamesInv, NEW t \in Tokens,
         \/ \E p \in Procs : (\E n \in Names : login(p, n, t)) \/ authenticate(p, t) \/ logout(p, t)
         \/ expire(t)
  PROVE  NamesInv'
<1>1. UserTypes /\ SoloNames
  BY Zenon DEF UserInv, NamesInv
<1>2. UNCHANGED <<shared, disk, call, registered, offline>>
  BY Zenon DEF login, authenticate, logout, expire, SessionRest
<1>3. store' = store \/ \E i : store' = [store EXCEPT !.sessions[t] = i]
  BY Zenon DEF login, authenticate, logout, expire, Wrote, WriteLost
<1>4. store'.names = store.names
  BY <1>1, <1>3, Zenon DEF UserTypes, StoreType
<1>5. ~shared => UNCHANGED <<memory, byName>>
  <2>1. ASSUME NEW p, NEW i, ~shared, Load(p, i) PROVE UNCHANGED <<memory, byName>>
    BY <2>1, Zenon DEF Load, Loaded, Learns
  <2>2. ASSUME NEW p \in Procs, NEW n \in Names, login(p, n, t) PROVE \E i : Load(p, i)
    BY <2>2, Zenon DEF login
  <2>3. ASSUME NEW p \in Procs, authenticate(p, t) PROVE \E i : Load(p, i)
    BY <2>3, Zenon DEF authenticate
  <2>4. ASSUME NEW p \in Procs, logout(p, t) PROVE UNCHANGED <<memory, byName>>
    BY <2>4, Zenon DEF logout
  <2>5. expire(t) => UNCHANGED <<memory, byName>>
    BY Zenon DEF expire
  <2> QED
    BY <2>1, <2>2, <2>3, <2>4, <2>5, Zenon
<1>6. \A m \in Names, q \in Procs : Owns(q, m)' => Owns(q, m)
  BY <1>2, Zenon DEF Owns
<1>7. SoloNames'
  BY <1>1, <1>2, <1>5, Zenon DEF SoloNames, Registered
<1> QED
  BY <1>2, <1>4, <1>6, <1>7, NamesKeep, Zenon

\* A restart: the storage has every name that was registered.
LEMMA RestartNames ==
  ASSUME UserInv, NamesInv, HasHighest, NEW p \in Procs, restart(p)
  PROVE  NamesInv'
<1>1. UserTypes /\ SoloNames
  BY Zenon DEF UserInv, NamesInv
<1>2. UNCHANGED <<shared, store, disk, registered>> /\ Serving(p)
  BY Zenon DEF restart
<1>3. call'[p] = Idle /\ \A q \in Procs : q # p => call'[q] = call[q]
  BY <1>1, Zenon DEF restart, UserTypes
<1>4. \A m \in Names, q \in Procs : Owns(q, m)' => Owns(q, m)
  BY <1>1, <1>3, OwnsKeep, Zenon
<1>5. SoloNames'
  <2> SUFFICES ASSUME ~shared, Solo \notin offline' PROVE SoloNames'
    BY <1>2, Zenon DEF SoloNames
  <2>1. p = Solo /\ Idle \notin Registering
    BY <1>2, Zenon DEF Serving, Idle, Registering
  <2>2. /\ memory' = [memory EXCEPT ![p] = disk[p]] /\ offline' = offline
        /\ byName' = [byName EXCEPT ![p] = [n \in Names |-> Highest({None} \cup Known(disk[p], n))]]
    BY <2>1, Zenon DEF restart
  <2>3. memory'[p] = disk[p] /\ \A n \in Names : byName'[p][n] = Highest({None} \cup Known(disk[p], n))
    BY <1>1, <2>2, Zenon DEF UserTypes
  <2>4. ASSUME NEW n \in Names, NEW i \in Ids, <<n, i>> \in registered
        PROVE  byName'[p][n] # None /\ memory'[p][i].name = n /\ disk[p][i].name = n
    <3>1. disk[p][i].name = n
      BY <1>1, <2>1, <2>2, <2>4, Zenon DEF SoloNames
    <3>2. PICK S : S = {None} \cup Known(disk[p], n)
      BY Zenon
    <3>3. S \in SUBSET (0..MaxIds) /\ S # {} /\ i \in S
      BY <1>1, <3>1, <3>2 DEF UserTypes, Configured, Known, Ids, None
    <3>4. PICK m \in 0..MaxIds : m = Highest(S) /\ m >= i
      BY <3>3, MaxFacts, Zenon
    <3>5. m # None
      BY <1>1, <3>4 DEF UserTypes, Configured, Ids, None
    <3>6. byName'[p][n] = m
      BY <2>3, <3>2, <3>4, Zenon
    <3> QED
      BY <2>3, <3>1, <3>5, <3>6, Zenon
  <2> QED
    BY <1>2, <1>3, <2>1, <2>4, Zenon DEF SoloNames
<1> QED
  BY <1>2, <1>4, <1>5, NamesKeep, Zenon

\* Every step keeps the names' invariant.
LEMMA NamesStep ==
  ASSUME UserInv, NamesInv, HasHighest, [UserNext]_userVars
  PROVE  NamesInv'
<1>1. CASE UNCHANGED userVars
  <2>1. UNCHANGED <<shared, store, disk, memory, byName, call, registered, offline>>
    BY <1>1, Zenon DEF userVars
  <2>2. SharedNames'
    BY <2>1, Zenon DEF NamesInv, SharedNames, Owns, Registered
  <2>3. SoloNames'
    BY <2>1, Zenon DEF NamesInv, SoloNames, Registered
  <2>4. NamesAreUnique'
    BY <2>1, Zenon DEF NamesInv, NamesAreUnique
  <2> QED
    BY <2>2, <2>3, <2>4, Zenon DEF NamesInv
<1>2. ASSUME NEW p \in Procs,
             (\E n \in Names : registerUser(p, n)) \/ (\E i \in Ids : disable(p, i))
      PROVE  NamesInv'
  BY <1>2, BeginNames, Zenon
<1>3. ASSUME NEW p \in Procs, claim(p) PROVE NamesInv'
  BY <1>3, ClaimNames, Zenon
<1>4. ASSUME NEW p \in Procs, setUser(p) \/ dropName(p) \/ dropUser(p) PROVE NamesInv'
  BY <1>4, StoreNames, Zenon
<1>5. ASSUME NEW p \in Procs, persistName(p) \/ persistRecord(p) \/ persistDisk(p) PROVE NamesInv'
  BY <1>5, PersistNames, Zenon
<1>6. ASSUME NEW p \in Procs, restart(p) PROVE NamesInv'
  BY <1>6, RestartNames, Zenon
<1>7. ASSUME NEW t \in Tokens,
             \/ \E p \in Procs : (\E n \in Names : login(p, n, t)) \/ authenticate(p, t) \/ logout(p, t)
             \/ expire(t)
      PROVE  NamesInv'
  BY <1>7, SessionNames, Zenon
<1> QED
  BY <1>1, <1>2, <1>3, <1>4, <1>5, <1>6, <1>7, Zenon DEF UserNext

\* At first no name is taken.
LEMMA NamesStart ==
  ASSUME UserInit
  PROVE  NamesInv
<1>1. registered = {} /\ \A p \in Procs : call[p] = Idle
  BY Zenon DEF UserInit
<1>2. Idle \notin Registering
  BY Zenon DEF Idle, Registering
<1>3. SharedNames /\ NamesAreUnique
  BY <1>1, <1>2, Zenon DEF SharedNames, NamesAreUnique, Owns, Registered
<1>4. SoloNames
  BY <1>1, Zenon DEF SoloNames, Registered
<1> QED
  BY <1>3, <1>4, Zenon DEF NamesInv

-----------------------------------------------------------------------------
INSTANCE WellFoundedInduction

\* Ids are bounded, so a set of them has a highest one.
LEMMA HighestId ==
  ASSUME MaxIds \in Nat
  PROVE  HasHighest
<1> SUFFICES ASSUME NEW S \in SUBSET (0..MaxIds), S # {}
             PROVE  \E x \in S : \A y \in S : x >= y
  BY Zenon DEF HasHighest
<1>1. PICK T : T = {MaxIds - x : x \in S}
  BY Zenon
<1>2. T \subseteq Nat /\ T # {}
  <2>1. \A x \in 0..MaxIds : MaxIds - x \in Nat
    OBVIOUS
  <2> QED
    BY <1>1, <2>1, Zenon
<1>3. PICK m \in T : \A y \in T : <<y, m>> \notin OpToRel(<, Nat)
  BY <1>2, NatLessThanWellFounded, WFMin, Zenon
<1>4. \A y \in T : ~(y < m)
  BY <1>2, <1>3, Zenon DEF OpToRel
<1>5. PICK x \in S : m = MaxIds - x
  BY <1>1, Zenon
<1>6. \A y \in S : MaxIds - y \in T
  BY <1>1, Zenon
<1> QED
  BY <1>2, <1>4, <1>5, <1>6

\* The constants are as configured.
LEMMA UserConfigured == Configured /\ HasHighest
  BY UserAssumption, HighestId, Zenon DEF Configured

\* No name is registered twice, whatever processes register it together, whichever
\* writes fail with or without effect, and whenever a process restarts
\* (user_service.cc:49-90).
THEOREM NamesAlwaysUnique == UserSpec => []NamesAreUnique
<1>1. UserInit => UserInv /\ NamesInv
  BY UserConfigured, UserStart, NamesStart, Zenon
<1>2. UserInv /\ NamesInv /\ [UserNext]_userVars => (UserInv /\ NamesInv)'
  BY UserConfigured, UserStep, NamesStep, Zenon
<1>3. NamesInv => NamesAreUnique
  BY Zenon DEF NamesInv
<1> QED
  BY <1>1, <1>2, <1>3, PTL DEF UserSpec

\* A token that was logged out or expired is accepted by no process again, and a
\* process that disabled a user refuses every token of that user, for any number of
\* processes, failed writes and restarts (user_service.cc:134-199).
THEOREM RefusedAlways == UserSpec => []RefusedForGood
<1>1. UserInit => UserInv
  BY UserConfigured, UserStart, Zenon
<1>2. UserInv /\ [UserNext]_userVars => UserInv'
  BY UserConfigured, UserStep, Zenon
<1> QED
  BY <1>1, <1>2, UsersRefused, PTL DEF UserSpec
=============================================================================
