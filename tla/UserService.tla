---------------------------- MODULE UserService -----------------------------
(***************************************************************************)
(* UserService (src/business/user/user_service.cc): registration, sessions  *)
(* and disabling of users.  A process keeps users in memory and in its own  *)
(* local storage; with a shared store (Redis) several processes also share  *)
(* names, users and sessions.  A mutex runs one call of a process at a      *)
(* time, but registration and disabling make several writes, each visible   *)
(* to the other processes; a write may fail with or without having taken    *)
(* effect, and a process may die and restore itself from its storage.       *)
(* Passwords and roles are left out: no state depends on them.              *)
(***************************************************************************)
EXTENDS Integers, FiniteSets

CONSTANTS Procs,        \* server processes
          Solo,         \* the one that runs without a shared store
          Names,        \* user names
          MaxIds,       \* bound: user ids that are ever made
          Tokens,       \* session tokens, each handed out once
          MaxBreaks     \* bound: failed writes and crashes

ASSUME UserAssumption ==
  Solo \in Procs /\ 0 \notin Names /\ MaxIds \in Nat /\ MaxBreaks \in Nat

VARIABLES
  shared,      \* session_store_ is configured
  store,       \* the shared store: names, users and sessions
  memory,      \* users_by_id_ of each process
  byName,      \* id_by_username_ of each process
  disk,        \* "users/" in the storage of each process
  sessions,    \* user_id_by_token_ of each process
  nextId,      \* next_user_id_ of each process; with a shared store, ids are random
  call,        \* the registration or disabling each process is in
  registered,  \* <<name, id>> of acknowledged registrations
  disabled,    \* <<process, id>> of acknowledged disablings
  ended,       \* tokens whose logout was acknowledged or that expired
  offline,     \* processes whose restore failed
  breaks

userVars == <<shared, store, memory, byName, disk, sessions, nextId, call, registered,
              disabled, ended, offline, breaks>>

Ids == 1..MaxIds
None == 0
User(n, on) == [name |-> n, enabled |-> on]
NoUser == User(None, FALSE)
NoUsers == [i \in Ids |-> NoUser]
NoNames == [n \in Names |-> None]
Idle == [pc |-> "idle"]

UserInit ==
  /\ shared \in BOOLEAN
  /\ store = [names |-> NoNames, users |-> NoUsers,
              sessions |-> [t \in Tokens |-> None]]
  /\ memory = [p \in Procs |-> NoUsers] /\ disk = [p \in Procs |-> NoUsers]
  /\ byName = [p \in Procs |-> NoNames]
  /\ sessions = [p \in Procs |-> [t \in Tokens |-> None]]
  /\ nextId = [p \in Procs |-> 1] /\ call = [p \in Procs |-> Idle]
  /\ registered = {} /\ disabled = {} /\ ended = {} /\ offline = {}
  /\ breaks = 0

-----------------------------------------------------------------------------
Serving(p) == p \notin offline /\ (shared \/ p = Solo)
Break == breaks < MaxBreaks /\ breaks' = breaks + 1
NoBreak == UNCHANGED breaks
Known(users, n) == {i \in Ids : users[i].name = n}

Highest(S) == CHOOSE m \in S : \A k \in S : m >= k

\* A write to the shared store whose reply arrives, or one that reports an error.
Wrote(effect) == store' = effect /\ NoBreak
WriteLost(effect) == store' \in {store, effect} /\ Break

CallTo(p, pc) == call' = [call EXCEPT ![p] = IF pc = "idle" THEN Idle ELSE [@ EXCEPT !.pc = pc]]
CallRest == UNCHANGED <<shared, byName, sessions, registered, disabled, ended, offline>>

\* The id of a new user: the counter, or one that was never drawn before.
NewId(p) ==
  IF shared THEN 1 + Highest({0} \cup {i \in Ids : \E q \in Procs : nextId[q] > i})
            ELSE nextId[p]

\* The name is known to this process.
Taken(p, n) == byName[p][n] # None

\* registerUser, up to the first write.  A failed look-up in the shared store does
\* not end the call.
registerUser(p, n) ==
  /\ Serving(p) /\ call[p] = Idle /\ ~Taken(p, n) /\ NewId(p) \in Ids
  /\ \/ ~shared /\ NoBreak
     \/ shared /\ store.names[n] = None /\ NoBreak
     \/ shared /\ Break
  /\ call' = [call EXCEPT ![p] = [pc |-> IF shared THEN "claim" ELSE "disk",
                kind |-> "register", id |-> NewId(p), user |-> User(n, TRUE)]]
  /\ nextId' = [nextId EXCEPT ![p] = NewId(p) + 1]
  /\ UNCHANGED <<store, memory, disk>> /\ CallRest

\* Mutant: the name is claimed with a plain write.
ClaimByWrite(p) ==
  LET c == call[p] IN
  /\ c.pc = "claim" /\ CallRest /\ UNCHANGED <<memory, disk, nextId>>
  /\ Wrote([store EXCEPT !.names[c.user.name] = c.id]) /\ CallTo(p, "user")

\* The compare-and-set on the name.
claim(p) ==
  LET c       == call[p]
      new     == store.names[c.user.name] = None
      claimed == IF new THEN [store EXCEPT !.names[c.user.name] = c.id] ELSE store
  IN
  /\ c.pc = "claim" /\ CallRest /\ UNCHANGED <<memory, disk, nextId>>
  /\ \/ Wrote(claimed) /\ CallTo(p, IF new THEN "user" ELSE "idle")
     \/ WriteLost(claimed) /\ CallTo(p, "idle")

\* The user's record; when it fails the name is given back.
setUser(p) ==
  LET written == [store EXCEPT !.users[call[p].id] = call[p].user] IN
  /\ call[p].pc = "user" /\ CallRest /\ UNCHANGED <<memory, disk, nextId>>
  /\ \/ Wrote(written) /\ CallTo(p, "name")
     \/ WriteLost(written) /\ CallTo(p, "dropName")

\* disable: only a user this process holds in memory, which changes first.
disable(p, i) ==
  /\ Serving(p) /\ call[p] = Idle /\ memory[p][i] # NoUser /\ <<p, i>> \notin disabled
  /\ memory' = [memory EXCEPT ![p][i].enabled = FALSE]
  /\ call' = [call EXCEPT ![p] = [pc |-> IF shared THEN "name" ELSE "disk",
                kind |-> "disable", id |-> i, user |-> User(memory[p][i].name, FALSE),
                previous |-> memory[p][i].enabled]]
  /\ NoBreak /\ UNCHANGED <<shared, store, byName, disk, sessions, nextId, registered, disabled, ended, offline>>

\* A failed persist: the registration is undone, the disabled user enabled again.
PersistFailed(p) ==
  LET c == call[p] IN
  /\ CallTo(p, IF c.kind = "register" /\ shared THEN "dropBoth" ELSE "idle")
  /\ memory' = IF c.kind = "disable"
               THEN [memory EXCEPT ![p][c.id].enabled = c.previous] ELSE memory
  /\ nextId' = IF c.kind = "register" /\ ~shared
               THEN [nextId EXCEPT ![p] = @ - 1] ELSE nextId

\* persist: the name, the record, then the local storage.
persistName(p) ==
  LET written == [store EXCEPT !.names[call[p].user.name] = call[p].id] IN
  /\ call[p].pc = "name" /\ CallRest /\ UNCHANGED disk
  /\ \/ Wrote(written) /\ CallTo(p, "record") /\ UNCHANGED <<memory, nextId>>
     \/ WriteLost(written) /\ PersistFailed(p)

persistRecord(p) ==
  LET written == [store EXCEPT !.users[call[p].id] = call[p].user] IN
  /\ call[p].pc = "record" /\ CallRest /\ UNCHANGED disk
  /\ \/ Wrote(written) /\ CallTo(p, "disk") /\ UNCHANGED <<memory, nextId>>
     \/ WriteLost(written) /\ PersistFailed(p)

\* What the storage gives back for a user: serialize, then deserialize.
Stored(u) == User(u.name, u.enabled)

persistDisk(p) ==
  LET c       == call[p]
      written == [disk EXCEPT ![p][c.id] = Stored(c.user)]
  IN
  /\ c.pc = "disk" /\ UNCHANGED <<shared, store, ended, offline>>
  /\ \/ /\ disk' = written /\ CallTo(p, "idle") /\ NoBreak
        /\ memory' = [memory EXCEPT ![p][c.id] = c.user]
        /\ byName' = IF c.kind = "register" THEN [byName EXCEPT ![p][c.user.name] = c.id] ELSE byName
        /\ registered' = IF c.kind = "register" THEN registered \cup {<<c.user.name, c.id>>} ELSE registered
        /\ disabled' = IF c.kind = "disable" THEN disabled \cup {<<p, c.id>>} ELSE disabled
        /\ sessions' = IF c.kind = "disable"
             THEN [sessions EXCEPT ![p] = [t \in Tokens |-> IF @[t] = c.id THEN None ELSE @[t]]]
             ELSE sessions
        /\ UNCHANGED nextId
     \/ /\ disk' \in {disk, written} /\ Break /\ PersistFailed(p)
        /\ UNCHANGED <<byName, registered, disabled, sessions>>

\* registerUser, undo: the outcome of the deletions is not looked at.
dropName(p) ==
  LET dropped == [store EXCEPT !.names[call[p].user.name] = None] IN
  /\ call[p].pc \in {"dropName", "dropBoth"} /\ CallRest
  /\ Wrote(dropped) \/ WriteLost(dropped)
  /\ CallTo(p, IF call[p].pc = "dropBoth" THEN "dropUser" ELSE "idle")
  /\ UNCHANGED <<memory, disk, nextId>>

dropUser(p) ==
  LET dropped == [store EXCEPT !.users[call[p].id] = NoUser] IN
  /\ call[p].pc = "dropUser" /\ CallRest
  /\ Wrote(dropped) \/ WriteLost(dropped)
  /\ CallTo(p, "idle")
  /\ UNCHANGED <<memory, disk, nextId>>

-----------------------------------------------------------------------------
SessionRest == UNCHANGED <<shared, disk, nextId, call, registered, disabled, offline>>

\* A user of the shared store that memory does not know yet is learned.
Learns(p, i) == shared /\ memory[p][i] = NoUser /\ store.users[i] # NoUser
Loaded(p, i) == IF Learns(p, i) THEN [memory EXCEPT ![p][i] = store.users[i]] ELSE memory
Load(p, i) ==
  /\ memory' = Loaded(p, i)
  /\ byName' = IF Learns(p, i) THEN [byName EXCEPT ![p][store.users[i].name] = i] ELSE byName
FreshToken(t) == t \notin ended /\ store.sessions[t] = None /\ \A p \in Procs : sessions[p][t] = None

\* login by name: memory, else the shared store; a disabled user or a wrong password
\* is refused, but the user is learned; the session is valid only once the shared
\* store has it.
login(p, n, t) ==
  /\ Serving(p) /\ call[p] = Idle /\ FreshToken(t)
  /\ \E i \in {IF byName[p][n] # None THEN byName[p][n] ELSE store.names[n]} \ {None} :
       LET opened == [store EXCEPT !.sessions[t] = i] IN
       /\ Load(p, i)
       /\ \/ /\ memory'[p][i].enabled
             /\ IF shared THEN Wrote(opened) ELSE NoBreak /\ UNCHANGED store
             /\ sessions' = [sessions EXCEPT ![p][t] = i]
          \/ memory'[p][i].enabled /\ shared /\ WriteLost(opened) /\ UNCHANGED sessions
          \/ Learns(p, i) /\ NoBreak /\ UNCHANGED <<store, sessions>>
  /\ UNCHANGED ended /\ SessionRest

\* Mutant: a process trusts the sessions it opened itself.
SessionKeptInMemory(p, t) == IF sessions[p][t] # None THEN sessions[p][t] ELSE store.sessions[t]

\* Whom a process takes the token's bearer for.
SessionUser(p, t) == IF shared THEN store.sessions[t] ELSE sessions[p][t]

\* authenticate accepts the token.
Accepts(p, t) ==
  LET i == SessionUser(p, t) IN i # None /\ LET u == Loaded(p, i)[p][i] IN u.enabled

\* authenticate: what changes is the memory, which learns the user.
authenticate(p, t) ==
  /\ Serving(p) /\ call[p] = Idle /\ SessionUser(p, t) # None
  /\ Learns(p, SessionUser(p, t)) /\ Load(p, SessionUser(p, t))
  /\ NoBreak /\ UNCHANGED <<store, sessions, ended>> /\ SessionRest

logout(p, t) ==
  LET closed == [store EXCEPT !.sessions[t] = None] IN
  /\ Serving(p) /\ call[p] = Idle /\ SessionUser(p, t) # None
  /\ \/ /\ IF shared THEN Wrote(closed) ELSE NoBreak /\ UNCHANGED store
        /\ sessions' = [sessions EXCEPT ![p][t] = None]
        /\ ended' = ended \cup {t}
     \/ shared /\ WriteLost(closed) /\ UNCHANGED <<sessions, ended>>
  /\ UNCHANGED <<memory, byName>> /\ SessionRest

\* The time to live of a session ends, in the store or, without one, by the expiry
\* authenticate compares with the clock.
expire(t) ==
  /\ \E p \in Procs : SessionUser(p, t) # None
  /\ store' = [store EXCEPT !.sessions[t] = None]
  /\ sessions' = IF shared THEN sessions ELSE [p \in Procs |-> [sessions[p] EXCEPT ![t] = None]]
  /\ ended' = ended \cup {t}
  /\ NoBreak /\ UNCHANGED <<memory, byName>> /\ SessionRest

\* A process dies; restore reads its storage and fails on two users of one name.
restart(p) ==
  /\ Serving(p) /\ Break
  /\ call' = [call EXCEPT ![p] = Idle]
  /\ sessions' = [sessions EXCEPT ![p] = [t \in Tokens |-> None]]
  /\ IF \E n \in Names : Cardinality(Known(disk[p], n)) > 1
     THEN /\ offline' = offline \cup {p}
          /\ memory' = [memory EXCEPT ![p] = NoUsers] /\ byName' = [byName EXCEPT ![p] = NoNames]
     ELSE /\ memory' = [memory EXCEPT ![p] = disk[p]] /\ UNCHANGED offline
          /\ byName' = [byName EXCEPT ![p] =
                          [n \in Names |-> Highest({None} \cup Known(disk[p], n))]]
  /\ nextId' = IF shared THEN nextId
               ELSE [nextId EXCEPT ![p] = 1 + Highest({0} \cup {i \in Ids : disk[p][i] # NoUser})]
  /\ UNCHANGED <<shared, store, disk, registered, disabled, ended>>

UserNext ==
  \/ \E p \in Procs :
       \/ \E n \in Names : registerUser(p, n) \/ \E t \in Tokens : login(p, n, t)
       \/ claim(p) \/ setUser(p) \/ persistName(p) \/ persistRecord(p) \/ persistDisk(p)
       \/ dropName(p) \/ dropUser(p) \/ restart(p)
       \/ \E i \in Ids : disable(p, i)
       \/ \E t \in Tokens : authenticate(p, t) \/ logout(p, t)
  \/ \E t \in Tokens : expire(t)

UserSpec == UserInit /\ [][UserNext]_userVars

-----------------------------------------------------------------------------
\* No name is registered twice: two processes that register it at the same time,
\* failed writes that took effect, and restarts included (user_service.cc:49-90).
NamesAreUnique ==
  \A r, s \in registered : r[1] = s[1] => r = s

\* What was refused stays refused.  A token whose logout was acknowledged, or that
\* expired, is accepted by no process again (user_service.cc:134-178); and the
\* process that acknowledged disabling a user refuses every token of that user, also
\* after a restart and for sessions another process opened (163, 180-199).
RefusedForGood ==
  /\ \A t \in ended, p \in Procs : ~Accepts(p, t)
  /\ \A t \in Tokens, d \in disabled :
       (d[1] \notin offline /\ SessionUser(d[1], t) = d[2]) => ~Accepts(d[1], t)

=============================================================================
