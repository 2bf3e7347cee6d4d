------------------------------ MODULE Network ------------------------------
(***************************************************************************)
(* The part of Casambi.connect() before the Bluetooth link: the cache      *)
(* directory with its global lock (_cache.py), the key store               *)
(* (_keystore.py), and the login, update and fixtures of a network         *)
(* (_network.py).  Several Casambi objects of one process, for one network *)
(* and one directory, call connect() beside each other; a call may be      *)
(* cancelled, the process may crash and start again.                       *)
(*                                                                         *)
(* at[i] is the await of call i: a critical section of _cacheLock, named   *)
(* for what it reads or writes, or a request.  The server counts the       *)
(* changes of the network (rev) and those of its password (gen); a key is  *)
(* known by its id, role and the gen it was made at, a session by the      *)
(* login that granted it.                                                  *)
(***************************************************************************)
EXTENDS TaskQueue

CONSTANTS
  Instances,     \* Casambi objects
  None, Torn,    \* no file; a file whose writing was cut off by a crash
  Orphan,        \* owns the lock that nobody can release
  RenewUnderId,  \* a renewed key keeps its id
  MaxCalls, MaxEvents \* bounds: calls; faults, renewals, cancellations, crashes

ASSUME OrphanAssumption == Orphan \notin Instances
ASSUME FlagAssumption == RenewUnderId \in BOOLEAN
ASSUME BoundsAssumption == {MaxCalls, MaxEvents} \subseteq Nat

\* What the files hold; one that is not there or is torn holds nothing.
Key == [id : Nat, role : 0..3, gen : Nat]
Net == [rev : Nat, gen : Nat]
Fixture == {"unknown", "fetched", "refused"}
ASSUME FilesAssumption ==
  None # Torn /\ {None, Torn} \cap (Nat \cup Seq(Key) \cup Fixture \cup Net) = {}

VARIABLES
  at,       \* of each call: where it is suspended, or "idle"
  lockQ,    \* _cacheLock: its holder, then its waiters
  ready,    \* the holder is past __aenter__ or _ensureCacheValid
  deleter,  \* a deletion goes on in the executor after its call was cancelled
  files,    \* the cache directory
  mem,      \* the Network object of each call under way
  pw,       \* of each instance: the gen of the password it was given
  server,   \* [rev, gen] of the network
  granted,  \* the gen at each login
  expired,  \* the sessions that expired
  alone,    \* history: nothing went wrong and nobody interfered since it began
  failures, \* history: since the last renewal, consecutive calls that failed all the same
  purged,   \* history: the cache was invalidated after the last renewal, alone
  calls, events

callVars == <<at, mem, alone, failures>>
lockVars == <<lockQ, ready>>
diskVars == <<deleter, files>>
serverVars == <<server, granted, expired>>
vars == <<callVars, lockVars, diskVars, serverVars, pw, purged, calls, events>>

Reading == {"keys", "session", "types", "netid", "net"}
Writing == {"saveId", "saveSession", "saveNet", "saveKeys", "saveTypes"}
Locked == {"uuid", "invalidate"} \cup Reading \cup Writing
Requests == {"getId", "login", "put", "fixture"}

NoEntry == [id |-> None, session |-> None, keys |-> None, types |-> None, net |-> None]
NoNet == [rev |-> 0, gen |-> 0]

\* A new Network: `types` is the cached answer for the fixture of a unit; the
\* server told something newer than `since`, or nothing.
NewNetwork(offline, rev) ==
  [offline |-> offline, since |-> rev, id |-> FALSE, session |-> 0, keys |-> <<>>,
   types |-> "unknown", net |-> NoNet, todo |-> <<>>, told |-> FALSE]

\* The keys the server lists: one that stays and one renewed with the password.
OldKey == [id |-> 1, role |-> 1, gen |-> 1]
NewKey(gen) == [id |-> IF RenewUnderId THEN 2 ELSE gen + 1, role |-> 3, gen |-> gen]

\* KeyStore.getKey: the first key of the highest role.
GetKey(keys) ==
  keys[CHOOSE i \in DOMAIN keys : \A j \in DOMAIN keys :
         keys[j].role < keys[i].role \/ (keys[j].role = keys[i].role /\ i <= j)]

Init ==
  /\ at = [i \in Instances |-> "idle"] /\ lockQ = <<>> /\ ready = FALSE
  /\ deleter = FALSE
  /\ \E v \in {"absent", "old"} : files = [ver |-> v, entry |-> FALSE, data |-> NoEntry]
  /\ mem = [i \in Instances |-> NewNetwork(FALSE, 0)] /\ pw = [i \in Instances |-> 1]
  /\ server = [rev |-> 1, gen |-> 1] /\ granted = <<>> /\ expired = {}
  /\ alone = [i \in Instances |-> FALSE] /\ failures = [i \in Instances |-> 0]
  /\ purged = FALSE /\ calls = 0 /\ events = 0

-----------------------------------------------------------------------------
(* The lock and the directory.                                             *)

Holds(i) == lockQ # <<>> /\ Head(lockQ) = i
In(i, s) == at[i] = s /\ Holds(i) /\ ready

\* _ensureCacheValid: a directory of an older version, or whose version cannot
\* be read, is deleted with all entries and made again.
EnsureCacheValid(f) ==
  IF f.ver = "ok" THEN f ELSE [ver |-> "ok", entry |-> FALSE, data |-> NoEntry]

\* What a crash or a cancellation leaves of it.
HalfValid(f) ==
  {f} \cup IF f.ver = "ok" THEN {}
           ELSE [ver : {"absent", "none", "torn"}, entry : {FALSE}, data : {NoEntry}]

Deleted(f) == [f EXCEPT !.entry = FALSE, !.data = NoEntry]

\* The call goes on: to the next critical section, or to a request.
Goto(i, s) == at' = [at EXCEPT ![i] = s]
Release(i) == lockQ' = Tail(lockQ) /\ ready' = FALSE
Relock(i, s) == Goto(i, s) /\ lockQ' = Append(Tail(lockQ), i) /\ ready' = FALSE
Unlocked(i, s) == Goto(i, s) /\ Release(i)
Lock(i, s) == Goto(i, s) /\ lockQ' = Append(lockQ, i) /\ UNCHANGED ready

\* The call is "done", or raises the error named.
End(i, how) ==
  /\ Goto(i, "idle") /\ mem' = [mem EXCEPT ![i] = NewNetwork(FALSE, 0)]
  /\ failures' = [failures EXCEPT ![i] = IF how = "done" \/ ~alone[i] THEN 0 ELSE @ + 1]
  /\ alone' = [alone EXCEPT ![i] = FALSE]
EndLocked(i, how) == End(i, how) /\ Release(i)
Goes == UNCHANGED <<alone, failures>>

Learns(i, field, value) == mem' = [mem EXCEPT ![i][field] = value]

\* __aenter__, or _ensureCacheValid alone in invalidateCache.
Enter(i) ==
  /\ Holds(i) /\ ~ready /\ at[i] \in Locked \ {"uuid"}
  /\ ready' = TRUE
  /\ files' = [EnsureCacheValid(files) EXCEPT !.entry = @ \/ at[i] # "invalidate"]
  /\ UNCHANGED <<callVars, lockQ, deleter, serverVars, pw, purged, calls, events>>

\* A fault of a request or of the server, with which the call goes on or raises.
Disturb ==
  /\ events < MaxEvents /\ events' = events + 1
  /\ alone' = [i \in Instances |-> FALSE]
Event == Disturb /\ UNCHANGED failures
NoEvent == Goes /\ UNCHANGED events
Breaks(i, how) ==
  /\ events < MaxEvents /\ events' = events + 1
  /\ Goto(i, "idle") /\ mem' = [mem EXCEPT ![i] = NewNetwork(FALSE, 0)]
  /\ alone' = [j \in Instances |-> FALSE] /\ failures' = [failures EXCEPT ![i] = 0]
  /\ UNCHANGED lockVars

-----------------------------------------------------------------------------
(* connect(): setUuid, load, getNetworkId.                                 *)

Undisturbed ==
  /\ \A j \in Instances : at[j] = "idle"
  /\ lockQ = <<>> /\ ~deleter /\ \A x \in DOMAIN files.data : files.data[x] # Torn

Begin(i, offline) ==
  /\ at[i] = "idle" /\ calls < MaxCalls /\ calls' = calls + 1
  /\ Lock(i, "uuid")
  /\ mem' = [mem EXCEPT ![i] = NewNetwork(offline, server.rev)]
  /\ alone' = [j \in Instances |-> j = i /\ Undisturbed /\ ~offline /\ pw[i] = server.gen]
  /\ UNCHANGED <<failures, diskVars, serverVars, pw, purged, events>>

SetUuid(i) ==
  /\ at[i] = "uuid" /\ Holds(i) /\ Relock(i, "keys")
  /\ UNCHANGED mem /\ Goes
  /\ UNCHANGED <<diskVars, serverVars, pw, purged, calls, events>>

\* Mutant: the lock is not released when the file cannot be read.
Load_LockKept(i, s, field, next) ==
  /\ In(i, s)
  /\ LET v == files.data[field]
     IN \/ v = Torn /\ End(i, "corrupt") /\ UNCHANGED lockVars
        \/ v = None /\ Relock(i, next) /\ Goes /\ UNCHANGED mem
        \/ v \notin {None, Torn} /\ Relock(i, next) /\ Goes /\ Learns(i, field, v)
  /\ UNCHANGED <<diskVars, serverVars, pw, purged, calls, events>>

\* Mutant: a file that is not there is read.
Load_Unchecked(i, s, field, next) ==
  /\ In(i, s)
  /\ LET v == files.data[field]
     IN \/ v = Torn /\ EndLocked(i, "corrupt")
        \/ v # Torn /\ Relock(i, next) /\ Goes /\ Learns(i, field, v)
  /\ UNCHANGED <<diskVars, serverVars, pw, purged, calls, events>>

\* The file of a section is read, if there is one; one that is torn raises.
Load(i, s, field, next) ==
  /\ In(i, s)
  /\ LET v == files.data[field]
     IN \/ v = Torn /\ EndLocked(i, "corrupt")
        \/ v = None /\ Relock(i, next) /\ Goes /\ UNCHANGED mem
        \/ v \notin {None, Torn} /\ Relock(i, next) /\ Goes /\ Learns(i, field, v)
  /\ UNCHANGED <<diskVars, serverVars, pw, purged, calls, events>>

LoadKeys(i) == Load(i, "keys", "keys", "session")
LoadSession(i) == Load(i, "session", "session", "types")
LoadTypes(i) == Load(i, "types", "types", "netid")

\* The first section of getNetworkId.  A torn id is an empty text, hence no id.
ReadId(i) ==
  /\ In(i, "netid")
  /\ LET known == files.data.id = 1
     IN \/ mem[i].offline /\ ~known /\ EndLocked(i, "needOnline")
        \/ mem[i].offline /\ known /\ Relock(i, "net") /\ Goes /\ Learns(i, "id", TRUE)
        \/ ~mem[i].offline /\ Unlocked(i, "getId") /\ Goes /\ Learns(i, "id", known)
  /\ UNCHANGED <<diskVars, serverVars, pw, purged, calls, events>>

\* logIn after getNetworkId: a session that has not expired is not questioned.
Authenticated(i) == mem[i].session # 0 /\ mem[i].session \notin expired
LogIn(i) ==
  /\ UNCHANGED mem
  /\ IF Authenticated(i) THEN Lock(i, "net") ELSE Goto(i, "login") /\ UNCHANGED lockVars

GetId(i) ==
  /\ at[i] = "getId"
  /\ \/ mem[i].id /\ LogIn(i) /\ NoEvent
     \/ ~mem[i].id /\ Lock(i, "saveId") /\ NoEvent /\ UNCHANGED mem
     \/ mem[i].id /\ LogIn(i) /\ Event
     \/ ~mem[i].id /\ Breaks(i, "needOnline")
     \/ Breaks(i, "notFound")
  /\ UNCHANGED <<diskVars, serverVars, pw, purged, calls>>

FileOf == [saveId |-> "id", saveSession |-> "session", saveNet |-> "net",
           saveKeys |-> "keys", saveTypes |-> "types"]
Contents(i) == [id |-> 1, session |-> mem[i].session, net |-> mem[i].net,
                keys |-> mem[i].keys, types |-> mem[i].types]

\* A write of the holder; its directory may have been deleted meanwhile.
Write(i) ==
  LET file == FileOf[at[i]]
  IN files.entry /\ files' = [files EXCEPT !.data[file] = Contents(i)[file]]
Unwritable(i) == ~files.entry /\ EndLocked(i, "corrupt") /\ UNCHANGED files

SaveId(i) ==
  /\ In(i, "saveId")
  /\ \/ /\ Write(i) /\ Learns(i, "id", TRUE) /\ Goes
        /\ IF Authenticated(i) THEN Relock(i, "net") ELSE Unlocked(i, "login")
     \/ Unwritable(i)
  /\ UNCHANGED <<deleter, serverVars, pw, purged, calls, events>>

-----------------------------------------------------------------------------
(* Login and update.                                                       *)

\* Another status is taken for a wrong password; a request that fails makes
\* connect() go on offline.
Login(i) ==
  /\ at[i] = "login"
  /\ \/ /\ pw[i] = server.gen /\ granted' = Append(granted, server.gen)
        /\ Learns(i, "session", Len(granted) + 1)
        /\ Lock(i, "saveSession") /\ NoEvent
     \/ /\ pw[i] # server.gen /\ End(i, "auth")
        /\ UNCHANGED <<granted, lockVars, events>>
     \/ Breaks(i, "auth") /\ UNCHANGED granted
     \/ Event /\ Learns(i, "offline", TRUE) /\ Lock(i, "net") /\ UNCHANGED granted
  /\ UNCHANGED <<diskVars, server, expired, pw, purged, calls>>

\* update() begins where logIn() ends and asks again whether it is logged in.
SaveSession(i) ==
  /\ In(i, "saveSession")
  /\ \/ /\ Write(i)
        /\ \/ Authenticated(i) /\ Relock(i, "net") /\ Goes /\ UNCHANGED mem
           \/ ~Authenticated(i) /\ EndLocked(i, "auth")
     \/ Unwritable(i)
  /\ UNCHANGED <<deleter, serverVars, pw, purged, calls, events>>

\* addKey for the keys that update() finds: one whose id is in the store is skipped.
Unstored(m, k) == IF \E j \in DOMAIN m.keys : m.keys[j].id = k.id THEN <<>> ELSE <<k>>
Parsed(m, net, told) ==
  [m EXCEPT !.net = net, !.told = told,
            !.todo = Unstored(m, OldKey) \o Unstored(m, NewKey(net.gen))]

\* The rest of update() up to the next suspension, the lock being q.  Each new
\* key is saved; then a cached answer for the fixture of a unit is used, or the
\* server is asked, even by a call that is to stay offline.
GoesOn(i, m, q) ==
  /\ ready' = (ready /\ ~Holds(i))
  /\ \/ /\ m.todo # <<>> /\ Goto(i, "saveKeys") /\ lockQ' = Append(q, i)
        /\ mem' = [mem EXCEPT ![i] =
             [m EXCEPT !.keys = Append(@, Head(m.todo)), !.todo = Tail(@)]]
     \/ /\ m.todo = <<>> /\ m.types # "unknown"
        /\ Goto(i, "saveTypes") /\ lockQ' = Append(q, i) /\ mem' = [mem EXCEPT ![i] = m]
     \/ /\ m.todo = <<>> /\ m.types = "unknown"
        /\ Goto(i, "fixture") /\ lockQ' = q /\ mem' = [mem EXCEPT ![i] = m]

ReadNet(i) ==
  /\ In(i, "net")
  /\ LET v == files.data.net
     IN \/ v = Torn /\ EndLocked(i, "corrupt")
        \/ v = None /\ mem[i].offline /\ EndLocked(i, "needOnline")
        \/ v = None /\ ~mem[i].offline /\ Unlocked(i, "put") /\ Goes /\ UNCHANGED mem
        \/ /\ v \notin {Torn, None} /\ Goes
           /\ \/ mem[i].offline /\ GoesOn(i, Parsed(mem[i], v, FALSE), Tail(lockQ))
              \/ ~mem[i].offline /\ Unlocked(i, "put") /\ Learns(i, "net", v)
  /\ UNCHANGED <<diskVars, serverVars, pw, purged, calls, events>>

Known(i) == granted[mem[i].session] = server.gen
Answers(i) ==
  /\ Known(i) /\ NoEvent
  /\ IF mem[i].net.rev = server.rev
     THEN GoesOn(i, Parsed(mem[i], mem[i].net, TRUE), lockQ)
     ELSE Lock(i, "saveNet") /\ mem' = [mem EXCEPT ![i] = Parsed(@, server, TRUE)]
PutFails(i) ==
  \/ Breaks(i, "update")
  \/ mem[i].net.rev # 0 /\ Event /\ GoesOn(i, Parsed(mem[i], mem[i].net, FALSE), lockQ)

\* Mutant: the cache of a network that is gone is kept.
Put_NotInvalidated(i) ==
  /\ at[i] = "put"
  /\ \/ ~Known(i) /\ End(i, "update") /\ UNCHANGED <<lockVars, events>>
     \/ Answers(i)
     \/ PutFails(i)
  /\ UNCHANGED <<diskVars, serverVars, pw, purged, calls>>

\* Mutant: the revision of the cached network is not compared.
Put_CacheKept(i) ==
  /\ at[i] = "put"
  /\ \/ ~Known(i) /\ Lock(i, "invalidate") /\ NoEvent /\ UNCHANGED mem
     \/ mem[i].net.rev = 0 /\ Answers(i)
     \/ /\ mem[i].net.rev # 0 /\ Known(i) /\ NoEvent
        /\ GoesOn(i, Parsed(mem[i], mem[i].net, TRUE), lockQ)
     \/ PutFails(i)
  /\ UNCHANGED <<diskVars, serverVars, pw, purged, calls>>

\* The request of update(): the session is of an old password (GONE) and the
\* cache is to be invalidated; the server sends a newer network, or says
\* UPTODATE; or it fails, and the cached network is used if there is one.
Put(i) ==
  /\ at[i] = "put"
  /\ \/ ~Known(i) /\ Lock(i, "invalidate") /\ NoEvent /\ UNCHANGED mem
     \/ Answers(i)
     \/ PutFails(i)
  /\ UNCHANGED <<diskVars, serverVars, pw, purged, calls>>

\* Mutant: invalidateCache leaves the keys.
Invalidate_KeysKept(i) ==
  /\ In(i, "invalidate") /\ EndLocked(i, "update")
  /\ files' = [files EXCEPT !.data = [NoEntry EXCEPT !.keys = files.data.keys]]
  /\ purged' = \A j \in Instances \ {i} : at[j] = "idle"
  /\ UNCHANGED <<deleter, serverVars, pw, calls, events>>

\* invalidateCache; update() raises after it.
Invalidate(i) ==
  /\ In(i, "invalidate") /\ EndLocked(i, "update")
  /\ files' = Deleted(files)
  /\ purged' = \A j \in Instances \ {i} : at[j] = "idle"
  /\ UNCHANGED <<deleter, serverVars, pw, calls, events>>

SaveNet(i) ==
  /\ In(i, "saveNet")
  /\ \/ Write(i) /\ GoesOn(i, mem[i], Tail(lockQ)) /\ Goes
     \/ Unwritable(i)
  /\ UNCHANGED <<deleter, serverVars, pw, purged, calls, events>>

-----------------------------------------------------------------------------
(* What update() does with the network: keys, units with their types.      *)

SaveKeys(i) ==
  /\ In(i, "saveKeys")
  /\ \/ Write(i) /\ GoesOn(i, mem[i], Tail(lockQ)) /\ Goes
     \/ Unwritable(i)
  /\ UNCHANGED <<deleter, serverVars, pw, purged, calls, events>>

\* A unit whose fixture is refused is left out; a request that fails raises.
FetchUnitInfo(i) ==
  /\ at[i] = "fixture"
  /\ \/ Learns(i, "types", "fetched") /\ Lock(i, "saveTypes") /\ NoEvent
     \/ Learns(i, "types", "refused") /\ Lock(i, "saveTypes") /\ Event
     \/ Breaks(i, "request")
  /\ UNCHANGED <<diskVars, serverVars, pw, purged, calls>>

SaveTypes(i) ==
  /\ In(i, "saveTypes")
  /\ \/ Write(i) /\ EndLocked(i, "done")
     \/ Unwritable(i)
  /\ UNCHANGED <<deleter, serverVars, pw, purged, calls, events>>

-----------------------------------------------------------------------------
(* Cancellations, crashes and the world.                                   *)

\* A call that is cut off.
Stops(I) ==
  /\ events < MaxEvents /\ events' = events + 1
  /\ at' = [i \in Instances |-> IF i \in I THEN "idle" ELSE at[i]]
  /\ mem' = [i \in Instances |-> IF i \in I THEN NewNetwork(FALSE, 0) ELSE mem[i]]
  /\ failures' = [i \in Instances |-> IF i \in I THEN 0 ELSE failures[i]]
  /\ alone' = [i \in Instances |-> FALSE]
  /\ UNCHANGED <<serverVars, pw, purged, calls>>

\* While __aenter__ prepares the directory, the lock is lost with the call that
\* is cancelled; a write or a deletion goes on in its thread without the lock (a
\* write is over before anybody reads).
Cancel(i) ==
  /\ at[i] # "idle" /\ Stops({i})
  /\ \/ /\ Holds(i) /\ ~ready /\ at[i] \in Reading \cup Writing
        /\ lockQ' = <<Orphan>> \o Tail(lockQ) /\ files' \in HalfValid(files)
        /\ UNCHANGED <<ready, deleter>>
     \/ /\ lockQ' = Without(lockQ, i) /\ ready' = (ready /\ ~Holds(i))
        /\ deleter' = (deleter \/ In(i, "invalidate"))
        /\ files' = files \/ (Holds(i) /\ ready /\ at[i] \in Writing /\ Write(i))

DeletionEnds ==
  /\ deleter /\ deleter' = FALSE /\ files' = Deleted(files)
  /\ UNCHANGED <<callVars, lockVars, serverVars, pw, purged, calls, events>>

\* The process ends in the middle of a write or of making the directory, and
\* starts again.
Crash ==
  /\ \E i \in Instances : at[i] # "idle"
  /\ Stops(Instances) /\ lockQ' = <<>> /\ ready' = FALSE /\ deleter' = FALSE
  /\ \/ files' = files
     \/ \E i \in Instances : Holds(i) /\ ~ready /\ files' \in HalfValid(files)
     \/ \E i \in Instances : /\ Holds(i) /\ ready /\ at[i] \in Writing /\ files.entry
                             /\ files' = [files EXCEPT !.data[FileOf[at[i]]] = Torn]

\* The network is changed; with its password, sessions end and keys are renewed.
Renew ==
  /\ Disturb
  /\ \/ /\ server' = [rev |-> server.rev + 1, gen |-> server.gen + 1]
        /\ purged' = FALSE /\ failures' = [i \in Instances |-> 0]
     \/ server' = [server EXCEPT !.rev = @ + 1] /\ UNCHANGED <<purged, failures>>
  /\ UNCHANGED <<at, mem, lockVars, diskVars, granted, expired, pw, calls>>

\* Time passes: a session or the cached answers for fixtures expire.
Expires ==
  /\ \/ /\ \E n \in 1..Len(granted) : n \notin expired /\ expired' = expired \cup {n}
        /\ UNCHANGED <<mem, files>>
     \/ /\ files.data.types \notin {None, Torn, "unknown"}
        /\ files' = [files EXCEPT !.data.types = "unknown"]
        /\ mem' = [i \in Instances |-> [mem[i] EXCEPT !.types = "unknown"]]
        /\ UNCHANGED expired
  /\ Event
  /\ UNCHANGED <<at, lockVars, deleter, server, granted, pw, purged, calls>>

EnterPassword(i) ==
  /\ at[i] = "idle" /\ pw[i] # server.gen /\ pw' = [pw EXCEPT ![i] = server.gen]
  /\ UNCHANGED <<callVars, lockVars, diskVars, serverVars, purged, calls, events>>

-----------------------------------------------------------------------------
CallStep(i) ==
  \/ SetUuid(i) \/ Enter(i) \/ LoadKeys(i) \/ LoadSession(i) \/ LoadTypes(i)
  \/ ReadId(i) \/ GetId(i) \/ SaveId(i) \/ Login(i) \/ SaveSession(i)
  \/ ReadNet(i) \/ Put(i) \/ Invalidate(i) \/ SaveNet(i)
  \/ SaveKeys(i) \/ FetchUnitInfo(i) \/ SaveTypes(i)

Next ==
  \/ \E i \in Instances : \/ CallStep(i) \/ Cancel(i) \/ EnterPassword(i)
                          \/ \E offline \in BOOLEAN : Begin(i, offline)
  \/ DeletionEnds \/ Crash \/ Renew \/ Expires

Spec == Init /\ [][Next]_vars

-----------------------------------------------------------------------------
(* Properties.                                                             *)

Data == [id : {None, Torn, 1}, session : {None, Torn} \cup Nat,
         keys : {None, Torn} \cup Seq(Key),
         types : {None, Torn} \cup Fixture, net : {None, Torn} \cup Net]

\* Every variable keeps its type.
TypeOK ==
  /\ at \in [Instances -> {"idle"} \cup Locked \cup Requests]
  /\ lockQ \in Seq(Instances \cup {Orphan}) /\ {ready, deleter, purged} \subseteq BOOLEAN
  /\ files \in [ver : {"absent", "none", "torn", "old", "ok"}, entry : BOOLEAN, data : Data]
  /\ mem \in [Instances -> [offline : BOOLEAN, since : Nat, id : BOOLEAN, session : Nat,
                keys : Seq(Key), types : Fixture,
                net : Net, todo : Seq(Key), told : BOOLEAN]]
  /\ pw \in [Instances -> Nat] /\ server \in Net /\ granted \in Seq(Nat)
  /\ expired \subseteq 1..Len(granted)
  /\ failures \in [Instances -> Nat] /\ alone \in [Instances -> BOOLEAN]
  /\ calls \in 0..MaxCalls /\ events \in 0..MaxEvents

\* The directory is prepared, read and written by the one holder of _cacheLock;
\* a call has a claim on the lock exactly while it is in a critical section, and
\* only a call cancelled in __aenter__ leaves the lock held.
CacheExclusive ==
  /\ Distinct(lockQ)
  /\ \A i \in Instances : InQ(lockQ, i) <=> at[i] \in Locked
  /\ ready => lockQ # <<>> /\ Head(lockQ) \in Instances

\* A call that the server answered ends with a network at least as new as the
\* server's when the call began.
AnswerIsFresh ==
  \A i \in Instances : at[i] = "saveTypes" /\ mem[i].told => mem[i].net.rev >= mem[i].since

\* A call with the right password, undisturbed, on files that no crash has torn,
\* fails at most once in a row, until the password changes again: what made it
\* fail is gone from the cache.
RetryHeals == \A i \in Instances : failures[i] <= 1

\* After the server refused the old session, and no other call was under way,
\* no key from before the change of password is used.
RenewedKey ==
  \A i \in Instances : at[i] = "saveTypes" /\ mem[i].told /\ purged
    => GetKey(mem[i].keys).gen = server.gen
=============================================================================
