---------------------------- MODULE Coordinator ----------------------------
(***************************************************************************)
(* The Home Assistant integration above the library: config entries        *)
(* (__init__.py), CasambiBtCoordinator (coordinator.py), the config flow's *)
(* attempt to connect (config_flow.py), and of Casambi (_casambi.py) what  *)
(* they meet: connect() in its three phases, the reconnection of _send,    *)
(* disconnect() and the disconnect callback.                               *)
(*                                                                         *)
(* Every set-up of the entry makes a coordinator with a Casambi of its     *)
(* own.  at[c][x] names the await at which task x of coordinator c is      *)
(* suspended: "lock" is _op_lock; "net", "link" and "shake" are the phases *)
(* of connect(); "send" is a write; "stuck" waits for a device that will   *)
(* not answer.                                                             *)
(***************************************************************************)
EXTENDS TaskQueue, Functions

CONSTANTS
  Commands,     \* service calls: async_set_control, async_set_unit_state
  LossReports,  \* whether a lost link is reported: {FALSE} is what the code
                \* does, and TRUE what it documents
  InitialDelay, MaxDelay, \* RECONNECT_INITIAL_DELAY, RECONNECT_MAX_DELAY
  MaxLinks,     \* links the device accepts at once
  MaxCoords,    \* bound: set-ups of the entry
  MaxCalls,     \* bound: commands
  MaxFaults     \* bound: errors, stalls, lost links, a changed password

ASSUME CommandsAssumption == Commands \cap {"setup", "loop"} = {}
ASSUME ReportsAssumption == LossReports \subseteq BOOLEAN
ASSUME NumbersAssumption ==
  /\ {InitialDelay, MaxDelay, MaxLinks, MaxCoords} \subseteq Nat \ {0}
  /\ {MaxCalls, MaxFaults} \subseteq Nat /\ InitialDelay <= MaxDelay

Coords == 1..MaxCoords
Tasks == {"setup", "loop"} \cup Commands

VARIABLES
  entry,      \* the entry exists
  made,       \* coordinators made so far; the last one is the entry's
  phase,      \* of each coordinator: where its entry is
  pending,    \* _start_reconnect_task is scheduled
  registered, \* its handlers are registered
  clean,      \* history: nothing of it was under way when it unregistered
  at,         \* of each task: where it is suspended
  opq,        \* _op_lock: its holder, then its waiters
  delay,      \* the delay of the reconnect loop
  fetched,    \* Casambi._casaNetwork is there and has a revision
  current,    \* coordinator.data holds the units of that network
  http,       \* the AsyncClient of the Casambi is open
  cl,         \* Casambi._casaClient
  strays,     \* links of clients and connections that were replaced
  reauth,     \* a reauthentication flow is offered
  probe,      \* the attempt of _async_try_connect
  probeLink,  \* it has a link
  visible,    \* the Bluetooth stack sees the device
  accepted,   \* the server accepts the stored password
  keyless,    \* the network has no key
  session,    \* a session is cached (_network.py logs in only without one)
  cached,     \* the network is cached, with its revision
  orphaned,   \* _cacheLock is held by an object nobody has any more
  calls, faults

entryVars == <<entry, made, phase, pending, registered, clean>>
taskVars  == <<at, opq, delay>>
netVars   == <<fetched, current, http>>
linkVars  == <<cl, strays>>
flowVars  == <<reauth, probe, probeLink>>
cacheVars == <<session, cached, orphaned>>
worldVars == <<visible, accepted, keyless, cacheVars>>
vars == <<entryVars, taskVars, netVars, linkVars, flowVars, worldVars, calls,
          faults>>

Inside == {"net", "link", "shake", "send", "stuck"}
Points == {"idle", "sleep", "lock"} \cup Inside

\* "half": a handshake under way or abandoned.  An authenticated ("up") client
\* may have lost its link unnoticed, one in state NONE ("down") may have kept it.
Client == [st : {"none", "down", "half", "up"}, link : BOOLEAN]

Init ==
  /\ entry = FALSE /\ made = 0
  /\ phase = [c \in Coords |-> "none"]
  /\ pending = [c \in Coords |-> FALSE]
  /\ registered = [c \in Coords |-> FALSE]
  /\ clean = [c \in Coords |-> FALSE]
  /\ at = [c \in Coords |-> [x \in Tasks |-> "idle"]]
  /\ opq = [c \in Coords |-> <<>>]
  /\ delay = [c \in Coords |-> InitialDelay]
  /\ fetched = [c \in Coords |-> FALSE]
  /\ current = [c \in Coords |-> FALSE]
  /\ http = [c \in Coords |-> TRUE]
  /\ cl = [c \in Coords |-> [st |-> "none", link |-> FALSE]]
  /\ strays = [c \in Coords |-> [auth |-> 0, other |-> 0]]
  /\ reauth = FALSE /\ probe = "none" /\ probeLink = FALSE
  /\ visible = TRUE /\ accepted = TRUE /\ keyless \in BOOLEAN
  /\ session = FALSE /\ cached = FALSE /\ orphaned = FALSE
  /\ calls = 0 /\ faults = 0

-----------------------------------------------------------------------------
Holds(c, x) == opq[c] # <<>> /\ Head(opq[c]) = x
Running(c) == at[c]["loop"] # "idle"

LinksOf(c) == (IF cl[c].link THEN 1 ELSE 0) + strays[c].auth + strays[c].other
FreeLink ==
  FoldFunction(LAMBDA m, n : m + n, IF probeLink THEN 1 ELSE 0,
               [c \in Coords |-> LinksOf(c)]) < MaxLinks

Fault == faults < MaxFaults /\ faults' = faults + 1
NoFault == UNCHANGED faults

Goto(c, x, p) == at' = [at EXCEPT ![c][x] = p]
Leave(c, x, p) == Goto(c, x, p) /\ opq' = [opq EXCEPT ![c] = Tail(@)]

\* Mutant: the delay is not capped.
Backoff_Uncapped(d) == 2 * d

Backoff(d) == IF 2 * d > MaxDelay THEN MaxDelay ELSE 2 * d

\* The strays of c when its client, or its connection, is replaced.
Abandon(c) ==
  IF ~cl[c].link THEN strays[c]
  ELSE IF cl[c].st = "up" THEN [strays[c] EXCEPT !.auth = @ + 1]
  ELSE [strays[c] EXCEPT !.other = @ + 1]

\* Casambi._disconnectCallback: `units` raises without network information, and
\* then nobody is told.
Told(c) == fetched[c] /\ registered[c]

-----------------------------------------------------------------------------
(* Set-up of the entry, and what a task does when connect() raises.        *)

\* async_setup_entry and async_setup up to the first suspension.
BeginSetup(c) ==
  /\ entry /\ c = made + 1
  /\ made > 0 => phase[made] \in {"notReady", "authFailed", "error", "gone"}
  /\ made' = c
  /\ registered' = [registered EXCEPT ![c] = TRUE]
  /\ IF visible
     THEN /\ phase' = [phase EXCEPT ![c] = "setup"]
          /\ opq' = [opq EXCEPT ![c] = <<"setup">>] /\ Goto(c, "setup", "net")
     ELSE phase' = [phase EXCEPT ![c] = "notReady"] /\ UNCHANGED <<at, opq>>
  /\ UNCHANGED <<entry, pending, clean, delay, netVars, linkVars, flowVars,
                 worldVars, calls, faults>>

\* "listed" stands for _CONNECT_ERRORS, a timeout among them; another error ends
\* the set-up for good.  The loop goes on after all of them.
Fails(c, x, e) ==
  /\ reauth' = (reauth \/ (e = "auth" /\ x \in {"setup", "loop"}))
  /\ phase' = IF x # "setup" THEN phase
              ELSE [phase EXCEPT ![c] = CASE e = "auth" -> "authFailed"
                                          [] e = "listed" -> "notReady"
                                          [] OTHER -> "error"]
  /\ IF x = "loop" /\ e # "auth"
     THEN delay' = [delay EXCEPT ![c] = Backoff(@)] /\ Leave(c, x, "sleep")
     ELSE Leave(c, x, "idle") /\ UNCHANGED delay

\* Mutant: the loop keeps the data of the network before.
Succeeds_OldData(c, x) ==
  \/ x = "setup" /\ phase' = [phase EXCEPT ![c] = "loaded"]
     /\ current' = [current EXCEPT ![c] = TRUE] /\ Leave(c, x, "idle")
  \/ x = "loop" /\ Leave(c, x, "idle") /\ UNCHANGED <<phase, current>>
  \/ x \in Commands /\ Goto(c, x, "send") /\ UNCHANGED <<opq, phase, current>>

\* connect() returns: data is made anew; a command that reconnected sends.
Succeeds(c, x) ==
  \/ x = "setup" /\ phase' = [phase EXCEPT ![c] = "loaded"]
     /\ current' = [current EXCEPT ![c] = TRUE] /\ Leave(c, x, "idle")
  \/ x = "loop" /\ current' = [current EXCEPT ![c] = TRUE]
     /\ Leave(c, x, "idle") /\ UNCHANGED phase
  \/ x \in Commands /\ Goto(c, x, "send") /\ UNCHANGED <<opq, phase, current>>

-----------------------------------------------------------------------------
(* Casambi.connect(): network information, Bluetooth link, handshake.      *)

\* What an attempt that fails may have stored before: a session, the network's
\* file, and the network in memory.
Partly(c) ==
  /\ session' \in {session, session \/ accepted}
  /\ cached' \in {cached, cached \/ (accepted /\ session')}
  /\ fetched' \in {fetched, [fetched EXCEPT ![c] = cached']}

\* The network information is there, from the server or, when the server does
\* not answer, from the cache; a new client replaces the old one, whose link
\* stays.  Or the server or the closed HTTP client raises.  After a change of the
\* password a cached session is refused, and the cache invalidated, first.
NetEnds(c, x) ==
  /\ at[c][x] = "net" /\ ~orphaned
  /\ \/ /\ http[c]
        /\ \/ accepted /\ NoFault /\ session' = TRUE /\ cached' = TRUE
           \/ cached /\ Fault /\ session' \in {session, session \/ accepted} /\ UNCHANGED cached
        /\ fetched' = [fetched EXCEPT ![c] = TRUE]
        /\ strays' = [strays EXCEPT ![c] = Abandon(c)]
        /\ cl' = [cl EXCEPT ![c] = [st |-> "down", link |-> FALSE]]
        /\ Goto(c, x, "link") /\ UNCHANGED <<phase, opq, delay, reauth>>
     \/ /\ http[c] /\ ~accepted /\ NoFault
        /\ Fails(c, x, IF session THEN "unlisted" ELSE "auth")
        /\ session' = FALSE /\ cached' = (cached /\ ~session)
        /\ UNCHANGED <<fetched, linkVars>>
     \/ /\ http[c] /\ Fault /\ Partly(c) /\ UNCHANGED linkVars
        /\ \E e \in {"listed", "unlisted"} : Fails(c, x, e)
     \/ /\ ~http[c] /\ NoFault /\ Fails(c, x, "unlisted")
        /\ UNCHANGED <<fetched, linkVars, session, cached>>
  /\ UNCHANGED <<entry, made, pending, registered, clean, current, http, probe,
                 probeLink, visible, accepted, keyless, orphaned, calls>>

LinkEnds(c, x) ==
  /\ at[c][x] = "link"
  /\ \/ /\ FreeLink /\ NoFault
        /\ strays' = [strays EXCEPT ![c] = Abandon(c)]
        /\ cl' = [cl EXCEPT ![c] = [st |-> "half", link |-> TRUE]]
        /\ Goto(c, x, "shake") /\ UNCHANGED <<phase, opq, delay, reauth>>
     \/ /\ IF FreeLink THEN Fault ELSE NoFault
        /\ Fails(c, x, "listed") /\ UNCHANGED linkVars
  /\ UNCHANGED <<entry, made, pending, registered, clean, netVars, probe,
                 probeLink, worldVars, calls>>

\* A ProtocolError disconnects the client; another error leaves it as it is.
\* Without a key the channel is up after the key exchange, and authenticate()
\* raises what nobody expects.
ShakeEnds(c, x) ==
  /\ at[c][x] = "shake"
  /\ \/ /\ cl[c].link /\ ~keyless /\ NoFault
        /\ cl' = [cl EXCEPT ![c].st = "up"]
        /\ Succeeds(c, x) /\ UNCHANGED <<delay, reauth>>
     \/ /\ cl[c].link /\ keyless /\ NoFault
        /\ cl' = [cl EXCEPT ![c].st = "up"]
        /\ Fails(c, x, "unlisted") /\ UNCHANGED current
     \/ /\ cl[c].link /\ Fault
        /\ cl' \in {cl, [cl EXCEPT ![c] = [st |-> "down", link |-> FALSE]]}
        /\ Fails(c, x, "listed") /\ UNCHANGED current
     \/ ~cl[c].link /\ NoFault /\ Fails(c, x, "listed") /\ UNCHANGED <<cl, current>>
  /\ UNCHANGED <<entry, made, pending, registered, clean, fetched, http, strays,
                 probe, probeLink, worldVars, calls>>

\* The device does not answer.
Stalls(c, x) ==
  /\ at[c][x] \in {"shake", "send"} /\ Fault
  /\ Goto(c, x, "stuck")
  /\ UNCHANGED <<entryVars, opq, delay, netVars, linkVars, flowVars, worldVars, calls>>

\* Mutant: commands have no timeout.
Expires_CommandsUnbounded(c, x) ==
  /\ x \notin Commands
  /\ \/ /\ at[c][x] = "stuck" \/ (at[c][x] = "net" /\ orphaned)
        /\ NoFault /\ UNCHANGED <<fetched, cacheVars>>
     \/ /\ at[c][x] = "net" /\ ~orphaned /\ http[c] /\ Fault
        /\ Partly(c) /\ orphaned' \in BOOLEAN
  /\ Fails(c, x, "listed")
  /\ UNCHANGED <<entry, made, pending, registered, clean, current, http, linkVars,
                 probe, probeLink, visible, accepted, keyless, calls>>

\* Mutant: the set-up has no timeout.
Expires_SetupUnbounded(c, x) ==
  /\ x # "setup"
  /\ \/ /\ at[c][x] = "stuck" \/ (at[c][x] = "net" /\ orphaned)
        /\ NoFault /\ UNCHANGED <<fetched, cacheVars>>
     \/ /\ at[c][x] = "net" /\ ~orphaned /\ http[c] /\ Fault
        /\ Partly(c) /\ orphaned' \in BOOLEAN
  /\ Fails(c, x, "listed")
  /\ UNCHANGED <<entry, made, pending, registered, clean, current, http, linkVars,
                 probe, probeLink, visible, accepted, keyless, calls>>

\* asyncio.timeout: the library is cancelled where it is, the link stays.  Between
\* the acquisition of _cacheLock and the return of Cache.__aenter__ that leaves the
\* lock locked for good, and who needs it waits for its own timeout.
Expires(c, x) ==
  /\ \/ /\ at[c][x] = "stuck" \/ (at[c][x] = "net" /\ orphaned)
        /\ NoFault /\ UNCHANGED <<fetched, cacheVars>>
     \/ /\ at[c][x] = "net" /\ ~orphaned /\ http[c] /\ Fault
        /\ Partly(c) /\ orphaned' \in BOOLEAN
  /\ Fails(c, x, "listed")
  /\ UNCHANGED <<entry, made, pending, registered, clean, current, http, linkVars,
                 probe, probeLink, visible, accepted, keyless, calls>>

-----------------------------------------------------------------------------
(* Commands.                                                               *)

BeginCommand(c, k) ==
  /\ phase[c] = "loaded" /\ calls < MaxCalls /\ calls' = calls + 1
  /\ \A d \in Coords : at[d][k] = "idle"
  /\ opq' = [opq EXCEPT ![c] = Append(@, k)] /\ Goto(c, k, "lock")
  /\ UNCHANGED <<entryVars, delay, netVars, linkVars, flowVars, worldVars, faults>>

\* _send: the channel is up; or its lost link is noticed and the command
\* dropped; or its state is NONE and it is opened again; or it raises.
EnterCommand(c, k) ==
  /\ at[c][k] = "lock" /\ Holds(c, k)
  /\ \/ cl[c].st = "up" /\ cl[c].link /\ Goto(c, k, "send") /\ UNCHANGED <<opq, cl>>
     \/ /\ cl[c].st = "up" /\ ~cl[c].link /\ Leave(c, k, "idle")
        /\ cl' = [cl EXCEPT ![c].st = "down"]
     \/ cl[c].st = "down" /\ Goto(c, k, "link") /\ UNCHANGED <<opq, cl>>
     \/ cl[c].st \in {"none", "half"} /\ Leave(c, k, "idle") /\ UNCHANGED cl
  /\ UNCHANGED <<entryVars, delay, netVars, strays, flowVars, worldVars, calls, faults>>

\* The write ends; one that fails leaves the state NONE, whatever the link does.
SendEnds(c, k) ==
  /\ at[c][k] = "send" /\ Leave(c, k, "idle")
  /\ \/ cl[c].link /\ NoFault /\ UNCHANGED cl
     \/ (IF cl[c].link THEN Fault ELSE NoFault) /\ cl' = [cl EXCEPT ![c].st = "down"]
  /\ UNCHANGED <<entryVars, delay, netVars, strays, flowVars, worldVars, calls>>

-----------------------------------------------------------------------------
(* The reconnect loop.                                                     *)

\* _start_reconnect_task.
StartReconnect(c) ==
  /\ pending[c] /\ pending' = [pending EXCEPT ![c] = FALSE]
  /\ IF Running(c) THEN UNCHANGED <<at, delay>>
     ELSE /\ Goto(c, "loop", "sleep")
          /\ delay' = [delay EXCEPT ![c] = InitialDelay]
  /\ UNCHANGED <<entry, made, phase, registered, clean, opq, netVars, linkVars,
                 flowVars, worldVars, calls, faults>>

\* Mutant: the loop does not take the lock.
LoopWakes_NoLock(c) ==
  /\ at[c]["loop"] = "sleep" /\ visible
  /\ opq' = [opq EXCEPT ![c] = <<"loop">> \o @] /\ Goto(c, "loop", "net")
  /\ UNCHANGED <<entryVars, delay, netVars, linkVars, flowVars, worldVars, calls,
                 faults>>

\* The sleep ends; a device that is not seen is waited for longer.
LoopWakes(c) ==
  /\ at[c]["loop"] = "sleep"
  /\ IF visible
     THEN /\ opq' = [opq EXCEPT ![c] = Append(@, "loop")] /\ Goto(c, "loop", "lock")
          /\ UNCHANGED delay
     ELSE delay' = [delay EXCEPT ![c] = Backoff(@)] /\ UNCHANGED <<at, opq>>
  /\ UNCHANGED <<entryVars, netVars, linkVars, flowVars, worldVars, calls, faults>>

\* connect() makes a Network, of which nothing is known yet.
EnterLoop(c) ==
  /\ at[c]["loop"] = "lock" /\ Holds(c, "loop")
  /\ fetched' = [fetched EXCEPT ![c] = FALSE]
  /\ current' = [current EXCEPT ![c] = FALSE]
  /\ Goto(c, "loop", "net")
  /\ UNCHANGED <<entryVars, opq, delay, http, linkVars, flowVars, worldVars,
                 calls, faults>>

-----------------------------------------------------------------------------
(* async_unload_entry and async_shutdown.                                  *)

\* The entities are removed and the loop is cancelled, wherever it is: _cacheLock
\* may stay locked.
Unload(c) ==
  /\ c = made /\ phase[c] = "loaded"
  /\ phase' = [phase EXCEPT ![c] = "stopping"]
  /\ Goto(c, "loop", "idle")
  /\ opq' = [opq EXCEPT ![c] = Without(@, "loop")]
  /\ orphaned' \in {orphaned, orphaned \/ at[c]["loop"] = "net"}
  /\ UNCHANGED <<entry, made, pending, registered, clean, delay, netVars, linkVars>>

BeginUnload(c) ==
  /\ Unload(c)
  /\ UNCHANGED <<flowVars, visible, accepted, keyless, session, cached, calls, faults>>

Quiet(c) == ~pending[c] /\ \A x \in Tasks : at[c][x] = "idle"

\* Mutant: the handlers are not unregistered before the disconnection.
Unregister_Later(c) ==
  /\ phase[c] = "stopping" /\ phase' = [phase EXCEPT ![c] = "closing"]
  /\ clean' = [clean EXCEPT ![c] = Quiet(c)]
  /\ UNCHANGED <<entry, made, pending, registered, taskVars, netVars, linkVars,
                 flowVars, worldVars, calls, faults>>

Unregister(c) ==
  /\ phase[c] = "stopping" /\ phase' = [phase EXCEPT ![c] = "closing"]
  /\ registered' = [registered EXCEPT ![c] = FALSE]
  /\ clean' = [clean EXCEPT ![c] = Quiet(c)]
  /\ UNCHANGED <<entry, made, pending, taskVars, netVars, linkVars, flowVars,
                 worldVars, calls, faults>>

\* Casambi.disconnect(): the client of the last connect() is disconnected,
\* which calls the disconnect callback; the HTTP client is closed.
Closed(c) ==
  /\ phase[c] = "closing" /\ phase' = [phase EXCEPT ![c] = "gone"]
  /\ pending' = [pending EXCEPT ![c] = @ \/ (cl[c].st = "up" /\ Told(c))]
  /\ cl' = [cl EXCEPT ![c] = [st |-> "down", link |-> FALSE]]
  /\ fetched' = [fetched EXCEPT ![c] = FALSE]
  /\ current' = [current EXCEPT ![c] = FALSE]
  /\ http' = [http EXCEPT ![c] = FALSE]
  /\ UNCHANGED <<entry, made, registered, clean, taskVars, strays, flowVars,
                 worldVars, calls, faults>>

-----------------------------------------------------------------------------
(* The config flow: _async_try_connect, for a new entry or for a changed   *)
(* password.                                                               *)

ProbeBegins ==
  /\ probe = "none" /\ (reauth \/ ~entry) /\ visible
  /\ probe' = "net"
  /\ UNCHANGED <<entryVars, taskVars, netVars, linkVars, reauth, probeLink,
                 worldVars, calls, faults>>

\* A wrong password, any error and the timeout end the attempt.  It has a cache of
\* its own, under the same _cacheLock.
ProbeGoesOn ==
  /\ \/ probe = "net" /\ ~orphaned /\ probe' = "link" /\ UNCHANGED <<probeLink, orphaned>> /\ NoFault
     \/ /\ probe = "net" /\ probe' = "failed" /\ UNCHANGED probeLink
        /\ \/ NoFault /\ UNCHANGED orphaned
           \/ Fault /\ orphaned' = TRUE
     \/ /\ probe = "link" /\ UNCHANGED orphaned
        /\ \/ FreeLink /\ probe' = "shake" /\ probeLink' = TRUE /\ NoFault
           \/ (IF FreeLink THEN Fault ELSE NoFault) /\ probe' = "failed" /\ UNCHANGED probeLink
     \/ /\ probe = "shake" /\ UNCHANGED <<probeLink, orphaned>>
        /\ \/ ~keyless /\ probe' = "succeeded" /\ NoFault
           \/ (IF keyless THEN NoFault ELSE Fault) /\ probe' = "failed"
  /\ UNCHANGED <<entryVars, taskVars, netVars, linkVars, reauth, visible, accepted,
                 keyless, session, cached, calls>>

\* `finally` disconnects.  Success makes the entry, or stores the password and
\* reloads the entry.
ProbeEnds ==
  /\ probe \in {"failed", "succeeded"}
  /\ probe' = "none" /\ probeLink' = FALSE
  /\ LET ok == probe = "succeeded"
     IN /\ accepted' = (accepted \/ ok) /\ reauth' = (reauth /\ ~ok)
        /\ \/ ok /\ made > 0 /\ Unload(made)
           \/ /\ ~(ok /\ made > 0 /\ phase[made] = "loaded")
              /\ entry' = (entry \/ ok)
              /\ UNCHANGED <<made, phase, pending, registered, clean, taskVars,
                             netVars, linkVars, orphaned>>
  /\ UNCHANGED <<visible, keyless, session, cached, calls, faults>>

-----------------------------------------------------------------------------
(* The world.                                                              *)

\* A lost link is noticed by the Bluetooth stack.  CasambiClient._on_disconnect,
\* if somebody calls it, sets the state to NONE unless its callback raises before.
LinkLost(c) ==
  /\ cl[c].link /\ Fault
  /\ \E told \in LossReports :
       LET auth == cl[c].st = "up"
       IN /\ pending' = [pending EXCEPT ![c] = @ \/ (told /\ auth /\ Told(c))]
          /\ cl' = [cl EXCEPT ![c] = [link |-> FALSE,
                      st |-> IF told /\ (auth => fetched[c]) THEN "down" ELSE @.st]]
  /\ UNCHANGED <<entry, made, phase, registered, clean, taskVars, netVars,
                 strays, flowVars, worldVars, calls>>

StrayLost(c) ==
  /\ Fault
  /\ \/ /\ strays[c].auth > 0 /\ strays' = [strays EXCEPT ![c].auth = @ - 1]
        /\ \E told \in LossReports :
             pending' = [pending EXCEPT ![c] = @ \/ (told /\ Told(c))]
     \/ /\ strays[c].other > 0 /\ strays' = [strays EXCEPT ![c].other = @ - 1]
        /\ UNCHANGED pending
  /\ UNCHANGED <<entry, made, phase, registered, clean, taskVars, netVars, cl,
                 flowVars, worldVars, calls>>

\* The device goes out of sight or comes back; the password is changed.
WorldChanges ==
  /\ \/ visible /\ Fault /\ visible' = FALSE /\ UNCHANGED accepted
     \/ ~visible /\ NoFault /\ visible' = TRUE /\ UNCHANGED accepted
     \/ accepted /\ Fault /\ accepted' = FALSE /\ UNCHANGED visible
  /\ UNCHANGED <<entryVars, taskVars, netVars, linkVars, flowVars, keyless, cacheVars,
                 calls>>

-----------------------------------------------------------------------------
Connecting(c, x) ==
  NetEnds(c, x) \/ LinkEnds(c, x) \/ ShakeEnds(c, x) \/ Expires(c, x)
CommandStep(c, k) == EnterCommand(c, k) \/ SendEnds(c, k)
LoopStep(c) == StartReconnect(c) \/ LoopWakes(c) \/ EnterLoop(c)
ShutdownStep(c) == Unregister(c) \/ Closed(c)

Next ==
  \/ \E c \in Coords :
       \/ BeginSetup(c) \/ BeginUnload(c) \/ LinkLost(c) \/ StrayLost(c)
       \/ LoopStep(c) \/ ShutdownStep(c)
       \/ \E x \in Tasks : Connecting(c, x) \/ Stalls(c, x)
       \/ \E k \in Commands : BeginCommand(c, k) \/ CommandStep(c, k)
  \/ ProbeBegins \/ ProbeGoesOn \/ ProbeEnds \/ WorldChanges

Spec == Init /\ [][Next]_vars

\* What the event loop, the sleeps, the timeouts and the radio do for a task.
TaskStep(c, x) ==
  \/ Connecting(c, x)
  \/ x \in Commands /\ CommandStep(c, x)
  \/ x = "loop" /\ LoopStep(c)

\* A task that can go on does; nobody has to set up, unload or command, and the
\* device need not answer.
FairSpec == Spec /\ \A c \in Coords, x \in Tasks : WF_vars(TaskStep(c, x))

-----------------------------------------------------------------------------
(* Properties.                                                             *)

\* Every variable keeps its type, and the delay of the loop its range.
TypeOK ==
  /\ entry \in BOOLEAN /\ made \in 0..MaxCoords
  /\ phase \in [Coords -> {"none", "setup", "notReady", "authFailed", "error",
                           "loaded", "stopping", "closing", "gone"}]
  /\ {pending, registered, clean, fetched, current, http} \subseteq [Coords -> BOOLEAN]
  /\ at \in [Coords -> [Tasks -> Points]] /\ opq \in [Coords -> Seq(Tasks)]
  /\ delay \in [Coords -> InitialDelay..MaxDelay]
  /\ cl \in [Coords -> Client] /\ strays \in [Coords -> [auth : Nat, other : Nat]]
  /\ probe \in {"none", "net", "link", "shake", "failed", "succeeded"}
  /\ {reauth, probeLink, visible, accepted, keyless} \subseteq BOOLEAN
  /\ {session, cached, orphaned} \subseteq BOOLEAN
  /\ calls \in 0..MaxCalls /\ faults \in 0..MaxFaults

\* One task at a time is inside the library, on behalf of a coordinator: the
\* set-up, the reconnect loop or a command, and it holds _op_lock.
OneInside ==
  \A c \in Coords, x, y \in Tasks :
    at[c][x] \in Inside /\ at[c][y] \in Inside => x = y /\ Holds(c, x)

\* Nothing comes back to life after async_shutdown: with no command, loop or
\* callback under way when the handlers are unregistered, no loop runs and the
\* client has no link.
ShutdownFinal ==
  \A c \in Coords : phase[c] = "gone" /\ clean[c] =>
    ~Running(c) /\ ~pending[c] /\ ~cl[c].link

\* Once a loaded entry's reconnection is over, entities read the units of the
\* network whose states the library updates.
DataIsCurrent ==
  \A c \in Coords : phase[c] = "loaded" /\ ~Running(c) /\ ~reauth => current[c]

\* Every command ends, though others and the reconnect loop use the lock and
\* the device may not answer.
CommandsEnd ==
  \A k \in Commands :
    (\E c \in Coords : at[c][k] # "idle") ~> (\A c \in Coords : at[c][k] = "idle")

\* Every set-up of the entry ends, though the server or the device may not answer
\* and _cacheLock may be locked for good.
SetupEnds ==
  (\E c \in Coords : phase[c] = "setup") ~> (\A c \in Coords : phase[c] # "setup")
=============================================================================
