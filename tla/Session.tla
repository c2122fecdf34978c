------------------------------ MODULE Session ------------------------------
(***************************************************************************)
(* The session manager (session.rs), the event bridge (bridge.rs), the     *)
(* session commands (commands/auth.rs) and the frontend's start, status    *)
(* and reset (events.ts), for one session id.                              *)
(*                                                                         *)
(* A client is named by its generation: the number of boots so far.  An    *)
(* event carries the session id only; the generation and the account in it *)
(* are history that no handler reads.  Of the library there are its run    *)
(* loop, which a reset aborts, and its detached tasks, which nobody waits  *)
(* for: both dispatch events, and both keep the database open.             *)
(***************************************************************************)
EXTENDS Naturals, Sequences

CONSTANTS Accounts, None,
          Calls,        \* slots for invocations in flight
          Free,         \* nobody holds the lock of the sessions map
          MaxGen,       \* bound on clients
          MaxEvents     \* bound on events, user actions and restarts together

ASSUME SessionAssumption ==
    /\ None \notin Accounts /\ Free \notin Calls
    /\ MaxGen \in Nat /\ MaxEvents \in Nat

VARIABLES
    platform,   \* "windows" refuses to delete an open file
    map, lock,  \* the client of the session id, 0 for none; the lock's holder
    file,       \* the device key in the database file, 0 for no file
    keys, acct, \* keys generated so far, and the account each is paired with
    gens, key,  \* clients booted so far, and the key each has open
    loop,       \* the run task of each client; when it has "ended", commands
                \* and detached tasks may hold the client, until it is "done"
    chan,       \* the events of each client that its pump has not received
    decoding,   \* history blobs being decoded, by account
    wire,       \* events emitted to the webview
    call,       \* invocations
    front,      \* how far startEventBridge is
    ui,         \* the session store: registered and jid, clientDead, qrCode
    mem, idb,   \* accounts that have rows in the stores and in IndexedDB
    marker,     \* the account IndexedDB is marked with
    outdated,   \* the last status failed, or was outdated on arrival
    reborn,     \* clients booted by a reset
    kept,       \* keys in files that a held client or an error kept
    events      \* events, user actions and restarts so far

backend  == <<map, lock, file, keys, acct, gens, key, loop>>
bridge   == <<chan, decoding, wire>>
frontend == <<front, ui, mem, idb, marker, outdated>>
history  == <<reborn, kept>>
sessionVars == <<platform, backend, bridge, call, frontend, history, events>>

Gens == 1..MaxGen
Topics == {"qr", "dead", "paired", "loggedout", "conn", "message", "history"}
Statuses == {"launch", "boot", "again", "paired", "conn"}
Resets == {"bootreset", "resetall"}
Works == {"work", "logout"}
Event(topic, g, a) == [topic |-> topic, gen |-> g, from |-> a]
IdleCall == [for |-> "launch", at |-> "idle", gen |-> 0, jid |-> None]

\* Types of the session manager, the events and the frontend.
SessionTypeOK ==
    /\ platform \in {"unix", "windows"}
    /\ map \in 0..gens /\ lock \in Calls \cup {Free} /\ file \in 0..keys
    /\ keys \in 0..(MaxGen + 1) /\ acct \in [1..(MaxGen + 1) -> Accounts \cup {None}]
    /\ gens \in 0..MaxGen /\ key \in [Gens -> 0..keys]
    /\ loop \in [Gens -> {"none", "running", "ended", "done"}]
    /\ chan \in [Gens -> Seq([topic: Topics, gen: Gens, from: Accounts \cup {None}])]
    /\ decoding \subseteq Accounts
    /\ wire \in Seq([topic: Topics, gen: Gens, from: Accounts \cup {None}])
    /\ call \in [Calls -> [for: Statuses \cup Resets \cup Works,
                           at: {"idle", "clear", "sent", "join", "delete", "boot",
                                "work", "reply"},
                           gen: 0..MaxGen, jid: Accounts \cup {None}]]
    /\ front \in {"off", "status", "check", "hydrate", "fill", "reset", "again", "ready"}
    /\ ui \in [jid: Accounts \cup {None}, dead: BOOLEAN, qr: 0..MaxGen]
    /\ mem \subseteq Accounts /\ idb \subseteq Accounts /\ marker \in Accounts \cup {None}
    /\ reborn \subseteq Gens /\ kept \subseteq 1..keys

\* The app is launched, on the files of an earlier run or on none.
Init ==
    /\ platform \in {"unix", "windows"}
    /\ map = 0 /\ lock = Free
    /\ \E a \in Accounts \cup {None} :
          /\ acct = [k \in 1..(MaxGen + 1) |-> IF k = 1 THEN a ELSE None]
          /\ file \in (IF a = None THEN {0, 1} ELSE {1})
    /\ keys = file
    /\ gens = 0 /\ key = [g \in Gens |-> 0] /\ loop = [g \in Gens |-> "none"]
    /\ chan = [g \in Gens |-> <<>>] /\ decoding = {} /\ wire = <<>>
    /\ \E c \in Calls : call = [d \in Calls |->
                                   IF d = c THEN [IdleCall EXCEPT !.at = "sent"] ELSE IdleCall]
    /\ front = "off" /\ ui = [jid |-> None, dead |-> FALSE, qr |-> 0]
    /\ mem = {} /\ marker \in Accounts \cup {None}
    /\ idb = (IF marker = None THEN {} ELSE {marker})
    /\ outdated = FALSE /\ reborn = {} /\ kept = {}
    /\ events = 0

----------------------------------------------------------------------------
(* Backend: the sessions map *)

\* Boot: open or create the database, and spawn the run loop and the pump.
boot ==
    /\ gens < MaxGen
    /\ gens' = gens + 1 /\ map' = gens + 1
    /\ keys' = IF file = 0 THEN keys + 1 ELSE keys
    /\ file' = IF file = 0 THEN keys + 1 ELSE file
    /\ key' = [key EXCEPT ![gens + 1] = file']
    /\ loop' = [loop EXCEPT ![gens + 1] = "running"]
    /\ UNCHANGED acct

\* get_or_create holds the map's lock from its look at the map to the insert;
\* auth_status then takes a snapshot, other commands work with the client.
get_or_create(c) ==
    /\ call[c].at = "sent" /\ call[c].for \notin Resets /\ lock = Free
    /\ \/ map # 0 /\ UNCHANGED backend
       \/ map = 0 /\ boot /\ UNCHANGED lock
    /\ call' = [call EXCEPT ![c].at = IF call[c].for \in Works THEN "work" ELSE "reply",
                            ![c].gen = map', ![c].jid = acct[key'[map']]]
    /\ UNCHANGED <<platform, bridge, frontend, history, events>>

\* The boot fails: the error is the answer.
BootFails(c) ==
    /\ call[c].at = "sent" /\ call[c].for \notin Resets /\ lock = Free /\ map = 0
    /\ call' = [call EXCEPT ![c] = IF call[c].for \in Works
                                     THEN IdleCall ELSE [@ EXCEPT !.at = "reply"]]
    /\ UNCHANGED <<platform, backend, bridge, frontend, history, events>>

\* Fault: the lock is released while the old client is taken down.
ResetTakesUnlocked(c) ==
    /\ call[c].at = "sent" /\ call[c].for \in Resets /\ lock = Free
    /\ map' = 0
    /\ call' = [call EXCEPT ![c].at = "join", ![c].gen = map]
    /\ UNCHANGED <<platform, lock, file, keys, acct, gens, key, loop, bridge, frontend,
                   history, events>>

\* reset: the lock is held for the whole reset.  The old client leaves the
\* map and is told to disconnect; its loop may end by itself from now on.
ResetTakes(c) ==
    /\ call[c].at = "sent" /\ call[c].for \in Resets /\ lock = Free
    /\ lock' = c /\ map' = 0
    /\ call' = [call EXCEPT ![c].at = "join", ![c].gen = map]
    /\ UNCHANGED <<platform, file, keys, acct, gens, key, loop, bridge, frontend,
                   history, events>>

\* Fault: the loop is left to end by itself.
JoinUnaborted(c) ==
    /\ call[c].at = "join"
    /\ call[c].gen # 0 => loop[call[c].gen] # "running"
    /\ call' = [call EXCEPT ![c].at = "delete"]
    /\ UNCHANGED <<platform, backend, bridge, frontend, history, events>>

\* Fault: the aborted loop is not waited for.
JoinUnawaited(c) ==
    /\ call[c].at = "join"
    /\ call' = [call EXCEPT ![c].at = "delete"]
    /\ UNCHANGED <<platform, backend, bridge, frontend, history, events>>

\* The run task is aborted and waited for.
Join(c) ==
    /\ call[c].at = "join"
    /\ loop' = [g \in Gens |-> IF g = call[c].gen /\ loop[g] = "running"
                               THEN "ended" ELSE loop[g]]
    /\ call' = [call EXCEPT ![c].at = "delete"]
    /\ UNCHANGED <<platform, map, lock, file, keys, acct, gens, key, bridge, frontend,
                   history, events>>

\* Whoever has the client has the database open: the run task, and after it
\* commands and detached tasks.
Held(k) == \E g \in Gens : loop[g] = "ended" /\ key[g] = k
Open(k) == Held(k) \/ \E g \in Gens : loop[g] = "running" /\ key[g] = k

\* The files are deleted, or after 30 attempts left where they are: Windows
\* refuses to delete open ones, and any other error is logged and ignored.
delete_db_files(c) ==
    /\ call[c].at = "delete"
    /\ \/ /\ platform = "windows" => ~Open(file)
          /\ file' = 0 /\ UNCHANGED kept
       \/ /\ platform = "windows" /\ file # 0 /\ Open(file)
          /\ kept' = IF Held(file) THEN kept \cup {file} ELSE kept
          /\ UNCHANGED file
       \/ /\ file # 0
          /\ kept' = kept \cup {file}
          /\ UNCHANGED file
    /\ call' = [call EXCEPT ![c].at = "boot"]
    /\ UNCHANGED <<platform, map, lock, keys, acct, gens, key, loop, bridge, frontend,
                   reborn, events>>

ResetBoots(c) ==
    /\ call[c].at = "boot"
    /\ \/ boot /\ reborn' = reborn \cup {gens + 1}
       \/ UNCHANGED <<map, file, keys, acct, gens, key, loop, reborn>>
    /\ lock' = IF lock = c THEN Free ELSE lock
    /\ call' = [call EXCEPT ![c].at = "reply", ![c].gen = 0]
    /\ UNCHANGED <<platform, bridge, frontend, kept, events>>

----------------------------------------------------------------------------
(* Backend: clients and the bridge *)

Send(g, topic, a) == chan' = [chan EXCEPT ![g] = Append(@, Event(topic, g, a))]
Emit(event) == wire' = Append(wire, event)

\* The user scanned a code: the account goes into the database of the client.
handle_pair_success(g, b) ==
    acct' = [acct EXCEPT ![key[g]] = b] /\ Send(g, "paired", b)

\* The library dispatches an event, from its run loop or from a detached task:
\* the rotation of codes, a pairing, a notification, a message worker.
Dispatch(g) ==
    /\ loop[g] \in {"running", "ended"} /\ events < MaxEvents
    /\ events' = events + 1
    /\ LET a == acct[key[g]]
       IN  \/ a = None /\ Send(g, "qr", None) /\ UNCHANGED acct
           \/ a = None /\ \E b \in Accounts : handle_pair_success(g, b)
           \/ /\ a # None
              /\ \E topic \in {"conn", "message", "history", "loggedout"} : Send(g, topic, a)
              /\ UNCHANGED acct
    /\ UNCHANGED <<platform, map, lock, file, keys, gens, key, loop, decoding, wire, call,
                   frontend, history>>

\* bot.run returns: the codes expired, the account was logged out or replaced,
\* or somebody disconnected.  is_logged_in is false then, paired or not.
LoopEnds(g) ==
    /\ loop[g] = "running"
    /\ loop' = [loop EXCEPT ![g] = "ended"]
    /\ Emit(Event("dead", g, None))
    /\ UNCHANGED <<platform, map, lock, file, keys, acct, gens, key, chan, decoding, call,
                   frontend, history, events>>

\* The last detached task of a client that nobody can reach any more ends.
LetGo(g) ==
    /\ loop[g] = "ended" /\ map # g
    /\ \A c \in Calls : call[c].at = "work" => call[c].gen # g
    /\ loop' = [loop EXCEPT ![g] = "done"]
    /\ UNCHANGED <<platform, map, lock, file, keys, acct, gens, key, bridge, call,
                   frontend, history, events>>

\* A history blob goes to a blocking thread, everything else to the webview.
pump(g) ==
    /\ chan[g] # <<>>
    /\ chan' = [chan EXCEPT ![g] = Tail(@)]
    /\ \/ /\ Head(chan[g]).topic = "history"
          /\ decoding' = decoding \cup {Head(chan[g]).from} /\ UNCHANGED wire
       \/ /\ Head(chan[g]).topic # "history"
          /\ Emit(Head(chan[g])) /\ UNCHANGED decoding
    /\ UNCHANGED <<platform, backend, call, frontend, history, events>>

\* The decoded conversations are emitted, whatever became of the client.
spawn_history_decode(a) ==
    /\ a \in decoding
    /\ decoding' = decoding \ {a}
    /\ \E g \in Gens : Emit(Event("history", g, a))
    /\ UNCHANGED <<platform, backend, chan, call, frontend, history, events>>

\* A command lets go of its client; auth_logout has disconnected it.
FinishWork(c) ==
    /\ call[c].at = "work"
    /\ \/ call[c].for = "logout" /\ Send(call[c].gen, "loggedout", None)
       \/ call[c].for # "logout" /\ UNCHANGED chan
    /\ call' = [call EXCEPT ![c] = IdleCall]
    /\ UNCHANGED <<platform, backend, decoding, wire, frontend, history, events>>
----------------------------------------------------------------------------
(* Frontend *)

Invoke(c, for) == call' = [call EXCEPT ![c] = [IdleCall EXCEPT !.for = for, !.at = "sent"]]
Idle(c) == call[c].at = "idle"

\* The listeners are in place; startEventBridge asks for the status.
startEventBridge ==
    /\ front = "off"
    /\ front' = "status"
    /\ \E c \in Calls : Idle(c) /\ Invoke(c, "boot")
    /\ UNCHANGED <<platform, backend, bridge, ui, mem, idb, marker, outdated, history, events>>

\* Step 4 of startEventBridge: the account is marked, and what came in
\* meanwhile is written.
EnablePersistence(jid, rows) ==
    /\ front' = "ready"
    /\ marker' = IF jid # None THEN jid ELSE marker
    /\ idb' = idb \cup rows

\* Unregistered: cached data are stale, so they and the device key go.
CheckStale ==
    /\ front = "check"
    /\ \/ /\ idb # {} \/ marker # None
          /\ idb' = {} /\ marker' = None /\ front' = "reset"
          /\ \E c \in Calls : Idle(c) /\ Invoke(c, "bootreset")
       \/ /\ idb = {} /\ marker = None
          /\ EnablePersistence(ui.jid, mem) /\ UNCHANGED call
    /\ UNCHANGED <<platform, backend, bridge, ui, mem, outdated, history, events>>

\* Registered: the cache of another account goes, our own is read.
LoadSnapshot ==
    /\ front = "hydrate"
    /\ LET differentAccount == marker # None /\ ui.jid # None /\ marker # ui.jid
       IN  \/ /\ differentAccount
              /\ front' = "ready" /\ marker' = ui.jid /\ idb' = mem
              /\ UNCHANGED mem
           \/ /\ ~differentAccount
              /\ front' = "fill" /\ mem' = mem \cup idb
              /\ UNCHANGED <<marker, idb>>
    /\ UNCHANGED <<platform, backend, bridge, call, ui, outdated, history, events>>

\* The newest messages are read back, for the chats found before.
LoadTails ==
    /\ front = "fill"
    /\ mem' = mem \cup idb
    /\ EnablePersistence(ui.jid, mem')
    /\ UNCHANGED <<platform, backend, bridge, call, ui, outdated, history, events>>

\* A status reply goes into the session store; an error changes nothing.  What
\* waited for it goes on.
refreshStatus(c) ==
    /\ call[c].at = "reply" /\ call[c].for \in Statuses
    /\ \/ call[c].for = "launch" /\ UNCHANGED <<ui, outdated>>
       \/ call[c].for # "launch" /\ call[c].gen = 0 /\ outdated' = TRUE /\ UNCHANGED ui
       \/ /\ call[c].for # "launch" /\ call[c].gen # 0
          /\ ui' = [ui EXCEPT !.jid = call[c].jid]
          /\ outdated' = \/ call[c].gen # map \/ call[c].jid # acct[key[map]]
                         \/ \E d \in Calls : call[d].for \in Resets /\ ~Idle(d)
    /\ \/ call[c].for = "boot" /\ front' = (IF ui'.jid = None THEN "check" ELSE "hydrate")
          /\ UNCHANGED <<marker, idb>>
       \/ call[c].for = "again" /\ EnablePersistence(ui'.jid, mem)
       \/ call[c].for = "paired" /\ marker' = (IF ui'.jid # None THEN ui'.jid ELSE marker)
          /\ UNCHANGED <<front, idb>>
       \/ call[c].for \in {"conn", "launch"} /\ UNCHANGED <<front, marker, idb>>
    /\ call' = [call EXCEPT ![c] = IdleCall]
    /\ UNCHANGED <<platform, backend, bridge, mem, history, events>>

\* reset_session answered, with or without an error.
ResetReply(c) ==
    /\ call[c].at = "reply" /\ call[c].for \in Resets
    /\ \/ call[c].for = "bootreset" /\ front' = "again" /\ Invoke(c, "again")
       \/ /\ call[c].for = "resetall" /\ call' = [call EXCEPT ![c] = IdleCall]
          /\ UNCHANGED front
    /\ UNCHANGED <<platform, backend, bridge, ui, mem, idb, marker, outdated, history, events>>

\* resetAll up to its first await; the clear it then waits for takes effect
\* before every later write.  The QR code stays.
resetAll(c) ==
    /\ Idle(c)
    /\ ui' = [ui EXCEPT !.jid = None, !.dead = FALSE]
    /\ mem' = {} /\ idb' = {} /\ marker' = None /\ outdated' = FALSE
    /\ call' = [call EXCEPT ![c] = [IdleCall EXCEPT !.for = "resetall", !.at = "clear"]]
    /\ UNCHANGED front

\* clearAll has settled; reset_session is invoked.
Cleared(c) ==
    /\ call[c].at = "clear"
    /\ Invoke(c, "resetall")
    /\ UNCHANGED <<platform, backend, bridge, frontend, history, events>>

AddRows(a) ==
    /\ mem' = mem \cup {a}
    /\ idb' = IF front = "ready" THEN idb \cup {a} ELSE idb

\* Fault: the code is taken down, but the status is not asked for.
OnPairedForgets(c) ==
    /\ ui' = [ui EXCEPT !.qr = 0]
    /\ UNCHANGED <<front, mem, idb, marker, outdated, call>>

OnPaired(c) ==
    /\ ui' = [ui EXCEPT !.qr = 0]
    /\ Idle(c) /\ Invoke(c, "paired")
    /\ UNCHANGED <<front, mem, idb, marker, outdated>>

\* The listener of the event's topic runs.
Handle(event, c) ==
    \/ /\ event.topic = "qr" /\ ui' = [ui EXCEPT !.dead = FALSE, !.qr = event.gen]
       /\ UNCHANGED <<call, front, mem, idb, marker, outdated>>
    \/ /\ event.topic = "dead" /\ ui' = [ui EXCEPT !.dead = TRUE]
       /\ UNCHANGED <<call, front, mem, idb, marker, outdated>>
    \/ event.topic = "paired" /\ OnPaired(c)
    \/ event.topic = "loggedout" /\ resetAll(c)
    \/ event.topic = "conn" /\ Idle(c) /\ Invoke(c, "conn") /\ UNCHANGED frontend
    \/ /\ event.topic \in {"message", "history"} /\ AddRows(event.from)
       /\ UNCHANGED <<call, front, ui, marker, outdated>>

\* The next event reaches the webview; nobody listens before startEventBridge.
Deliver ==
    /\ wire # <<>>
    /\ wire' = Tail(wire)
    /\ \/ front = "off" /\ UNCHANGED <<call, frontend>>
       \/ front # "off" /\ \E c \in Calls : Handle(Head(wire), c)
    /\ UNCHANGED <<platform, backend, chan, decoding, history, events>>

\* The user has a command run, logs out (settings) or resets (loading screen).
UserAsks(c) ==
    /\ events < MaxEvents /\ events' = events + 1
    /\ Idle(c)
    /\ \/ front = "ready" /\ Invoke(c, "work") /\ UNCHANGED frontend
       \/ front = "ready" /\ ui.jid # None /\ Invoke(c, "logout") /\ UNCHANGED frontend
       \/ front \in {"hydrate", "fill", "ready"} /\ ui.jid # None /\ resetAll(c)
    /\ UNCHANGED <<platform, backend, bridge, history>>

\* The app is killed, and launched again on what is on disk.
Restart ==
    /\ events < MaxEvents /\ events' = events + 1
    /\ map' = 0 /\ lock' = Free
    /\ loop' = [g \in Gens |-> IF g <= gens THEN "done" ELSE "none"]
    /\ chan' = [g \in Gens |-> <<>>] /\ decoding' = {} /\ wire' = <<>>
    /\ \E c \in Calls : call' = [d \in Calls |->
                                    IF d = c THEN [IdleCall EXCEPT !.at = "sent"] ELSE IdleCall]
    /\ front' = "off" /\ ui' = [jid |-> None, dead |-> FALSE, qr |-> 0]
    /\ mem' = {} /\ outdated' = FALSE
    /\ UNCHANGED <<platform, file, keys, acct, gens, key, idb, marker, history>>

Locks(c) == get_or_create(c) \/ BootFails(c) \/ ResetTakes(c)
Answers(c) ==
    \/ Join(c) \/ delete_db_files(c) \/ ResetBoots(c) \/ FinishWork(c)
    \/ Cleared(c) \/ refreshStatus(c) \/ ResetReply(c)

Next ==
    \/ \E c \in Calls : Locks(c) \/ Answers(c) \/ UserAsks(c)
    \/ \E g \in Gens : Dispatch(g) \/ LoopEnds(g) \/ LetGo(g) \/ pump(g)
    \/ \E a \in Accounts : spawn_history_decode(a)
    \/ startEventBridge \/ CheckStale \/ LoadSnapshot \/ LoadTails \/ Deliver
    \/ Restart

Spec == Init /\ [][Next]_sessionVars

----------------------------------------------------------------------------
(* Properties *)

\* Two run loops never run at once, on one database or on two: get_or_create
\* and reset boot a client only when the last one's loop has ended
\* (SessionManager::reset, "Hold the map lock for the whole reset").
OneLoop == \A g, h \in Gens : loop[g] = "running" /\ loop[h] = "running" => g = h

\* The client a reset boots has a device key that no earlier client had, unless
\* the old file outlived all attempts to delete it because of an error, or
\* because a command or a detached task still held its client.  Neither its run
\* loop nor a command that boots meanwhile is ever the reason (SessionManager::
\* reset, "wait for the task to actually end", "Hold the map lock").
KeyIsFresh ==
    \A g \in reborn : key[g] \in kept \/ \A h \in 1..(g - 1) : key[h] # key[g]

\* Once the user has seen a code of the current client, "dead" is about that
\* client: the end of a client taken down by a reset is never reported later.
DeadIsReal == ui.dead /\ map # 0 /\ ui.qr = map => loop[map] # "running"

AtRest ==
    /\ wire = <<>> /\ decoding = {} /\ \A g \in Gens : chan[g] = <<>>
    /\ front = "ready" /\ \A c \in Calls : Idle(c)

\* When nothing is under way the session store shows the account of the client
\* in the map, if the last status was neither lost nor outdated on arrival:
\* pairing and resets are followed by a refresh or clear the account.
StatusSettles ==
    AtRest /\ ~outdated /\ map # 0 /\ key[map] \notin kept => ui.jid = acct[key[map]]

\* After a reset and a new pairing, when nothing is under way, every row in the
\* stores and in the cache is of the account that is shown (events.ts, "do a full
\* reset so no stale state (cache or device key) can survive into a re-pair").
NoStaleState ==
    AtRest /\ map \in reborn /\ ui.jid # None => mem \cup idb \subseteq {ui.jid}

\* The guard of the step that is next for an invocation: all but the first need
\* nothing of anybody, and a database that cannot be deleted is given up.
CanGoOn(c) ==
    \/ call[c].at = "sent" /\ lock = Free
    \/ call[c].at \in {"clear", "join", "boot", "work"}
    \/ /\ call[c].at = "delete"
       /\ (platform = "windows" => ~Open(file)) \/ file # 0
    \/ call[c].at = "reply" /\ call[c].for \in Statuses \cup Resets

\* Every invocation can go on, or waits for the lock and its holder can.
WaitsEnd ==
    \A c \in Calls : ~Idle(c) =>
        \/ CanGoOn(c)
        \/ call[c].at = "sent" /\ lock \in Calls /\ CanGoOn(lock)

\* An invocation waits for nothing but its own next step or the lock, and the
\* holder of the lock can go on: no reset waits for a run loop that only the
\* server or the user would end, and none keeps the lock.
NobodyStuck ==
    /\ WaitsEnd
    /\ \A c \in Calls : CanGoOn(c) => ENABLED (Locks(c) \/ Answers(c))

============================================================================
