--------------------------- MODULE ClientLifecycle ---------------------------
(***************************************************************************)
(* The connection lifecycle of the client library: the run loop, connect,  *)
(* disconnect, logout, the two kinds of reconnect, the keepalive loop of   *)
(* each connection and the task that runs after each login                 *)
(* (rust-backend/src/client/lifecycle.rs, client/node_io.rs, keepalive.rs).*)
(*                                                                         *)
(* The tasks run on several threads and share atomic flags and mutexes     *)
(* that are locked one at a time.  A step is what a task does between two  *)
(* points at which another task can see a difference: a store to a flag,   *)
(* or an access to one of the three connection slots.                      *)
(*                                                                         *)
(* Connections are numbered in the order they are made.  Number n stands   *)
(* for its transport, its event channel, its socket and its shutdown       *)
(* notifier (0 is the notifier a new client starts with).  Logins are      *)
(* numbered by connection_generation.                                      *)
(***************************************************************************)
EXTENDS Naturals

CONSTANTS
    MaxConn,   \* bound: connections made
    MaxGen,    \* bound: logins
    NCallers,  \* bound: calls made from outside the library
    Handlers,  \* the handlers spawned: "streamend", "paired"
    Ops        \* the calls made: "connect", "disconnect", "logout", "reconnect"

ASSUME LifecycleAssumption ==
    /\ MaxConn \in Nat /\ MaxGen \in Nat /\ NCallers \in Nat
    /\ Handlers \subseteq {"streamend", "paired"}
    /\ Ops \subseteq {"connect", "disconnect", "logout", "reconnect"}

VARIABLES
    fl,        \* the atomic flags
    slot,      \* what transport, transport_events and noise_socket hold; 0 is None
    conn,      \* the connection whose notifier connection_shutdown holds
    fired,     \* the notifiers that have been fired
    closed,    \* the connections whose transport is closed, by us or by the peer
    gen,       \* connection_generation
    pc,        \* where each task is
    rx,        \* the connection whose event channel the reader took
    sig,       \* the notifier a reader or keepalive loop subscribed to
    err,       \* the reader ended with Err; later: the end was unexpected
    spawned    \* stanza handlers running concurrently with the reader

lifeVars == <<fl, slot, conn, fired, closed, gen, pc, rx, sig, err, spawned>>

\* What connecting and cleaning up leave alone.
rest == <<gen, rx, sig, err, spawned>>

Loop == <<"loop", 0>>

Callers == {<<"caller", i>> : i \in 1 .. NCallers}

Keepalive(n) == <<"keepalive", n>>

Keepalives == {Keepalive(n) : n \in 1 .. MaxConn}

Post(g) == <<"post", g>>

Timer(g) == <<"timer", g>>

Posts == {Post(g) : g \in 1 .. MaxGen}

Timers == {Timer(g) : g \in 1 .. MaxGen}

Proc == {Loop} \cup Callers \cup Keepalives \cup Posts \cup Timers

Flags == {"running", "expected", "auto", "intentional", "connecting",
          "connected", "loggedIn", "ready"}

Slots == {"transport", "events", "socket"}

\* The steps a task is between: connect, cleanup_connection_state,
\* disconnect, reconnect, reconnect_immediately, the reader, and the rest.
ConnectSteps == {"dialing", "i_transport", "i_events", "i_socket", "i_open"}

CleanupSteps == {"c_flags", "c_transport", "c_events", "c_socket", "c_open"}

ReaderSteps == {"reading", "login", "frame"}

Steps == ConnectSteps \cup CleanupSteps \cup ReaderSteps \cup
         {"none", "idle", "done", "start", "check", "begin", "connect", "take",
          "subscribe", "left", "after", "sleep", "ended",
          "d_expected", "d_running", "d_fire", "d_close",
          "l_auto", "r_intent", "r_fire", "r_close", "n_expected", "n_fire", "n_close",
          "spawned", "watching", "init", "sync", "announce", "armed"}

Goto(p, s) == pc' = [pc EXCEPT ![p] = s]

Set(f, b) == fl' = [fl EXCEPT ![f] = b]

Put(s, n) == slot' = [slot EXCEPT ![s] = n]

\* transport.disconnect() on what the slot holds, if anything.
CloseSlot == closed' = closed \cup ({slot["transport"]} \ {0})

Fire == fired' = fired \cup {conn}

-----------------------------------------------------------------------------
(* Client::connect, called by the run loop and by the connect command.      *)

\* Where a task goes on after connect or after cleanup_connection_state.
ConnectFailed(p) == IF p = Loop THEN "after" ELSE "done"

ConnectReturned(p) == IF p = Loop THEN "take" ELSE "done"

CleanedUp(p) == IF p = Loop THEN "after" ELSE "done"

\* Fault: two tasks may dial at once.
ConnectStartUnlocked(p) ==
    /\ pc[p] = "connect"
    /\ \/ /\ fl["connected"]
          /\ Goto(p, ConnectFailed(p))
          /\ UNCHANGED fl
       \/ /\ ~fl["connected"]
          /\ fl' = [fl EXCEPT !["connecting"] = TRUE, !["loggedIn"] = FALSE,
                              !["ready"] = FALSE, !["connected"] = FALSE]
          /\ Goto(p, "dialing")
    /\ UNCHANGED <<slot, conn, fired, closed, rest>>

\* is_connecting is the lock; AlreadyConnected is an error like any other.
ConnectStart(p) ==
    /\ pc[p] = "connect"
    /\ \/ /\ fl["connecting"] \/ fl["connected"]
          /\ Goto(p, ConnectFailed(p))
          /\ UNCHANGED fl
       \/ /\ ~fl["connecting"]
          /\ ~fl["connected"]
          /\ fl' = [fl EXCEPT !["connecting"] = TRUE, !["loggedIn"] = FALSE,
                              !["ready"] = FALSE, !["connected"] = FALSE]
          /\ Goto(p, "dialing")
    /\ UNCHANGED <<slot, conn, fired, closed, rest>>

\* The transport, the version fetch or the handshake fails or times out.
DialFails(p) ==
    /\ pc[p] = "dialing"
    /\ Set("connecting", FALSE)
    /\ Goto(p, ConnectFailed(p))
    /\ UNCHANGED <<slot, conn, fired, closed, rest>>

\* The handshake succeeds; reset_connection_shutdown makes a new notifier.
DialSucceeds(p) ==
    /\ pc[p] = "dialing"
    /\ conn < MaxConn
    /\ conn' = conn + 1
    /\ Goto(p, "i_transport")
    /\ UNCHANGED <<fl, slot, fired, closed, rest>>

Install(p) ==
    /\ \/ pc[p] = "i_transport" /\ Put("transport", conn) /\ Goto(p, "i_events")
       \/ pc[p] = "i_events" /\ Put("events", conn) /\ Goto(p, "i_socket")
       \/ pc[p] = "i_socket" /\ Put("socket", conn) /\ Goto(p, "i_open")
    /\ UNCHANGED <<fl, conn, fired, closed, rest>>

\* is_connected is set, the keepalive loop spawned and is_connecting dropped.
Connected(p) ==
    /\ pc[p] = "i_open"
    /\ fl' = [fl EXCEPT !["connected"] = TRUE, !["connecting"] = FALSE]
    /\ pc' = [pc EXCEPT ![p] = ConnectReturned(p), ![Keepalive(conn)] = "spawned"]
    /\ UNCHANGED <<slot, conn, fired, closed, rest>>

Connect(p) ==
    ConnectStart(p) \/ DialFails(p) \/ DialSucceeds(p) \/ Install(p) \/ Connected(p)

-----------------------------------------------------------------------------
(* cleanup_connection_state, called by the run loop and by disconnect.      *)

\* Fault: the login outlives its connection.
CleanupFlagsKeepingLogin(p) ==
    /\ pc[p] = "c_flags"
    /\ Set("ready", FALSE)
    /\ Fire
    /\ Goto(p, "c_transport")
    /\ UNCHANGED <<slot, conn, closed, rest>>

\* Fault: the tasks of the connection are not told.
CleanupFlagsSilent(p) ==
    /\ pc[p] = "c_flags"
    /\ fl' = [fl EXCEPT !["loggedIn"] = FALSE, !["ready"] = FALSE]
    /\ Goto(p, "c_transport")
    /\ UNCHANGED <<slot, conn, fired, closed, rest>>

CleanupFlags(p) ==
    /\ pc[p] = "c_flags"
    /\ fl' = [fl EXCEPT !["loggedIn"] = FALSE, !["ready"] = FALSE]
    /\ Fire
    /\ Goto(p, "c_transport")
    /\ UNCHANGED <<slot, conn, closed, rest>>

\* Fault: the transport is dropped without being closed.
CleanupSlotsOpen(p) ==
    /\ \/ pc[p] = "c_transport" /\ Put("transport", 0) /\ Goto(p, "c_events")
       \/ pc[p] = "c_events" /\ Put("events", 0) /\ Goto(p, "c_socket")
       \/ pc[p] = "c_socket" /\ Put("socket", 0) /\ Goto(p, "c_open")
    /\ UNCHANGED <<fl, conn, fired, closed, rest>>

CleanupSlots(p) ==
    /\ \/ /\ pc[p] = "c_transport"
          /\ CloseSlot
          /\ Put("transport", 0)
          /\ Goto(p, "c_events")
       \/ /\ pc[p] = "c_events"
          /\ Put("events", 0)
          /\ Goto(p, "c_socket")
          /\ UNCHANGED closed
       \/ /\ pc[p] = "c_socket"
          /\ Put("socket", 0)
          /\ Goto(p, "c_open")
          /\ UNCHANGED closed
    /\ UNCHANGED <<fl, conn, fired, rest>>

\* Fault: the client still says that it is connected.
CleanupOpenForgotten(p) ==
    /\ pc[p] = "c_open"
    /\ Goto(p, CleanedUp(p))
    /\ UNCHANGED <<fl, slot, conn, fired, closed, rest>>

CleanupOpen(p) ==
    /\ pc[p] = "c_open"
    /\ Set("connected", FALSE)
    /\ Goto(p, CleanedUp(p))
    /\ UNCHANGED <<slot, conn, fired, closed, rest>>

Cleanup(p) == CleanupFlags(p) \/ CleanupSlots(p) \/ CleanupOpen(p)

-----------------------------------------------------------------------------
(* Client::run.                                                             *)

LoopStart ==
    /\ pc[Loop] = "start"
    /\ Set("running", TRUE)
    /\ Goto(Loop, "check")
    /\ UNCHANGED <<slot, conn, fired, closed, rest>>

LoopCheck ==
    /\ pc[Loop] = "check"
    /\ Goto(Loop, IF fl["running"] THEN "begin" ELSE "ended")
    /\ UNCHANGED <<fl, slot, conn, fired, closed, rest>>

LoopBegin ==
    /\ pc[Loop] = "begin"
    /\ Set("expected", FALSE)
    /\ Goto(Loop, "connect")
    /\ UNCHANGED <<slot, conn, fired, closed, rest>>

\* What the end of the reader means.  The flag of reconnect() is consumed only
\* by an Err that expected_disconnect does not already explain.  From here on
\* err says whether Disconnected is dispatched after the cleanup.
LoopJudge ==
    /\ pc[Loop] = "left"
    /\ \/ /\ err /\ ~fl["expected"]
          /\ err' = ~fl["intentional"]
          /\ Set("intentional", FALSE)
       \/ /\ ~err \/ fl["expected"]
          /\ err' = FALSE
          /\ UNCHANGED fl
    /\ Goto(Loop, "c_flags")
    /\ UNCHANGED <<slot, conn, fired, closed, gen, rx, sig, spawned>>

\* Fault: an expected disconnect reconnects without looking at is_running.
LoopAfterUnchecked ==
    /\ pc[Loop] = "after"
    /\ \/ /\ ~fl["auto"]
          /\ Set("running", FALSE)
          /\ Goto(Loop, "ended")
       \/ /\ fl["auto"]
          /\ Goto(Loop, IF fl["expected"] THEN "begin" ELSE "sleep")
          /\ UNCHANGED fl
    /\ UNCHANGED <<slot, conn, fired, closed, rest>>

\* After a failed connect or a cleanup: stop, reconnect at once, or back off.
LoopAfter ==
    /\ pc[Loop] = "after"
    /\ \/ /\ ~fl["auto"]
          /\ Set("running", FALSE)
          /\ Goto(Loop, "ended")
       \/ /\ fl["auto"]
          /\ Goto(Loop, IF fl["expected"] THEN "check" ELSE "sleep")
          /\ UNCHANGED fl
    /\ UNCHANGED <<slot, conn, fired, closed, rest>>

\* The backoff is over.  Nothing cuts it short.
LoopWake ==
    /\ pc[Loop] = "sleep"
    /\ Goto(Loop, "check")
    /\ UNCHANGED <<fl, slot, conn, fired, closed, rest>>

-----------------------------------------------------------------------------
(* read_messages_loop and the handlers it runs inline.                      *)

Leave(failed) ==
    /\ err' = failed
    /\ Goto(Loop, "left")

ReaderTake ==
    /\ pc[Loop] = "take"
    /\ \/ /\ slot["events"] = 0
          /\ Leave(TRUE)
          /\ UNCHANGED <<slot, rx>>
       \/ /\ slot["events"] # 0
          /\ rx' = slot["events"]
          /\ Put("events", 0)
          /\ Goto(Loop, "subscribe")
          /\ UNCHANGED err
    /\ UNCHANGED <<fl, conn, fired, closed, gen, sig, spawned>>

ReaderSubscribe ==
    /\ pc[Loop] = "subscribe"
    /\ \/ /\ slot["socket"] = 0
          /\ Leave(TRUE)
          /\ UNCHANGED sig
       \/ /\ slot["socket"] # 0
          /\ sig' = [sig EXCEPT ![Loop] = conn]
          /\ Goto(Loop, "reading")
          /\ UNCHANGED err
    /\ UNCHANGED <<fl, slot, conn, fired, closed, gen, rx, spawned>>

\* The notifier was fired, or the transport reports that it is closed.
ReaderStops ==
    /\ pc[Loop] = "reading"
    /\ \/ sig[Loop] \in fired /\ Leave(FALSE)
       \/ rx \in closed /\ Leave(~fl["expected"])
    /\ UNCHANGED <<fl, slot, conn, fired, closed, gen, rx, sig, spawned>>

\* <success>: ignored when a disconnect is expected.
Success ==
    /\ pc[Loop] = "reading"
    /\ gen < MaxGen
    /\ Goto(Loop, IF fl["expected"] THEN "frame" ELSE "login")
    /\ UNCHANGED <<fl, slot, conn, fired, closed, rest>>

\* The rest of handle_success: only the first <success> of a connection counts.
Login ==
    /\ pc[Loop] = "login"
    /\ \/ /\ fl["loggedIn"]
          /\ Goto(Loop, "frame")
          /\ UNCHANGED <<fl, gen>>
       \/ /\ ~fl["loggedIn"]
          /\ gen < MaxGen
          /\ Set("loggedIn", TRUE)
          /\ gen' = gen + 1
          /\ pc' = [pc EXCEPT ![Loop] = "frame", ![Post(gen + 1)] = "init"]
    /\ UNCHANGED <<slot, conn, fired, closed, rx, sig, err, spawned>>

\* <stream:error>: 515 reconnects; 516, 401, 409 and a conflict end the client.
StreamError ==
    /\ pc[Loop] = "reading"
    /\ \E keep \in {fl["auto"], FALSE} :
          fl' = [fl EXCEPT !["expected"] = TRUE, !["auto"] = keep, !["loggedIn"] = FALSE]
    /\ CloseSlot
    /\ Fire
    /\ Goto(Loop, "frame")
    /\ UNCHANGED <<slot, conn, rest>>

\* 429 and 503 only log the client out.
SessionRejected ==
    /\ pc[Loop] = "reading"
    /\ Set("loggedIn", FALSE)
    /\ Goto(Loop, "frame")
    /\ UNCHANGED <<slot, conn, fired, closed, rest>>

\* <failure>: some reasons let the loop retry, the others end the client.
ConnectFailure ==
    /\ pc[Loop] = "reading"
    /\ \/ fl' = [fl EXCEPT !["expected"] = FALSE]
       \/ fl' = [fl EXCEPT !["expected"] = TRUE, !["auto"] = FALSE]
    /\ Fire
    /\ Goto(Loop, "frame")
    /\ UNCHANGED <<slot, conn, closed, rest>>

\* Any other frame.  <xmlstreamend> and <iq> are handled by a spawned task.
OtherFrame ==
    /\ pc[Loop] = "reading"
    /\ \E h \in SUBSET Handlers : spawned' = spawned \cup h
    /\ Goto(Loop, "frame")
    /\ UNCHANGED <<fl, slot, conn, fired, closed, gen, rx, sig, err>>

\* The check after each frame.
FrameDone ==
    /\ pc[Loop] = "frame"
    /\ \/ fl["expected"] /\ Leave(FALSE)
       \/ ~fl["expected"] /\ Goto(Loop, "reading") /\ UNCHANGED err
    /\ UNCHANGED <<fl, slot, conn, fired, closed, gen, rx, sig, spawned>>

Frame == Success \/ StreamError \/ SessionRejected \/ ConnectFailure \/ OtherFrame

\* The spawned handlers act on whatever connection is current by then.
StreamEnd ==
    /\ "streamend" \in spawned
    /\ spawned' = spawned \ {"streamend"}
    /\ Fire
    /\ UNCHANGED <<fl, slot, conn, closed, gen, pc, rx, sig, err>>

PairSuccess ==
    /\ "paired" \in spawned
    /\ spawned' = spawned \ {"paired"}
    /\ Set("expected", TRUE)
    /\ UNCHANGED <<slot, conn, fired, closed, gen, pc, rx, sig, err>>

\* The peer or the network closes a connection.
PeerCloses(n) ==
    /\ n \in (1 .. conn) \ closed
    /\ closed' = closed \cup {n}
    /\ UNCHANGED <<fl, slot, conn, fired, pc, rest>>

-----------------------------------------------------------------------------
(* disconnect, logout, reconnect and reconnect_immediately.                 *)

\* A call begins.  The expiry of the last QR code is a disconnect too.
Call(c) ==
    /\ pc[c] = "idle"
    /\ \/ "connect" \in Ops /\ Goto(c, "connect")
       \/ "disconnect" \in Ops /\ Goto(c, "d_expected")
       \/ "logout" \in Ops /\ Goto(c, "l_auto")
       \/ "reconnect" \in Ops /\ Goto(c, "r_intent")
    /\ UNCHANGED <<fl, slot, conn, fired, closed, rest>>

\* The flags of a call are stored one at a time.
CallFlag(c) ==
    /\ \/ pc[c] = "l_auto" /\ Set("auto", FALSE) /\ Goto(c, "d_expected")
       \/ pc[c] = "d_expected" /\ Set("expected", TRUE) /\ Goto(c, "d_running")
       \/ pc[c] = "d_running" /\ Set("running", FALSE) /\ Goto(c, "d_fire")
    /\ UNCHANGED <<slot, conn, fired, closed, rest>>

ReconnectFlag(c) ==
    /\ pc[c] = "r_intent"
    /\ Set("intentional", TRUE)
    /\ Goto(c, "r_fire")
    /\ UNCHANGED <<slot, conn, fired, closed, rest>>

\* reconnect_immediately, which the keepalive loop and the sync timer call.
ReconnectNowFlag(p) ==
    /\ pc[p] = "n_expected"
    /\ Set("expected", TRUE)
    /\ Goto(p, "n_fire")
    /\ UNCHANGED <<slot, conn, fired, closed, rest>>

\* Each of them fires the current notifier once the outbound queue is flushed,
AfterFire == [d_fire |-> "d_close", r_fire |-> "r_close", n_fire |-> "n_close"]

CallFire(p) ==
    /\ pc[p] \in DOMAIN AfterFire
    /\ Fire
    /\ Goto(p, AfterFire[pc[p]])
    /\ UNCHANGED <<fl, slot, conn, closed, rest>>

\* and closes the current transport.  Only disconnect cleans up itself.
AfterClose == [d_close |-> "c_flags", r_close |-> "done", n_close |-> "done"]

CallClose(p) ==
    /\ pc[p] \in DOMAIN AfterClose
    /\ CloseSlot
    /\ Goto(p, AfterClose[pc[p]])
    /\ UNCHANGED <<fl, slot, conn, fired, rest>>

-----------------------------------------------------------------------------
(* keepalive_loop.                                                          *)

\* The loop is polled for the first time and subscribes.
KeepaliveStart(n) ==
    /\ pc[Keepalive(n)] = "spawned"
    /\ sig' = [sig EXCEPT ![Keepalive(n)] = conn]
    /\ Goto(Keepalive(n), "watching")
    /\ UNCHANGED <<fl, slot, conn, fired, closed, gen, rx, err, spawned>>

\* It ends when the notifier fires, and at a tick that finds the client not
\* connected or cannot send the ping.
KeepaliveEnds(n) ==
    /\ pc[Keepalive(n)] = "watching"
    /\ \/ sig[Keepalive(n)] \in fired
       \/ ~fl["connected"]
       \/ slot["socket"] = 0
       \/ slot["socket"] \in closed
    /\ Goto(Keepalive(n), "done")
    /\ UNCHANGED <<fl, slot, conn, fired, closed, rest>>

\* Fault: a dead socket ends the keepalive loop and nothing else.
KeepaliveGivesUp(n) ==
    /\ pc[Keepalive(n)] = "watching"
    /\ fl["connected"]
    /\ Goto(Keepalive(n), "done")
    /\ UNCHANGED <<fl, slot, conn, fired, closed, rest>>

\* A tick finds that nothing was received since the last send.
KeepaliveDead(n) ==
    /\ pc[Keepalive(n)] = "watching"
    /\ fl["connected"]
    /\ Goto(Keepalive(n), "n_expected")
    /\ UNCHANGED <<fl, slot, conn, fired, closed, rest>>

-----------------------------------------------------------------------------
(* The task spawned by handle_success, and the timer of the critical sync.  *)

\* The task is dropped at the next check after a newer login; until the
\* background queries it is also dropped when the client is not connected.
PostInit(g) ==
    /\ pc[Post(g)] = "init"
    /\ \/ /\ gen = g /\ fl["connected"]
          /\ \/ Goto(Post(g), "announce")
             \/ pc' = [pc EXCEPT ![Post(g)] = "sync", ![Timer(g)] = "armed"]
       \/ /\ gen # g \/ ~fl["connected"]
          /\ Goto(Post(g), "done")
    /\ UNCHANGED <<fl, slot, conn, fired, closed, rest>>

\* The critical sync ends: the handle of the timer is aborted after a success
\* and dropped, which aborts it too, after a failure.
PostSynced(g) ==
    /\ pc[Post(g)] = "sync"
    /\ \E s \in {"done", IF gen = g THEN "announce" ELSE "done"} :
          pc' = [pc EXCEPT ![Post(g)] = s, ![Timer(g)] = "done"]
    /\ UNCHANGED <<fl, slot, conn, fired, closed, rest>>

\* dispatch_connected, after the presence subscriptions were renewed.
PostAnnounce(g) ==
    /\ pc[Post(g)] = "announce"
    /\ Goto(Post(g), "done")
    /\ \/ gen = g /\ Set("ready", TRUE)
       \/ gen # g /\ UNCHANGED fl
    /\ UNCHANGED <<slot, conn, fired, closed, rest>>

\* 180 seconds passed: reconnect unless there was a newer login or the push
\* name has arrived.
TimerFires(g) ==
    /\ pc[Timer(g)] = "armed"
    /\ \/ gen = g /\ Goto(Timer(g), "n_expected")
       \/ Goto(Timer(g), "done")
    /\ UNCHANGED <<fl, slot, conn, fired, closed, rest>>

-----------------------------------------------------------------------------
LifeInit ==
    /\ fl = [f \in Flags |-> f = "auto"]
    /\ slot = [s \in Slots |-> 0]
    /\ conn = 0 /\ fired = {} /\ closed = {} /\ gen = 0
    /\ pc = [p \in Proc |-> IF p = Loop THEN "start"
                            ELSE IF p \in Callers THEN "idle" ELSE "none"]
    /\ rx = 0
    /\ sig = [p \in {Loop} \cup Keepalives |-> 0]
    /\ err = FALSE /\ spawned = {}

\* The steps of the run loop that depend on no message of the server.
LoopStep ==
    \/ LoopStart \/ LoopCheck \/ LoopBegin \/ LoopJudge \/ LoopAfter \/ LoopWake
    \/ ReaderTake \/ ReaderSubscribe \/ Login \/ FrameDone
    \/ Connect(Loop) \/ Cleanup(Loop)

CallerStep(c) ==
    CallFlag(c) \/ ReconnectFlag(c) \/ CallFire(c) \/ CallClose(c) \/ Connect(c) \/ Cleanup(c)

ReconnectNow(p) == ReconnectNowFlag(p) \/ CallFire(p) \/ CallClose(p)

KeepaliveStep(n) ==
    KeepaliveStart(n) \/ KeepaliveEnds(n) \/ ReconnectNow(Keepalive(n))

PostStep(g) == PostInit(g) \/ PostSynced(g) \/ PostAnnounce(g)

TimerStep(g) == TimerFires(g) \/ ReconnectNow(Timer(g))

LifeNext ==
    \/ LoopStep \/ ReaderStops \/ Frame \/ StreamEnd \/ PairSuccess
    \/ \E n \in 1 .. MaxConn : PeerCloses(n) \/ KeepaliveStep(n) \/ KeepaliveDead(n)
    \/ \E c \in Callers : Call(c) \/ CallerStep(c)
    \/ \E g \in 1 .. MaxGen : PostStep(g) \/ TimerStep(g)

LifeSpec == LifeInit /\ [][LifeNext]_lifeVars

\* Tasks that are ready run, calls return and timers fire, and a server that is
\* connected goes on sending frames: it answers the pings.  Nothing is assumed of
\* what it sends, of the network and of callers.  A reader that is told to stop again and
\* again between frames stops: the frames already received are finitely many.
LifeFair ==
    /\ WF_lifeVars(LoopStep) /\ SF_lifeVars(ReaderStops) /\ WF_lifeVars(Frame)
    /\ WF_lifeVars(StreamEnd) /\ WF_lifeVars(PairSuccess)
    /\ \A c \in Callers : WF_lifeVars(CallerStep(c))
    /\ \A n \in 1 .. MaxConn : WF_lifeVars(KeepaliveStep(n))
    /\ \A g \in 1 .. MaxGen : WF_lifeVars(PostStep(g)) /\ WF_lifeVars(TimerStep(g))

LifeFairSpec == LifeSpec /\ LifeFair

-----------------------------------------------------------------------------
\* Types.
LifeTypeOK ==
    /\ fl \in [Flags -> BOOLEAN]
    /\ slot \in [Slots -> 0 .. MaxConn]
    /\ conn \in 0 .. MaxConn
    /\ fired \subseteq 0 .. MaxConn
    /\ closed \subseteq 1 .. MaxConn
    /\ gen \in 0 .. MaxGen
    /\ pc \in [Proc -> Steps]
    /\ rx \in 0 .. MaxConn
    /\ sig \in [{Loop} \cup Keepalives -> 0 .. MaxConn]
    /\ err \in BOOLEAN
    /\ spawned \subseteq Handlers

\* At most one task is past the is_connecting swap of connect: the run loop and
\* a connect command never dial, or install a connection, at the same time.
OneConnectAtATime ==
    \A p, q \in Proc : (pc[p] \in ConnectSteps /\ pc[q] \in ConnectSteps) => p = q

\* The client says it is logged in only while the run loop reads a connection
\* or is about to clean up after it, although disconnect and its own cleanup run
\* beside the handler of <success>.  In particular is_logged_in is false whenever
\* run returns.
LoginHasReader ==
    fl["loggedIn"] => pc[Loop] \in ReaderSteps \cup {"left", "c_flags"}

\* When run returns every transport it opened has been closed, whoever won the
\* race to take it out of its slot (no connect command).
ClosedAtEnd == pc[Loop] = "ended" => 1 .. conn \subseteq closed

\* A reader or keepalive loop either subscribed to the current connection or has
\* been told to stop: no loop of an old connection runs on unnoticed beside the
\* next one (no connect command).
OldLoopsAreTold ==
    /\ pc[Loop] \in ReaderSteps => sig[Loop] \in fired \cup {conn}
    /\ \A n \in 1 .. MaxConn :
         pc[Keepalive(n)] = "watching" => sig[Keepalive(n)] \in fired \cup {conn}

Watching(n) ==
    pc[Keepalive(n)] \in {"spawned", "watching", "n_expected", "n_fire", "n_close"}

\* While the loop reads a connection that is neither closed nor told to stop,
\* some keepalive loop watches for a dead socket: otherwise a connection that
\* dies silently would never be replaced (no disconnect).
ReaderIsWatched ==
    (pc[Loop] \in ReaderSteps /\ sig[Loop] \notin fired /\ rx \notin closed)
        => \E n \in 1 .. MaxConn : Watching(n)

\* The run loop never stops trying: until it ends it is always going to dial or
\* to read again, whatever the server, the network and callers do.
KeepsTrying == []<>(pc[Loop] \in {"dialing", "reading", "ended"})

\* A disconnect that has cleared is_running while the loop is reading makes run
\* return, whatever else ends the connection in the meantime.
DisconnectStopsReader ==
    (pc[Loop] = "reading" /\ ~fl["running"] /\ \E c \in Callers : pc[c] = "d_fire")
        ~> (pc[Loop] = "ended")

=============================================================================
