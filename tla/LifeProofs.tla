------------------------------ MODULE LifeProofs ------------------------------
(***************************************************************************)
(* What is proved about the connection lifecycle, for any number of        *)
(* connections, logins and callers: who holds which lock, what the run     *)
(* loop leaves behind, and that a reader is watched until it is told.      *)
(***************************************************************************)
EXTENDS ClientLifecycle, TLAPS

\* The run loop is none of the other tasks.
LEMMA LoopIsApart ==
    /\ Loop \in Proc
    /\ Loop \notin Callers
    /\ \A n : Keepalive(n) # Loop
    /\ \A g : Post(g) # Loop /\ Timer(g) # Loop
BY Zenon DEF Proc, Loop, Callers, Keepalive, Post, Timer

\* Every task that takes a step is one of Proc.
LEMMA TasksAreProc ==
    /\ Callers \subseteq Proc
    /\ \A n \in 1 .. MaxConn : Keepalive(n) \in Proc /\ Keepalive(n) \in Keepalives
    /\ \A g \in 1 .. MaxGen : Post(g) \in Proc /\ Timer(g) \in Proc
BY Zenon DEF Proc, Keepalives, Posts, Timers

\* What the abbreviations of the steps do to the types of what they change.
LEMMA UpdateTypes ==
    ASSUME LifeTypeOK
    PROVE  /\ \A p, s : (s \in Steps /\ Goto(p, s)) => pc' \in [Proc -> Steps]
           /\ \A f, b : (b \in BOOLEAN /\ Set(f, b)) => fl' \in [Flags -> BOOLEAN]
           /\ \A s, n : (n \in 0 .. MaxConn /\ Put(s, n)) => slot' \in [Slots -> 0 .. MaxConn]
           /\ CloseSlot => closed' \subseteq 1 .. MaxConn
           /\ Fire => fired' \subseteq 0 .. MaxConn
<1>1. slot["transport"] \in 0 .. MaxConn
  BY Zenon DEF LifeTypeOK, Slots
<1>2. CloseSlot => closed' \subseteq 1 .. MaxConn
  <2>1. {slot["transport"]} \ {0} \subseteq 1 .. MaxConn
    BY <1>1, LifecycleAssumption
  <2> QED
    BY <2>1, Zenon DEF LifeTypeOK, CloseSlot
<1>3. \A f, b : (b \in BOOLEAN /\ Set(f, b)) => fl' \in [Flags -> BOOLEAN]
  BY Zenon DEF LifeTypeOK, Set
<1>4. \A p, s : (s \in Steps /\ Goto(p, s)) => pc' \in [Proc -> Steps]
  BY Zenon DEF LifeTypeOK, Goto
<1>5. \A s, n : (n \in 0 .. MaxConn /\ Put(s, n)) => slot' \in [Slots -> 0 .. MaxConn]
  BY Zenon DEF LifeTypeOK, Put
<1>6. Fire => fired' \subseteq 0 .. MaxConn
  BY Zenon DEF LifeTypeOK, Fire
<1> QED
  BY <1>2, <1>3, <1>4, <1>5, <1>6, Zenon

\* A new client has a type.
LEMMA TypeInit == LifeInit => LifeTypeOK
<1> SUFFICES ASSUME LifeInit PROVE LifeTypeOK
  BY Zenon
<1>1. pc \in [Proc -> Steps]
  BY Zenon DEF LifeInit, Steps
<1>2. fl \in [Flags -> BOOLEAN]
  BY Zenon DEF LifeInit
<1>3. /\ slot \in [Slots -> 0 .. MaxConn]
      /\ sig \in [{Loop} \cup Keepalives -> 0 .. MaxConn]
      /\ conn \in 0 .. MaxConn /\ rx \in 0 .. MaxConn
      /\ gen \in 0 .. MaxGen
  BY LifecycleAssumption DEF LifeInit
<1> QED
  BY <1>1, <1>2, <1>3, Zenon DEF LifeInit, LifeTypeOK

\* connect keeps the types.
LEMMA TypeConnect ==
    ASSUME LifeTypeOK, NEW p \in Proc, Connect(p)
    PROVE  LifeTypeOK'
<1> USE UpdateTypes
<1>1. CASE ConnectStart(p)
  <2>1. fl' \in [Flags -> BOOLEAN]
    BY <1>1, Zenon DEF LifeTypeOK, ConnectStart
  <2>2. pc' \in [Proc -> Steps]
    BY <1>1, Zenon DEF ConnectStart, ConnectFailed, Steps, ConnectSteps
  <2> QED
    BY <1>1, <2>1, <2>2, Zenon DEF LifeTypeOK, ConnectStart, rest
<1>2. CASE DialFails(p)
  BY <1>2, Zenon DEF LifeTypeOK, DialFails, rest, ConnectFailed, Steps
<1>3. CASE DialSucceeds(p)
  BY <1>3, LifecycleAssumption DEF LifeTypeOK, DialSucceeds, rest, Steps, ConnectSteps
<1>4. CASE Install(p)
  BY <1>4, Zenon DEF LifeTypeOK, Install, rest, Steps, ConnectSteps
<1>5. CASE Connected(p)
  <2>1. fl' \in [Flags -> BOOLEAN]
    BY <1>5, Zenon DEF LifeTypeOK, Connected
  <2>2. pc' \in [Proc -> Steps]
    BY <1>5, Zenon DEF LifeTypeOK, Connected, ConnectReturned, Steps
  <2> QED
    BY <1>5, <2>1, <2>2, Zenon DEF LifeTypeOK, Connected, rest
<1> QED
  BY <1>1, <1>2, <1>3, <1>4, <1>5, Zenon DEF Connect

\* cleanup_connection_state keeps the types.
LEMMA TypeCleanup ==
    ASSUME LifeTypeOK, NEW p \in Proc, Cleanup(p)
    PROVE  LifeTypeOK'
<1> USE UpdateTypes
<1>1. CASE CleanupFlags(p)
  <2>1. fl' \in [Flags -> BOOLEAN]
    BY <1>1, Zenon DEF LifeTypeOK, CleanupFlags
  <2> QED
    BY <1>1, <2>1, Zenon DEF LifeTypeOK, CleanupFlags, rest, Steps, CleanupSteps
<1>2. CASE CleanupSlots(p)
  <2>1. 0 \in 0 .. MaxConn
    BY LifecycleAssumption
  <2>3. slot' \in [Slots -> 0 .. MaxConn]
    BY <1>2, <2>1, Zenon DEF CleanupSlots
  <2>4. closed' \subseteq 1 .. MaxConn
    BY <1>2, Zenon DEF LifeTypeOK, CleanupSlots
  <2>2. pc' \in [Proc -> Steps]
    BY <1>2, Zenon DEF CleanupSlots, Steps, CleanupSteps
  <2> QED
    BY <1>2, <2>2, <2>3, <2>4, Zenon DEF LifeTypeOK, CleanupSlots, rest
<1>3. CASE CleanupOpen(p)
  BY <1>3, Zenon DEF LifeTypeOK, CleanupOpen, CleanedUp, rest, Steps
<1> QED
  BY <1>1, <1>2, <1>3, Zenon DEF Cleanup

\* The other steps of the run loop keep the types.
LEMMA TypeLoop ==
    ASSUME LifeTypeOK,
           LoopStart \/ LoopCheck \/ LoopBegin \/ LoopJudge \/ LoopAfter \/ LoopWake
    PROVE  LifeTypeOK'
<1> USE UpdateTypes
<1>1. CASE LoopStart
  BY <1>1, Zenon DEF LifeTypeOK, LoopStart, rest, Steps
<1>2. CASE LoopCheck
  BY <1>2, Zenon DEF LifeTypeOK, LoopCheck, rest, Steps
<1>3. CASE LoopBegin
  BY <1>3, Zenon DEF LifeTypeOK, LoopBegin, rest, Steps
<1>4. CASE LoopJudge
  <2>1. fl' \in [Flags -> BOOLEAN] /\ err' \in BOOLEAN
    BY <1>4, Zenon DEF LifeTypeOK, LoopJudge
  <2> QED
    BY <1>4, <2>1, Zenon DEF LifeTypeOK, LoopJudge, Steps, CleanupSteps
<1>5. CASE LoopAfter
  <2>1. fl' \in [Flags -> BOOLEAN]
    BY <1>5, Zenon DEF LifeTypeOK, LoopAfter
  <2>2. pc' \in [Proc -> Steps]
    BY <1>5, Zenon DEF LoopAfter, Steps
  <2> QED
    BY <1>5, <2>1, <2>2, Zenon DEF LifeTypeOK, LoopAfter, rest
<1>6. CASE LoopWake
  BY <1>6, Zenon DEF LifeTypeOK, LoopWake, rest, Steps
<1> QED
  BY <1>1, <1>2, <1>3, <1>4, <1>5, <1>6, Zenon

\* read_messages_loop keeps the types.
LEMMA TypeReader ==
    ASSUME LifeTypeOK,
           ReaderTake \/ ReaderSubscribe \/ ReaderStops \/ Login \/ FrameDone
    PROVE  LifeTypeOK'
<1> USE UpdateTypes
<1>1. CASE ReaderTake
  <2>1. slot["events"] \in 0 .. MaxConn /\ 0 \in 0 .. MaxConn
    BY LifecycleAssumption DEF LifeTypeOK, Slots
  <2>2. slot' \in [Slots -> 0 .. MaxConn] /\ rx' \in 0 .. MaxConn
    BY <1>1, <2>1, Zenon DEF LifeTypeOK, ReaderTake
  <2>3. pc' \in [Proc -> Steps] /\ err' \in BOOLEAN
    BY <1>1, Zenon DEF LifeTypeOK, ReaderTake, Leave, Steps
  <2> QED
    BY <1>1, <2>2, <2>3, Zenon DEF LifeTypeOK, ReaderTake
<1>2. CASE ReaderSubscribe
  <2>1. sig' \in [{Loop} \cup Keepalives -> 0 .. MaxConn]
    BY <1>2, Zenon DEF LifeTypeOK, ReaderSubscribe
  <2>2. pc' \in [Proc -> Steps] /\ err' \in BOOLEAN
    BY <1>2, Zenon DEF LifeTypeOK, ReaderSubscribe, Leave, Steps, ReaderSteps
  <2> QED
    BY <1>2, <2>1, <2>2, Zenon DEF LifeTypeOK, ReaderSubscribe
<1>3. CASE ReaderStops
  <2>1. err' \in BOOLEAN
    BY <1>3, Zenon DEF ReaderStops, Leave
  <2> QED
    BY <1>3, <2>1, Zenon DEF LifeTypeOK, ReaderStops, Leave, Steps
<1>4. CASE Login
  <2>1. fl' \in [Flags -> BOOLEAN]
    BY <1>4, Zenon DEF LifeTypeOK, Login
  <2>2. pc' \in [Proc -> Steps]
    BY <1>4, ZenonT(30) DEF LifeTypeOK, Login, Steps, ReaderSteps
  <2>3. gen' \in 0 .. MaxGen
    <3>1. gen' = gen \/ (gen < MaxGen /\ gen' = gen + 1)
      BY <1>4, Zenon DEF Login
    <3> QED
      BY <3>1, LifecycleAssumption DEF LifeTypeOK
  <2> QED
    BY <1>4, <2>1, <2>2, <2>3, Zenon DEF LifeTypeOK, Login
<1>5. CASE FrameDone
  BY <1>5, Zenon DEF LifeTypeOK, FrameDone, Leave, Steps, ReaderSteps
<1> QED
  BY <1>1, <1>2, <1>3, <1>4, <1>5, Zenon

\* The frames and the handlers they spawn.
LEMMA TypeFrame ==
    ASSUME LifeTypeOK, Frame \/ StreamEnd \/ PairSuccess
    PROVE  LifeTypeOK'
<1> USE UpdateTypes
<1>1. CASE Success
  BY <1>1, Zenon DEF LifeTypeOK, Success, rest, Steps, ReaderSteps
<1>2. CASE StreamError
  <2>1. fl' \in [Flags -> BOOLEAN]
    <3>1. PICK keep \in {fl["auto"], FALSE} :
            fl' = [fl EXCEPT !["expected"] = TRUE, !["auto"] = keep, !["loggedIn"] = FALSE]
      BY <1>2, Zenon DEF StreamError
    <3>2. keep \in BOOLEAN
      BY <3>1, Zenon DEF LifeTypeOK, Flags
    <3> QED
      BY <3>1, <3>2, Zenon DEF LifeTypeOK
  <2> QED
    BY <1>2, <2>1, Zenon DEF LifeTypeOK, StreamError, rest, Steps, ReaderSteps
<1>3. CASE SessionRejected
  BY <1>3, Zenon DEF LifeTypeOK, SessionRejected, rest, Steps, ReaderSteps
<1>4. CASE ConnectFailure
  <2>1. fl' \in [Flags -> BOOLEAN]
    BY <1>4, Zenon DEF LifeTypeOK, ConnectFailure
  <2> QED
    BY <1>4, <2>1, Zenon DEF LifeTypeOK, ConnectFailure, rest, Steps, ReaderSteps
<1>5. CASE OtherFrame
  BY <1>5, Zenon DEF LifeTypeOK, OtherFrame, Steps, ReaderSteps
<1>6. CASE StreamEnd
  BY <1>6, Zenon DEF LifeTypeOK, StreamEnd
<1>7. CASE PairSuccess
  BY <1>7, Zenon DEF LifeTypeOK, PairSuccess
<1> QED
  BY <1>1, <1>2, <1>3, <1>4, <1>5, <1>6, <1>7, Zenon DEF Frame

\* Calls keep the types.
LEMMA TypeCall ==
    ASSUME LifeTypeOK, NEW p \in Proc,
           Call(p) \/ CallFlag(p) \/ ReconnectFlag(p) \/ ReconnectNowFlag(p)
             \/ CallFire(p) \/ CallClose(p)
    PROVE  LifeTypeOK'
<1> USE UpdateTypes
<1>1. CASE Call(p)
  BY <1>1, Zenon DEF LifeTypeOK, Call, rest, Steps
<1>2. CASE CallFlag(p)
  <2>1. fl' \in [Flags -> BOOLEAN]
    BY <1>2, Zenon DEF CallFlag
  <2>2. pc' \in [Proc -> Steps]
    BY <1>2, Zenon DEF CallFlag, Steps
  <2> QED
    BY <1>2, <2>1, <2>2, Zenon DEF LifeTypeOK, CallFlag, rest
<1>3. CASE ReconnectFlag(p)
  BY <1>3, Zenon DEF LifeTypeOK, ReconnectFlag, rest, Steps
<1>4. CASE ReconnectNowFlag(p)
  BY <1>4, Zenon DEF LifeTypeOK, ReconnectNowFlag, rest, Steps
<1>5. CASE CallFire(p)
  <2>1. AfterFire[pc[p]] \in Steps
    BY <1>5 DEF CallFire, AfterFire, Steps
  <2> QED
    BY <1>5, <2>1, Zenon DEF LifeTypeOK, CallFire, rest
<1>6. CASE CallClose(p)
  <2>1. AfterClose[pc[p]] \in Steps
    BY <1>6 DEF CallClose, AfterClose, Steps, CleanupSteps
  <2> QED
    BY <1>6, <2>1, Zenon DEF LifeTypeOK, CallClose, rest
<1> QED
  BY <1>1, <1>2, <1>3, <1>4, <1>5, <1>6, Zenon

\* Keepalive loops, post-login tasks and timers keep the types.
LEMMA TypeTask ==
    ASSUME LifeTypeOK, NEW n \in Nat,
           \/ n \in 1 .. MaxConn /\ (PeerCloses(n) \/ KeepaliveStart(n) \/ KeepaliveEnds(n) \/ KeepaliveDead(n))
           \/ n \in 1 .. MaxGen /\ (PostStep(n) \/ TimerFires(n))
    PROVE  LifeTypeOK'
<1> USE UpdateTypes
<1>1. CASE n \in 1 .. MaxConn /\ PeerCloses(n)
  BY <1>1, Zenon DEF LifeTypeOK, PeerCloses, rest
<1>2. CASE KeepaliveStart(n)
  BY <1>2, Zenon DEF LifeTypeOK, KeepaliveStart, Steps
<1>3. CASE KeepaliveEnds(n)
  BY <1>3, Zenon DEF LifeTypeOK, KeepaliveEnds, rest, Steps
<1>4. CASE KeepaliveDead(n)
  BY <1>4, Zenon DEF LifeTypeOK, KeepaliveDead, rest, Steps
<1>5. CASE PostInit(n)
  <2>1. pc' \in [Proc -> Steps]
    BY <1>5 DEF LifeTypeOK, PostInit, Steps
  <2> QED
    BY <1>5, <2>1, Zenon DEF LifeTypeOK, PostInit, rest
<1>6. CASE PostSynced(n)
  <2>1. pc' \in [Proc -> Steps]
    BY <1>6, ZenonT(30) DEF LifeTypeOK, PostSynced, Steps
  <2> QED
    BY <1>6, <2>1, Zenon DEF LifeTypeOK, PostSynced, rest
<1>7. CASE n \in 1 .. MaxGen /\ PostAnnounce(n)
  <2>1. fl' \in [Flags -> BOOLEAN]
    BY <1>7, Zenon DEF LifeTypeOK, PostAnnounce
  <2> QED
    BY <1>7, <2>1, Zenon DEF LifeTypeOK, PostAnnounce, rest, Steps
<1>8. CASE TimerFires(n)
  BY <1>8, Zenon DEF LifeTypeOK, TimerFires, rest, Steps
<1> QED
  BY <1>1, <1>2, <1>3, <1>4, <1>5, <1>6, <1>7, <1>8, Zenon DEF PostStep

-----------------------------------------------------------------------------
(* The kinds of steps.                                                      *)

LoopOwn == LoopStart \/ LoopCheck \/ LoopBegin \/ LoopJudge \/ LoopAfter \/ LoopWake

ReaderOwn == ReaderTake \/ ReaderSubscribe \/ ReaderStops \/ Login \/ FrameDone

FrameOwn == Frame \/ StreamEnd \/ PairSuccess

CallOwn(p) ==
    Call(p) \/ CallFlag(p) \/ ReconnectFlag(p) \/ ReconnectNowFlag(p) \/ CallFire(p) \/ CallClose(p)

TaskOwn(n) ==
    \/ n \in 1 .. MaxConn /\ (PeerCloses(n) \/ KeepaliveStart(n) \/ KeepaliveEnds(n) \/ KeepaliveDead(n))
    \/ n \in 1 .. MaxGen /\ (PostStep(n) \/ TimerFires(n))

\* Every step is of one of these kinds.
LEMMA StepKinds ==
    ASSUME LifeNext
    PROVE  \/ \E p \in {Loop} \cup Callers : Connect(p) \/ Cleanup(p)
           \/ LoopOwn \/ ReaderOwn \/ FrameOwn
           \/ \E p \in Proc \ {Loop} : CallOwn(p)
           \/ \E n \in Nat : TaskOwn(n)
<1>1. CASE LoopStep \/ ReaderStops \/ Frame \/ StreamEnd \/ PairSuccess
  BY <1>1, Zenon DEF LoopStep, LoopOwn, ReaderOwn, FrameOwn
<1>2. ASSUME NEW n \in 1 .. MaxConn, PeerCloses(n) \/ KeepaliveStep(n) \/ KeepaliveDead(n)
      PROVE  (\E p \in Proc \ {Loop} : CallOwn(p)) \/ (\E m \in Nat : TaskOwn(m))
  <2>1. Keepalive(n) \in Proc \ {Loop} /\ n \in Nat
    BY LoopIsApart, TasksAreProc
  <2> QED
    BY <1>2, <2>1, Zenon DEF KeepaliveStep, ReconnectNow, CallOwn, TaskOwn
<1>3. ASSUME NEW c \in Callers, Call(c) \/ CallerStep(c)
      PROVE  (\E p \in {Loop} \cup Callers : Connect(p) \/ Cleanup(p))
               \/ (\E p \in Proc \ {Loop} : CallOwn(p))
  <2>1. c \in Proc \ {Loop}
    BY LoopIsApart, TasksAreProc, Zenon
  <2> QED
    BY <1>3, <2>1, Zenon DEF CallerStep, CallOwn
<1>4. ASSUME NEW g \in 1 .. MaxGen, PostStep(g) \/ TimerStep(g)
      PROVE  (\E p \in Proc \ {Loop} : CallOwn(p)) \/ (\E m \in Nat : TaskOwn(m))
  <2>1. Timer(g) \in Proc \ {Loop} /\ g \in Nat
    BY LoopIsApart, TasksAreProc
  <2> QED
    BY <1>4, <2>1, Zenon DEF TimerStep, ReconnectNow, CallOwn, TaskOwn
<1> QED
  BY <1>1, <1>2, <1>3, <1>4, Zenon DEF LifeNext

\* A step that changes nothing keeps the types.
LEMMA TypeStutter ==
    ASSUME LifeTypeOK, UNCHANGED lifeVars
    PROVE  LifeTypeOK'
BY Zenon DEF LifeTypeOK, lifeVars

\* Every step keeps the types.
LEMMA TypeStep ==
    ASSUME LifeTypeOK, [LifeNext]_lifeVars
    PROVE  LifeTypeOK'
<1>1. CASE LifeNext
  <2>1. {Loop} \cup Callers \subseteq Proc
    BY LoopIsApart, TasksAreProc, Zenon
  <2> QED
    BY <1>1, <2>1, StepKinds, TypeConnect, TypeCleanup, TypeLoop, TypeReader, TypeFrame, TypeCall, TypeTask, Zenon
       DEF LoopOwn, ReaderOwn, FrameOwn, CallOwn, TaskOwn
<1>2. CASE UNCHANGED lifeVars
  BY <1>2, TypeStutter, Zenon
<1> QED
  BY <1>1, <1>2, Zenon

\* The lifecycle keeps its types: in particular no step counts a connection or a
\* login past its bound or leaves a task at a step that it does not have.
THEOREM LifeTypeCorrect == LifeSpec => []LifeTypeOK
<1>1. LifeInit => LifeTypeOK
  BY TypeInit, Zenon
<1>2. LifeTypeOK /\ [LifeNext]_lifeVars => LifeTypeOK'
  BY TypeStep, Zenon
<1> QED
  BY <1>1, <1>2, PTL DEF LifeSpec

-----------------------------------------------------------------------------
(* is_connecting and is_logged_in.                                          *)

\* is_connecting is held by whoever is inside connect.
ConnectLocked == \A p \in Proc : pc[p] \in ConnectSteps => fl["connecting"]

\* OneConnectAtATime is not inductive alone: the task that leaves connect gives
\* the lock back, and it has to be the only one that held it.
ExclInv == LifeTypeOK /\ OneConnectAtATime /\ ConnectLocked

\* A step that is not part of connect leaves the lock and its holder alone.
Quiet ==
    /\ fl'["connecting"] = fl["connecting"]
    /\ \A q \in Proc : pc'[q] \in ConnectSteps => pc[q] \in ConnectSteps

\* Cleaning up is quiet and logs out.
LEMMA QuietCleanup ==
    ASSUME LifeTypeOK, LoginHasReader, NEW p \in {Loop} \cup Callers, Cleanup(p)
    PROVE  Quiet /\ LoginHasReader'
<1>1. p \in Proc /\ Loop \in Proc
  BY LoopIsApart, TasksAreProc, Zenon
<1>2. CASE CleanupFlags(p)
  BY <1>1, <1>2, Zenon DEF LifeTypeOK, CleanupFlags, Quiet, LoginHasReader, Goto, Flags, ConnectSteps
<1>3. CASE CleanupSlots(p)
  BY <1>1, <1>3, Zenon DEF LifeTypeOK, CleanupSlots, Quiet, LoginHasReader, Goto, ConnectSteps, ReaderSteps
<1>4. CASE CleanupOpen(p)
  BY <1>1, <1>4, Zenon DEF LifeTypeOK, CleanupOpen, CleanedUp, Quiet, LoginHasReader, Goto, Set, Flags, ConnectSteps, ReaderSteps
<1> QED
  BY <1>2, <1>3, <1>4, Zenon DEF Cleanup

\* The run loop itself neither takes the lock nor logs in.
LEMMA QuietLoop ==
    ASSUME LifeTypeOK, LoginHasReader, LoopOwn
    PROVE  Quiet /\ LoginHasReader'
<1> USE LoopIsApart DEF LifeTypeOK, Quiet, LoginHasReader, Goto, ConnectSteps, ReaderSteps
<1>1. CASE LoopStart
  BY <1>1, Zenon DEF LoopStart, Set, Flags
<1>2. CASE LoopCheck
  BY <1>2, Zenon DEF LoopCheck
<1>3. CASE LoopBegin
  BY <1>3, Zenon DEF LoopBegin, Set, Flags
<1>4. CASE LoopJudge
  BY <1>4, Zenon DEF LoopJudge, Set, Flags
<1>5. CASE LoopAfter
  BY <1>5, Zenon DEF LoopAfter, Set, Flags
<1>6. CASE LoopWake
  BY <1>6, Zenon DEF LoopWake
<1> QED
  BY <1>1, <1>2, <1>3, <1>4, <1>5, <1>6, Zenon DEF LoopOwn

\* Only Login sets is_logged_in, and the reader is running then.
LEMMA QuietReader ==
    ASSUME LifeTypeOK, LoginHasReader, ReaderOwn
    PROVE  Quiet /\ LoginHasReader'
<1> USE LoopIsApart DEF LifeTypeOK, Quiet, LoginHasReader, Goto, Leave, ConnectSteps, ReaderSteps
<1>1. CASE ReaderTake
  BY <1>1, Zenon DEF ReaderTake
<1>2. CASE ReaderSubscribe
  BY <1>2, Zenon DEF ReaderSubscribe
<1>3. CASE ReaderStops
  BY <1>3, Zenon DEF ReaderStops
<1>4. CASE Login
  BY <1>4 DEF Login, Set, Flags
<1>5. CASE FrameDone
  BY <1>5, Zenon DEF FrameDone
<1> QED
  BY <1>1, <1>2, <1>3, <1>4, <1>5, Zenon DEF ReaderOwn

\* A frame at most logs out.
LEMMA QuietFrame ==
    ASSUME LifeTypeOK, LoginHasReader, FrameOwn
    PROVE  Quiet /\ LoginHasReader'
<1> USE LoopIsApart DEF LifeTypeOK, Quiet, LoginHasReader, Goto, ConnectSteps, ReaderSteps
<1>1. CASE Success
  BY <1>1, Zenon DEF Success
<1>2. CASE StreamError
  BY <1>2, Zenon DEF StreamError, Flags
<1>3. CASE SessionRejected
  BY <1>3, Zenon DEF SessionRejected, Set, Flags
<1>4. CASE ConnectFailure
  BY <1>4, Zenon DEF ConnectFailure, Flags
<1>5. CASE OtherFrame
  BY <1>5, Zenon DEF OtherFrame
<1>6. CASE StreamEnd
  BY <1>6, Zenon DEF StreamEnd
<1>7. CASE PairSuccess
  BY <1>7, Zenon DEF PairSuccess, Set, Flags
<1> QED
  BY <1>1, <1>2, <1>3, <1>4, <1>5, <1>6, <1>7, Zenon DEF FrameOwn, Frame

\* A call other than connect takes no lock and does not move the reader.
LEMMA QuietCall ==
    ASSUME LifeTypeOK, LoginHasReader, NEW p \in Proc \ {Loop}, CallOwn(p)
    PROVE  Quiet /\ LoginHasReader'
<1> USE LoopIsApart DEF LifeTypeOK, Quiet, LoginHasReader, Goto, ConnectSteps
<1>1. CASE Call(p)
  BY <1>1, Zenon DEF Call
<1>2. CASE CallFlag(p)
  BY <1>2 DEF CallFlag, Set, Flags
<1>3. CASE ReconnectFlag(p)
  BY <1>3, Zenon DEF ReconnectFlag, Set, Flags
<1>4. CASE ReconnectNowFlag(p)
  BY <1>4, Zenon DEF ReconnectNowFlag, Set, Flags
<1>5. CASE CallFire(p)
  BY <1>5 DEF CallFire, AfterFire
<1>6. CASE CallClose(p)
  BY <1>6 DEF CallClose, AfterClose
<1> QED
  BY <1>1, <1>2, <1>3, <1>4, <1>5, <1>6, Zenon DEF CallOwn

\* Keepalive loops, post-login tasks and timers take no lock.
LEMMA QuietTask ==
    ASSUME LifeTypeOK, LoginHasReader, NEW n \in Nat, TaskOwn(n)
    PROVE  Quiet /\ LoginHasReader'
<1> USE LoopIsApart DEF LifeTypeOK, Quiet, LoginHasReader, Goto, ConnectSteps
<1>1. CASE PeerCloses(n)
  BY <1>1, Zenon DEF PeerCloses
<1>2. CASE KeepaliveStart(n)
  BY <1>2, Zenon DEF KeepaliveStart
<1>3. CASE KeepaliveEnds(n)
  BY <1>3, Zenon DEF KeepaliveEnds
<1>4. CASE KeepaliveDead(n)
  BY <1>4, Zenon DEF KeepaliveDead
<1>5. CASE PostInit(n)
  BY <1>5, Zenon DEF PostInit
<1>6. CASE PostSynced(n)
  BY <1>6, Zenon DEF PostSynced
<1>7. CASE PostAnnounce(n)
  BY <1>7, Zenon DEF PostAnnounce, Set, Flags
<1>8. CASE TimerFires(n)
  BY <1>8, Zenon DEF TimerFires
<1> QED
  BY <1>1, <1>2, <1>3, <1>4, <1>5, <1>6, <1>7, <1>8, Zenon DEF TaskOwn, PostStep

\* Connecting never happens in a login.
LEMMA LoginConnect ==
    ASSUME LifeTypeOK, LoginHasReader, NEW p \in {Loop} \cup Callers, Connect(p)
    PROVE  LoginHasReader'
<1> USE LoopIsApart, TasksAreProc DEF LifeTypeOK, LoginHasReader, Goto, ConnectSteps, ReaderSteps
<1>1. CASE ConnectStart(p)
  BY <1>1, Zenon DEF ConnectStart, ConnectFailed, Flags
<1>2. CASE DialFails(p)
  BY <1>2, Zenon DEF DialFails, ConnectFailed, Set, Flags
<1>3. CASE DialSucceeds(p)
  BY <1>3, Zenon DEF DialSucceeds
<1>4. CASE Install(p)
  BY <1>4, Zenon DEF Install
<1>5. CASE Connected(p)
  BY <1>5, Zenon DEF Connected, ConnectReturned, Flags
<1> QED
  BY <1>1, <1>2, <1>3, <1>4, <1>5, Zenon DEF Connect

\* Connecting keeps the lock to one holder.
LEMMA ExclConnect ==
    ASSUME ExclInv, NEW p \in {Loop} \cup Callers, Connect(p)
    PROVE  (OneConnectAtATime /\ ConnectLocked)'
<1>0. /\ p \in Proc /\ pc \in [Proc -> Steps] /\ fl \in [Flags -> BOOLEAN]
      /\ \A n : Keepalive(n) # p
  BY LoopIsApart, TasksAreProc DEF ExclInv, LifeTypeOK, Loop, Callers, Keepalive
<1>1. CASE ConnectStart(p)
  <2>1. CASE pc' = [pc EXCEPT ![p] = ConnectFailed(p)] /\ fl' = fl
    BY <1>0, <2>1, Zenon DEF ExclInv, OneConnectAtATime, ConnectLocked, ConnectFailed, ConnectSteps
  <2>2. CASE ~fl["connecting"] /\ fl'["connecting"] /\ pc' = [pc EXCEPT ![p] = "dialing"]
    <3>1. \A q \in Proc : pc[q] \notin ConnectSteps
      BY <2>2, Zenon DEF ExclInv, ConnectLocked
    <3> QED
      BY <1>0, <2>2, <3>1, Zenon DEF OneConnectAtATime, ConnectLocked
  <2> QED
    BY <1>0, <1>1, <2>1, <2>2, Zenon DEF ConnectStart, Goto, Flags
<1>2. CASE DialFails(p) \/ Connected(p)
  <2>1. pc[p] \in ConnectSteps /\ pc'[p] \notin ConnectSteps
    BY <1>0, <1>2, Zenon DEF DialFails, Connected, ConnectFailed, ConnectReturned, Goto, ConnectSteps
  <2>2. \A q \in Proc : q # p => pc[q] \notin ConnectSteps
    BY <1>0, <2>1, Zenon DEF ExclInv, OneConnectAtATime
  <2>3. \A q \in Proc : q # p => (pc'[q] = pc[q] \/ pc'[q] = "spawned")
    BY <1>0, <1>2, Zenon DEF DialFails, Connected, Goto
  <2>4. \A q \in Proc : pc'[q] \notin ConnectSteps
    BY <2>1, <2>2, <2>3, Zenon DEF ConnectSteps
  <2> QED
    BY <2>4, Zenon DEF OneConnectAtATime, ConnectLocked
<1>3. CASE DialSucceeds(p) \/ Install(p)
  <2>1. pc[p] \in ConnectSteps /\ fl' = fl
    BY <1>3, Zenon DEF DialSucceeds, Install, ConnectSteps
  <2>2. \A q \in Proc : q # p => pc'[q] = pc[q]
    BY <1>0, <1>3, Zenon DEF DialSucceeds, Install, Goto
  <2> QED
    BY <1>0, <2>1, <2>2, Zenon DEF ExclInv, OneConnectAtATime, ConnectLocked
<1> QED
  BY <1>1, <1>2, <1>3, Zenon DEF Connect

\* Every step keeps the login with its reader.
LEMMA LoginStep ==
    ASSUME LifeTypeOK, LoginHasReader, [LifeNext]_lifeVars
    PROVE  LoginHasReader'
<1>1. CASE LifeNext
  BY <1>1, StepKinds, LoginConnect, QuietCleanup, QuietLoop, QuietReader, QuietFrame, QuietCall, QuietTask, Zenon
<1>2. CASE UNCHANGED lifeVars
  BY <1>2, Zenon DEF LoginHasReader, lifeVars
<1> QED
  BY <1>1, <1>2, Zenon

\* Every step keeps the lock to one holder.
LEMMA ExclStep ==
    ASSUME ExclInv, LoginHasReader, [LifeNext]_lifeVars
    PROVE  ExclInv'
<1>1. LifeTypeOK'
  BY TypeStep, Zenon DEF ExclInv
<1>2. CASE \E p \in {Loop} \cup Callers : Connect(p)
  BY <1>1, <1>2, ExclConnect, Zenon DEF ExclInv
<1>3. CASE Quiet
  BY <1>1, <1>3, Zenon DEF ExclInv, Quiet, OneConnectAtATime, ConnectLocked
<1>4. CASE UNCHANGED lifeVars
  BY <1>1, <1>4, Zenon DEF ExclInv, OneConnectAtATime, ConnectLocked, lifeVars
<1>5. CASE LifeNext
  <2>1. LifeTypeOK
    BY Zenon DEF ExclInv
  <2> QED
    BY <1>2, <1>3, <1>5, <2>1, StepKinds, QuietCleanup, QuietLoop, QuietReader, QuietFrame, QuietCall, QuietTask, Zenon
<1> QED
  BY <1>4, <1>5, Zenon

\* is_logged_in holds only while the run loop reads or is about to clean up, so
\* it is false whenever run has returned, however disconnect, logout, connect and
\* the cleanups interleave.
THEOREM LoginNeedsReader == LifeSpec => []LoginHasReader
<1>1. LifeInit => LoginHasReader
  BY Zenon DEF LifeInit, LoginHasReader, Flags
<1>2. LifeTypeOK /\ LoginHasReader /\ [LifeNext]_lifeVars => LoginHasReader'
  BY LoginStep, Zenon
<1> QED
  BY <1>1, <1>2, LifeTypeCorrect, PTL DEF LifeSpec

\* The is_connecting swap excludes: at most one task dials or installs a
\* connection at a time.
THEOREM ConnectIsExclusive == LifeSpec => []OneConnectAtATime
<1>1. LifeInit => ExclInv
  <2> SUFFICES ASSUME LifeInit PROVE ExclInv
    OBVIOUS
  <2>1. \A q \in Proc : pc[q] \notin ConnectSteps
    BY Zenon DEF LifeInit, ConnectSteps
  <2> QED
    BY <2>1, TypeInit, Zenon DEF ExclInv, OneConnectAtATime, ConnectLocked
<1>2. ExclInv /\ LoginHasReader /\ [LifeNext]_lifeVars => ExclInv'
  BY ExclStep, Zenon
<1>3. ExclInv => OneConnectAtATime
  BY Zenon DEF ExclInv
<1> QED
  BY <1>1, <1>2, <1>3, LoginNeedsReader, PTL DEF LifeSpec

-----------------------------------------------------------------------------
(* Old loops are told to stop.                                              *)

\* Where the run loop has no connection: its last one was cleaned up.
Between == {"start", "check", "begin", "connect", "dialing", "after", "sleep", "ended"} \cup
           (CleanupSteps \ {"c_flags"})

\* The invariant: only the run loop connects; it does so after firing the
\* notifier of the previous connection; nobody watches before the first one.
ToldInv ==
    /\ LifeTypeOK
    /\ OldLoopsAreTold
    /\ \A c \in Callers : pc[c] \notin ConnectSteps \cup {"connect"}
    /\ pc[Loop] \in Between => (conn \in fired \/ conn = 0)
    /\ pc[Loop] \in ConnectSteps \ {"dialing"} => conn # 0
    /\ conn = 0 => \A n \in 1 .. MaxConn : pc[Keepalive(n)] \notin {"spawned", "watching"}

\* Keepalive loops are neither the run loop nor callers, and are told apart by
\* their connection.
LEMMA KeepalivesApart ==
    /\ \A n : Keepalive(n) \notin {Loop} \cup Callers
    /\ \A m, n : Keepalive(m) = Keepalive(n) => m = n
    /\ \A n, g : Keepalive(n) # Post(g) /\ Keepalive(n) # Timer(g)
    /\ \A g : Post(g) \notin Callers /\ Timer(g) \notin Callers
BY Zenon DEF Keepalive, Loop, Callers, Post, Timer

\* What a step that does not connect has to keep.
LEMMA ToldKept ==
    ASSUME ToldInv, LifeTypeOK',
           conn' = conn, fired \subseteq fired',
           pc'[Loop] \in ReaderSteps => sig'[Loop] \in fired \cup {conn},
           \A n \in 1 .. MaxConn :
             \/ pc'[Keepalive(n)] \notin {"spawned", "watching"}
             \/ /\ pc'[Keepalive(n)] = pc[Keepalive(n)]
                /\ sig'[Keepalive(n)] = sig[Keepalive(n)]
             \/ /\ pc[Keepalive(n)] = "spawned"
                /\ sig'[Keepalive(n)] = conn,
           \A c \in Callers : pc'[c] \notin ConnectSteps \cup {"connect"},
           pc'[Loop] \in Between => (conn \in fired' \/ conn = 0),
           pc'[Loop] \in ConnectSteps \ {"dialing"} => conn # 0
    PROVE  ToldInv'
<1>1. OldLoopsAreTold'
  BY Zenon DEF ToldInv, OldLoopsAreTold
<1>2. (conn = 0 => \A n \in 1 .. MaxConn : pc[Keepalive(n)] \notin {"spawned", "watching"})'
  BY Zenon DEF ToldInv
<1> QED
  BY <1>1, <1>2, Zenon DEF ToldInv

\* The run loop connects.
LEMMA ToldConnect ==
    ASSUME ToldInv, NEW p \in {Loop} \cup Callers, Connect(p)
    PROVE  ToldInv'
<1>0. LifeTypeOK' /\ pc \in [Proc -> Steps]
  BY LoopIsApart, TasksAreProc, TypeConnect, Zenon DEF ToldInv, LifeTypeOK
<1>1. p = Loop
  BY Zenon DEF ToldInv, Connect, ConnectStart, DialFails, DialSucceeds, Install, Connected, ConnectSteps
<1> USE LoopIsApart, TasksAreProc, KeepalivesApart
<1>2. CASE DialSucceeds(Loop)
  <2>1. conn' = conn + 1 /\ fired' = fired /\ sig' = sig /\ conn \in Nat
    BY <1>2, LifecycleAssumption DEF DialSucceeds, rest, ToldInv, LifeTypeOK
  <2>2. pc[Loop] = "dialing" /\ pc' = [pc EXCEPT ![Loop] = "i_transport"]
    BY <1>2, Zenon DEF DialSucceeds, Goto
  <2>3. conn \in fired \/ conn = 0
    BY <2>2, Zenon DEF ToldInv, Between
  <2>4. \A n \in 1 .. MaxConn : pc'[Keepalive(n)] = pc[Keepalive(n)]
    BY <1>0, <2>2, Zenon
  <2>5. \A n \in 1 .. MaxConn : pc[Keepalive(n)] = "watching" => sig[Keepalive(n)] \in fired
    BY <2>3, Zenon DEF ToldInv, OldLoopsAreTold
  <2>6. pc'[Loop] = "i_transport"
    BY <1>0, <2>2, Zenon
  <2>7. OldLoopsAreTold'
    BY <2>1, <2>4, <2>5, <2>6, Zenon DEF OldLoopsAreTold, ReaderSteps
  <2>8. \A c \in Callers : pc'[c] = pc[c]
    BY <1>0, <2>2, Zenon
  <2> QED
    BY <1>0, <2>1, <2>6, <2>7, <2>8 DEF ToldInv, Between, CleanupSteps
<1>3. CASE Connected(Loop)
  <2>1. pc[Loop] = "i_open" /\ conn # 0
    BY <1>3, Zenon DEF Connected, ToldInv, ConnectSteps
  <2>2. conn' = conn /\ fired' = fired /\ sig' = sig
    BY <1>3, Zenon DEF Connected, rest
  <2>3. pc' = [pc EXCEPT ![Loop] = "take", ![Keepalive(conn)] = "spawned"]
    BY <1>3, Zenon DEF Connected, ConnectReturned
  <2>4. pc'[Loop] = "take" /\ \A c \in Callers : pc'[c] = pc[c]
    BY <1>0, <2>3
  <2>5. \A n \in 1 .. MaxConn : pc'[Keepalive(n)] \in {pc[Keepalive(n)], "spawned"}
    BY <1>0, <2>3, Zenon
  <2>6. OldLoopsAreTold'
    BY <2>2, <2>4, <2>5, Zenon DEF ToldInv, OldLoopsAreTold, ReaderSteps
  <2> QED
    BY <1>0, <2>1, <2>2, <2>4, <2>6, Zenon DEF ToldInv, Between, CleanupSteps, ConnectSteps
<1>4. CASE ConnectStart(Loop) \/ DialFails(Loop) \/ Install(Loop)
  <2>1. conn' = conn /\ fired' = fired /\ sig' = sig
    BY <1>4, Zenon DEF ConnectStart, DialFails, Install, rest
  <2>2. \A q \in Proc : q # Loop => pc'[q] = pc[q]
    BY <1>0, <1>4, Zenon DEF ConnectStart, DialFails, Install, Goto
  <2>3. \/ pc[Loop] \in Between /\ pc'[Loop] \in {"after", "dialing"}
        \/ pc[Loop] \in ConnectSteps \ {"dialing"} /\ pc'[Loop] \in ConnectSteps \ {"dialing"}
    BY <1>0, <1>4, Zenon DEF ConnectStart, DialFails, Install, Goto, ConnectFailed, Between, ConnectSteps
  <2> QED
    BY <1>0, <2>1, <2>2, <2>3, ToldKept, Zenon DEF ToldInv, Between, ConnectSteps, CleanupSteps, ReaderSteps
<1> QED
  BY <1>1, <1>2, <1>3, <1>4, Zenon DEF Connect

\* A task moves on without connecting and without subscribing.
LEMMA ToldOne ==
    ASSUME ToldInv, LifeTypeOK', NEW p \in Proc,
           conn' = conn, fired \subseteq fired', sig' = sig,
           \A q \in Proc : q # p => pc'[q] = pc[q],
           pc'[p] \notin ConnectSteps \cup {"spawned", "watching"},
           p # Loop => pc'[p] # "connect",
           p = Loop => /\ pc'[p] \in ReaderSteps => pc[p] \in ReaderSteps
                       /\ pc'[p] \in Between => (pc[p] \in Between \/ conn \in fired')
    PROVE  ToldInv'
<1> USE LoopIsApart, TasksAreProc, KeepalivesApart
<1>1. \A n \in 1 .. MaxConn : \/ pc'[Keepalive(n)] \notin {"spawned", "watching"}
                              \/ pc'[Keepalive(n)] = pc[Keepalive(n)]
  BY Zenon
<1>2. \A c \in Callers : pc'[c] \notin ConnectSteps \cup {"connect"}
  BY Zenon DEF ToldInv
<1>3. pc'[Loop] \in ReaderSteps => sig'[Loop] \in fired \cup {conn}
  BY Zenon DEF ToldInv, OldLoopsAreTold
<1>4. pc'[Loop] \in Between => (conn \in fired' \/ conn = 0)
  BY Zenon DEF ToldInv
<1>5. pc'[Loop] \in ConnectSteps \ {"dialing"} => conn # 0
  BY Zenon DEF ToldInv
<1> QED
  BY <1>1, <1>2, <1>3, <1>4, <1>5, ToldKept, Zenon

\* The run loop, the callers and the keepalive loops stay where they are.
LEMMA ToldStill ==
    ASSUME ToldInv, LifeTypeOK',
           conn' = conn, fired \subseteq fired', sig' = sig,
           \A q \in {Loop} \cup Callers \cup Keepalives : pc'[q] = pc[q]
    PROVE  ToldInv'
<1>1. \A n \in 1 .. MaxConn : pc'[Keepalive(n)] = pc[Keepalive(n)]
  BY TasksAreProc, Zenon
<1>2. pc'[Loop] \in ReaderSteps => sig'[Loop] \in fired \cup {conn}
  BY Zenon DEF ToldInv, OldLoopsAreTold
<1>3. pc'[Loop] \in Between => (conn \in fired' \/ conn = 0)
  BY Zenon DEF ToldInv
<1>4. \A c \in Callers : pc'[c] \notin ConnectSteps \cup {"connect"}
  BY Zenon DEF ToldInv
<1>5. pc'[Loop] \in ConnectSteps \ {"dialing"} => conn # 0
  BY Zenon DEF ToldInv
<1> QED
  BY <1>1, <1>2, <1>3, <1>4, <1>5, ToldKept, Zenon

\* Cleaning up fires the notifier first.
LEMMA ToldCleanup ==
    ASSUME ToldInv, NEW p \in {Loop} \cup Callers, Cleanup(p)
    PROVE  ToldInv'
<1>0. LifeTypeOK' /\ pc \in [Proc -> Steps] /\ p \in Proc
  BY LoopIsApart, TasksAreProc, TypeCleanup, Zenon DEF ToldInv, LifeTypeOK
<1>1. CASE CleanupFlags(p)
  BY <1>0, <1>1, ToldOne, Zenon
     DEF CleanupFlags, Fire, Goto, rest, ConnectSteps, ReaderSteps
<1>2. CASE CleanupSlots(p)
  <2>1. pc[p] \in {"c_transport", "c_events", "c_socket"} /\ pc'[p] \in {"c_events", "c_socket", "c_open"}
    BY <1>0, <1>2, Zenon DEF CleanupSlots, Goto
  <2>2. \A q \in Proc : q # p => pc'[q] = pc[q]
    BY <1>0, <1>2, Zenon DEF CleanupSlots, Goto
  <2> QED
    BY <1>0, <1>2, <2>1, <2>2, ToldOne, Zenon
       DEF CleanupSlots, rest, ConnectSteps, ReaderSteps, Between, CleanupSteps
<1>3. CASE CleanupOpen(p)
  BY <1>0, <1>3, ToldOne, Zenon
     DEF CleanupOpen, CleanedUp, Goto, rest, ConnectSteps, ReaderSteps, Between, CleanupSteps
<1> QED
  BY <1>1, <1>2, <1>3, Zenon DEF Cleanup

\* The run loop between two connections.
LEMMA ToldLoop ==
    ASSUME ToldInv, LoopOwn
    PROVE  ToldInv'
<1>0. LifeTypeOK' /\ pc \in [Proc -> Steps] /\ Loop \in Proc
  BY LoopIsApart, TypeLoop, Zenon DEF ToldInv, LifeTypeOK, LoopOwn
<1>1. conn' = conn /\ fired' = fired /\ sig' = sig
  BY Zenon DEF LoopOwn, LoopStart, LoopCheck, LoopBegin, LoopJudge, LoopAfter, LoopWake, rest
<1>2. \A q \in Proc : q # Loop => pc'[q] = pc[q]
  BY <1>0, Zenon DEF LoopOwn, LoopStart, LoopCheck, LoopBegin, LoopJudge, LoopAfter, LoopWake, Goto
<1>3. \/ pc'[Loop] = "c_flags"
      \/ /\ pc'[Loop] \in {"check", "begin", "connect", "sleep", "ended"}
         /\ pc[Loop] \in {"start", "check", "begin", "after", "sleep"}
  BY <1>0, Zenon DEF LoopOwn, LoopStart, LoopCheck, LoopBegin, LoopJudge, LoopAfter, LoopWake, Goto
<1> QED
  BY <1>0, <1>1, <1>2, <1>3, ToldOne, Zenon DEF ConnectSteps, ReaderSteps, Between, CleanupSteps

\* The reader subscribes to the current notifier.
LEMMA ToldReader ==
    ASSUME ToldInv, ReaderOwn
    PROVE  ToldInv'
<1>0. LifeTypeOK' /\ pc \in [Proc -> Steps] /\ Loop \in Proc
      /\ sig \in [{Loop} \cup Keepalives -> 0 .. MaxConn]
  BY LoopIsApart, TypeReader, Zenon DEF ToldInv, LifeTypeOK, ReaderOwn
<1>1. CASE ReaderTake \/ ReaderStops \/ FrameDone
  <2>1. \A q \in Proc : q # Loop => pc'[q] = pc[q]
    BY <1>0, <1>1, Zenon DEF ReaderTake, ReaderStops, FrameDone, Leave, Goto
  <2>2. pc'[Loop] \in {"left", "subscribe"} \/ (pc'[Loop] = "reading" /\ pc[Loop] = "frame")
    BY <1>0, <1>1, Zenon DEF ReaderTake, ReaderStops, FrameDone, Leave, Goto
  <2>3. conn' = conn /\ fired' = fired /\ sig' = sig
    BY <1>1, Zenon DEF ReaderTake, ReaderStops, FrameDone
  <2> QED
    BY <1>0, <2>1, <2>2, <2>3, ToldOne, Zenon DEF ConnectSteps, ReaderSteps, Between, CleanupSteps
<1>2. CASE ReaderSubscribe
  <2>1. conn' = conn /\ fired' = fired
    BY <1>2, Zenon DEF ReaderSubscribe
  <2>2. \A q \in Proc : q # Loop => pc'[q] = pc[q]
    BY <1>0, <1>2, Zenon DEF ReaderSubscribe, Leave, Goto
  <2>3. /\ pc'[Loop] \in {"left", "reading"}
        /\ pc'[Loop] = "reading" => sig'[Loop] = conn
    BY <1>0, <1>2, Zenon DEF ReaderSubscribe, Leave, Goto
  <2>4. \A n \in 1 .. MaxConn : /\ sig'[Keepalive(n)] = sig[Keepalive(n)]
                                /\ pc'[Keepalive(n)] = pc[Keepalive(n)]
    BY <1>0, <1>2, <2>2, TasksAreProc, LoopIsApart, Zenon DEF ReaderSubscribe
  <2>5. \A c \in Callers : pc'[c] \notin ConnectSteps \cup {"connect"}
    BY <2>2, TasksAreProc, LoopIsApart, Zenon DEF ToldInv
  <2> QED
    BY <1>0, <2>1, <2>3, <2>4, <2>5, ToldKept, Zenon DEF ConnectSteps, ReaderSteps, Between, CleanupSteps
<1>3. CASE Login
  <2>1. conn' = conn /\ fired' = fired /\ sig' = sig
    BY <1>3, Zenon DEF Login
  <2>2. pc[Loop] = "login" /\ pc'[Loop] = "frame"
    BY <1>0, <1>3, LoopIsApart, Zenon DEF Login, Goto
  <2>3. \A q \in Callers \cup Keepalives : pc'[q] = pc[q]
    <3>1. \A q \in Callers \cup Keepalives : q \in Proc /\ q # Loop /\ q # Post(gen + 1)
      BY LoopIsApart, KeepalivesApart DEF Proc, Keepalives
    <3> QED
      BY <1>0, <1>3, <3>1, Zenon DEF Login, Goto
  <2>4. \A n \in 1 .. MaxConn : pc'[Keepalive(n)] = pc[Keepalive(n)]
    BY <2>3, TasksAreProc, Zenon
  <2>5. \A c \in Callers : pc'[c] \notin ConnectSteps \cup {"connect"}
    BY <2>3, Zenon DEF ToldInv
  <2>6. sig'[Loop] \in fired \cup {conn}
    BY <2>1, <2>2, Zenon DEF ToldInv, OldLoopsAreTold, ReaderSteps
  <2> QED
    BY <1>0, <2>1, <2>2, <2>4, <2>5, <2>6, ToldKept, Zenon DEF ConnectSteps, ReaderSteps, Between, CleanupSteps
<1> QED
  BY <1>1, <1>2, <1>3, Zenon DEF ReaderOwn

\* A frame is handled by the reader, which stays subscribed.
LEMMA ToldFrame ==
    ASSUME ToldInv, FrameOwn
    PROVE  ToldInv'
<1>0. LifeTypeOK' /\ pc \in [Proc -> Steps] /\ Loop \in Proc
  BY LoopIsApart, TypeFrame, Zenon DEF ToldInv, LifeTypeOK, FrameOwn
<1>1. CASE Frame
  <2>1. \A q \in Proc : q # Loop => pc'[q] = pc[q]
    BY <1>0, <1>1, Zenon DEF Frame, Success, StreamError, SessionRejected, ConnectFailure, OtherFrame, Goto
  <2>2. pc[Loop] = "reading" /\ pc'[Loop] \in {"frame", "login"}
    BY <1>0, <1>1, Zenon DEF Frame, Success, StreamError, SessionRejected, ConnectFailure, OtherFrame, Goto
  <2>3. conn' = conn /\ fired \subseteq fired' /\ sig' = sig
    BY <1>1, Zenon DEF Frame, Success, StreamError, SessionRejected, ConnectFailure, OtherFrame, Fire, rest
  <2> QED
    BY <1>0, <2>1, <2>2, <2>3, ToldOne, Zenon DEF ConnectSteps, ReaderSteps, Between, CleanupSteps
<1>2. CASE StreamEnd \/ PairSuccess
  BY <1>0, <1>2, ToldStill, Zenon DEF StreamEnd, PairSuccess, Fire
<1> QED
  BY <1>1, <1>2, Zenon DEF FrameOwn

\* The calls other than connect.
LEMMA ToldCall ==
    ASSUME ToldInv, "connect" \notin Ops, NEW p \in Proc \ {Loop}, CallOwn(p)
    PROVE  ToldInv'
<1>0. LifeTypeOK' /\ pc \in [Proc -> Steps]
  BY TypeCall, Zenon DEF ToldInv, LifeTypeOK, CallOwn
<1>1. \A q \in Proc : q # p => pc'[q] = pc[q]
  BY <1>0, Zenon DEF CallOwn, Call, CallFlag, ReconnectFlag, ReconnectNowFlag, CallFire, CallClose, Goto
<1>2. pc'[p] \notin ConnectSteps \cup {"spawned", "watching", "connect"}
  <2>1. CASE CallFire(p) \/ CallClose(p)
    BY <1>0, <2>1 DEF CallFire, AfterFire, CallClose, AfterClose, Goto, ConnectSteps
  <2>2. CASE Call(p) \/ CallFlag(p) \/ ReconnectFlag(p) \/ ReconnectNowFlag(p)
    BY <1>0, <2>2, Zenon DEF Call, CallFlag, ReconnectFlag, ReconnectNowFlag, Goto, ConnectSteps
  <2> QED
    BY <2>1, <2>2, Zenon DEF CallOwn
<1>3. conn' = conn /\ fired \subseteq fired' /\ sig' = sig
  BY Zenon DEF CallOwn, Call, CallFlag, ReconnectFlag, ReconnectNowFlag, CallFire, CallClose, Fire, rest
<1> QED
  BY <1>0, <1>1, <1>2, <1>3, ToldOne, Zenon

\* A keepalive loop subscribes to the current notifier; the others do not move
\* any of the tasks that the invariant is about, except to end.
LEMMA ToldTask ==
    ASSUME ToldInv, NEW n \in Nat, TaskOwn(n)
    PROVE  ToldInv'
<1>0. LifeTypeOK' /\ pc \in [Proc -> Steps]
      /\ sig \in [{Loop} \cup Keepalives -> 0 .. MaxConn]
  BY TypeTask, Zenon DEF ToldInv, LifeTypeOK, TaskOwn
<1>1. CASE PeerCloses(n)
  BY <1>0, <1>1, ToldStill, Zenon DEF PeerCloses, rest
<1>2. CASE n \in 1 .. MaxConn /\ KeepaliveStart(n)
  <2>1. conn' = conn /\ fired' = fired /\ pc[Keepalive(n)] = "spawned"
    BY <1>2, Zenon DEF KeepaliveStart
  <2>2. Keepalive(n) \in Proc /\ Keepalive(n) \in Keepalives
    BY <1>2, TasksAreProc, Zenon
  <2>3. /\ sig'[Keepalive(n)] = conn
        /\ \A m \in 1 .. MaxConn : m # n => /\ sig'[Keepalive(m)] = sig[Keepalive(m)]
                                            /\ pc'[Keepalive(m)] = pc[Keepalive(m)]
    BY <1>0, <1>2, <2>2, TasksAreProc, KeepalivesApart, Zenon DEF KeepaliveStart, Goto
  <2>4. \A q \in {Loop} \cup Callers : pc'[q] = pc[q]
    BY <1>0, <1>2, LoopIsApart, TasksAreProc, KeepalivesApart DEF KeepaliveStart, Goto
  <2>5. sig'[Loop] = sig[Loop]
    BY <1>0, <1>2, LoopIsApart, Zenon DEF KeepaliveStart
  <2>6. pc'[Loop] \in ReaderSteps => sig'[Loop] \in fired \cup {conn}
    BY <2>4, <2>5, Zenon DEF ToldInv, OldLoopsAreTold
  <2>7. \A c \in Callers : pc'[c] \notin ConnectSteps \cup {"connect"}
    BY <2>4, Zenon DEF ToldInv
  <2>8. /\ pc'[Loop] \in Between => (conn \in fired' \/ conn = 0)
        /\ pc'[Loop] \in ConnectSteps \ {"dialing"} => conn # 0
    BY <2>1, <2>4, Zenon DEF ToldInv
  <2> QED
    BY <1>0, <2>1, <2>3, <2>6, <2>7, <2>8, ToldKept, Zenon
<1>3. CASE n \in 1 .. MaxConn /\ (KeepaliveEnds(n) \/ KeepaliveDead(n))
  <2>1. Keepalive(n) \in Proc /\ Keepalive(n) # Loop
    BY <1>3, TasksAreProc, LoopIsApart, Zenon
  <2>2. pc'[Keepalive(n)] \in {"done", "n_expected"} /\ \A q \in Proc : q # Keepalive(n) => pc'[q] = pc[q]
    BY <1>0, <1>3, <2>1, Zenon DEF KeepaliveEnds, KeepaliveDead, Goto
  <2>3. conn' = conn /\ fired' = fired /\ sig' = sig
    BY <1>3, Zenon DEF KeepaliveEnds, KeepaliveDead, rest
  <2> QED
    BY <1>0, <2>1, <2>2, <2>3, ToldOne, Zenon DEF ConnectSteps
<1>4. CASE n \in 1 .. MaxGen /\ (PostStep(n) \/ TimerFires(n))
  <2>1. \A q \in {Loop} \cup Callers \cup Keepalives : q \in Proc /\ q # Post(n) /\ q # Timer(n)
    BY LoopIsApart, KeepalivesApart DEF Proc, Keepalives
  <2>2. \A q \in {Loop} \cup Callers \cup Keepalives : pc'[q] = pc[q]
    BY <1>0, <1>4, <2>1, Zenon DEF PostStep, PostInit, PostSynced, PostAnnounce, TimerFires, Goto
  <2>3. conn' = conn /\ fired' = fired /\ sig' = sig
    BY <1>4, Zenon DEF PostStep, PostInit, PostSynced, PostAnnounce, TimerFires, rest
  <2> QED
    BY <1>0, <2>2, <2>3, ToldStill, Zenon
<1> QED
  BY <1>1, <1>2, <1>3, <1>4, Zenon DEF TaskOwn

\* Without connect commands no reader or keepalive loop of an old connection
\* runs on beside the next one: connect replaces the notifier only after the
\* run loop has fired the previous one in its cleanup.
THEOREM LoopsAreTold ==
    ASSUME "connect" \notin Ops
    PROVE  LifeSpec => []OldLoopsAreTold
<1>1. LifeInit => ToldInv
  <2> SUFFICES ASSUME LifeInit PROVE ToldInv
    BY Zenon
  <2>1. /\ pc[Loop] = "start" /\ conn = 0
        /\ \A c \in Callers : pc[c] = "idle"
        /\ \A n \in 1 .. MaxConn : pc[Keepalive(n)] = "none"
    BY LoopIsApart, TasksAreProc, KeepalivesApart, Zenon DEF LifeInit
  <2> QED
    BY <2>1, TypeInit, Zenon DEF ToldInv, OldLoopsAreTold, ConnectSteps, ReaderSteps
<1>2. ToldInv /\ [LifeNext]_lifeVars => ToldInv'
  <2> SUFFICES ASSUME ToldInv, [LifeNext]_lifeVars PROVE ToldInv'
    BY Zenon
  <2>1. CASE LifeNext
    BY <2>1, StepKinds, ToldConnect, ToldCleanup, ToldLoop, ToldReader, ToldFrame, ToldCall, ToldTask, Zenon
  <2>2. CASE UNCHANGED lifeVars
    <3>1. LifeTypeOK'
      BY <2>2, TypeStutter, Zenon DEF ToldInv
    <3> QED
      BY <2>2, <3>1, ToldStill, Zenon DEF lifeVars
  <2> QED
    BY <2>1, <2>2, Zenon
<1>3. ToldInv => OldLoopsAreTold
  BY Zenon DEF ToldInv
<1> QED
  BY <1>1, <1>2, <1>3, PTL DEF LifeSpec

-----------------------------------------------------------------------------
(* Every transport is closed when run returns.                              *)

\* Where the run loop has no transport in the slot.
NoTransport == {"start", "check", "begin", "connect", "dialing", "i_transport", "after",
                "sleep", "ended", "c_events", "c_socket", "c_open"}

\* The invariant: only the run loop connects; a transport is closed, in the slot
\* or about to be put there; the slot is empty when the run loop is about to.
ClosedInv ==
    /\ LifeTypeOK
    /\ \A c \in Callers : pc[c] \notin ConnectSteps \cup {"connect"}
    /\ \A n \in 1 .. conn :
          n \in closed \/ slot["transport"] = n \/ (n = conn /\ pc[Loop] = "i_transport")
    /\ pc[Loop] \in NoTransport => slot["transport"] = 0

\* What a step that neither connects nor opens the slot has to keep.
LEMMA ClosedKept ==
    ASSUME ClosedInv, LifeTypeOK', conn' = conn, closed \subseteq closed',
           \/ slot'["transport"] = slot["transport"]
           \/ slot'["transport"] = 0 /\ slot["transport"] \in closed' \cup {0},
           \A c \in Callers : pc'[c] \notin ConnectSteps \cup {"connect"},
           pc'[Loop] \in NoTransport => pc[Loop] \in NoTransport \/ slot'["transport"] = 0,
           pc[Loop] = "i_transport" => pc'[Loop] = "i_transport"
    PROVE  ClosedInv'
<1>1. ASSUME NEW n \in 1 .. conn
      PROVE  n \in closed' \/ slot'["transport"] = n \/ (n = conn /\ pc'[Loop] = "i_transport")
  <2>1. n # 0
    BY <1>1 DEF ClosedInv, LifeTypeOK
  <2> QED
    BY <1>1, <2>1, Zenon DEF ClosedInv
<1>2. pc'[Loop] \in NoTransport => slot'["transport"] = 0
  BY Zenon DEF ClosedInv
<1> QED
  BY <1>1, <1>2, Zenon DEF ClosedInv

\* A task moves on and leaves the transport in its slot.
LEMMA ClosedOne ==
    ASSUME ClosedInv, LifeTypeOK', NEW p \in Proc,
           conn' = conn, closed \subseteq closed', slot'["transport"] = slot["transport"],
           \A q \in Proc : q # p => pc'[q] = pc[q],
           p # Loop => pc'[p] \notin ConnectSteps \cup {"connect"},
           p = Loop => /\ pc'[p] \in NoTransport => pc[p] \in NoTransport
                       /\ pc[p] # "i_transport"
    PROVE  ClosedInv'
<1> USE LoopIsApart, TasksAreProc
<1>1. \A c \in Callers : pc'[c] \notin ConnectSteps \cup {"connect"}
  BY Zenon DEF ClosedInv
<1>2. /\ pc'[Loop] \in NoTransport => pc[Loop] \in NoTransport
      /\ pc[Loop] = "i_transport" => pc'[Loop] = "i_transport"
  BY Zenon
<1> QED
  BY <1>1, <1>2, ClosedKept, Zenon

\* The run loop and the callers stay where they are.
LEMMA ClosedStill ==
    ASSUME ClosedInv, LifeTypeOK',
           conn' = conn, closed \subseteq closed', slot'["transport"] = slot["transport"],
           \A q \in {Loop} \cup Callers : pc'[q] = pc[q]
    PROVE  ClosedInv'
<1>1. \A c \in Callers : pc'[c] \notin ConnectSteps \cup {"connect"}
  BY Zenon DEF ClosedInv
<1> QED
  BY <1>1, ClosedKept, Zenon

\* connect puts a transport only into an empty slot.
LEMMA ClosedConnect ==
    ASSUME ClosedInv, NEW p \in {Loop} \cup Callers, Connect(p)
    PROVE  ClosedInv'
<1>0. LifeTypeOK' /\ pc \in [Proc -> Steps] /\ slot \in [Slots -> 0 .. MaxConn] /\ conn \in Nat
  BY LoopIsApart, TasksAreProc, TypeConnect, LifecycleAssumption DEF ClosedInv, LifeTypeOK
<1>1. p = Loop
  BY Zenon DEF ClosedInv, Connect, ConnectStart, DialFails, DialSucceeds, Install, Connected, ConnectSteps
<1> USE LoopIsApart, TasksAreProc, KeepalivesApart
<1>2. CASE DialSucceeds(Loop)
  <2>1. conn' = conn + 1 /\ closed' = closed /\ slot' = slot
    BY <1>2, Zenon DEF DialSucceeds, rest
  <2>2. pc[Loop] = "dialing" /\ pc' = [pc EXCEPT ![Loop] = "i_transport"]
    BY <1>2, Zenon DEF DialSucceeds, Goto
  <2>3. pc'[Loop] = "i_transport" /\ \A c \in Callers : pc'[c] = pc[c]
    BY <1>0, <2>2, Zenon
  <2>4. slot["transport"] = 0
    BY <2>2, Zenon DEF ClosedInv, NoTransport
  <2>5. \A n \in 1 .. conn : n \in closed
    BY <1>0, <2>2, <2>4 DEF ClosedInv
  <2>6. \A n \in 1 .. conn' : n \in closed \/ n = conn'
    BY <1>0, <2>1, <2>5
  <2> QED
    BY <1>0, <2>1, <2>3, <2>4, <2>6, Zenon DEF ClosedInv
<1>3. CASE Install(Loop)
  <2>1. conn' = conn /\ closed' = closed /\ \A q \in Proc : q # Loop => pc'[q] = pc[q]
    BY <1>0, <1>3, Zenon DEF Install, Goto, rest
  <2>2. CASE pc[Loop] = "i_transport"
    <3>1. slot'["transport"] = conn /\ pc'[Loop] = "i_events" /\ slot["transport"] = 0
      BY <1>0, <1>3, <2>2, Zenon DEF Install, Put, Goto, Slots, ClosedInv, NoTransport
    <3>2. \A n \in 1 .. conn : n \in closed \/ n = conn
      BY <1>0, <3>1 DEF ClosedInv
    <3>3. \A c \in Callers : pc'[c] = pc[c]
      BY <2>1, Zenon
    <3> QED
      BY <1>0, <2>1, <3>1, <3>2, <3>3, Zenon DEF ClosedInv, NoTransport
  <2>3. CASE pc[Loop] # "i_transport"
    <3>1. slot'["transport"] = slot["transport"] /\ pc'[Loop] \in {"i_socket", "i_open"}
      BY <1>0, <1>3, <2>3, Zenon DEF Install, Put, Goto, Slots
    <3> QED
      BY <1>0, <2>1, <2>3, <3>1, ClosedOne, Zenon DEF NoTransport
  <2> QED
    BY <2>2, <2>3, Zenon
<1>4. CASE ConnectStart(Loop) \/ DialFails(Loop)
  <2>1. conn' = conn /\ closed' = closed /\ slot' = slot /\ \A q \in Proc : q # Loop => pc'[q] = pc[q]
    BY <1>0, <1>4, Zenon DEF ConnectStart, DialFails, Goto, rest
  <2>2. pc[Loop] \in {"connect", "dialing"}
    BY <1>4, Zenon DEF ConnectStart, DialFails
  <2> QED
    BY <1>0, <2>1, <2>2, ClosedOne, Zenon DEF NoTransport
<1>5. CASE Connected(Loop)
  <2>1. conn' = conn /\ closed' = closed /\ slot' = slot /\ pc[Loop] = "i_open"
    BY <1>5, Zenon DEF Connected, rest
  <2>2. pc' = [pc EXCEPT ![Loop] = "take", ![Keepalive(conn)] = "spawned"]
    BY <1>5, Zenon DEF Connected, ConnectReturned
  <2>3. pc'[Loop] = "take" /\ \A c \in Callers : pc'[c] = pc[c]
    BY <1>0, <2>2
  <2>4. \A c \in Callers : pc'[c] \notin ConnectSteps \cup {"connect"}
    BY <2>3, Zenon DEF ClosedInv
  <2> QED
    BY <1>0, <2>1, <2>3, <2>4, ClosedKept, Zenon DEF NoTransport
<1> QED
  BY <1>1, <1>2, <1>3, <1>4, <1>5, Zenon DEF Connect

\* cleanup_connection_state closes what it takes out of the slot.
LEMMA ClosedCleanup ==
    ASSUME ClosedInv, NEW p \in {Loop} \cup Callers, Cleanup(p)
    PROVE  ClosedInv'
<1>0. /\ LifeTypeOK' /\ pc \in [Proc -> Steps] /\ p \in Proc /\ slot \in [Slots -> 0 .. MaxConn]
  BY LoopIsApart, TasksAreProc, TypeCleanup, Zenon DEF ClosedInv, LifeTypeOK
<1>1. \A q \in Proc : q # p => pc'[q] = pc[q]
  BY <1>0, Zenon DEF Cleanup, CleanupFlags, CleanupSlots, CleanupOpen, Goto
<1>2. conn' = conn /\ closed \subseteq closed'
  BY Zenon DEF Cleanup, CleanupFlags, CleanupSlots, CleanupOpen, CloseSlot, rest
<1>3. CASE CleanupFlags(p)
  BY <1>0, <1>1, <1>2, <1>3, ClosedOne, Zenon DEF CleanupFlags, Goto, rest, ConnectSteps, NoTransport
<1>4. CASE CleanupSlots(p) /\ pc[p] = "c_transport"
  <2>1. slot'["transport"] = 0 /\ slot["transport"] \in closed' \cup {0} /\ pc'[p] = "c_events"
    BY <1>0, <1>4, Zenon DEF CleanupSlots, Put, Goto, CloseSlot, Slots
  <2>2. \A c \in Callers : pc'[c] \notin ConnectSteps \cup {"connect"}
    BY <1>1, <2>1, TasksAreProc, Zenon DEF ClosedInv, ConnectSteps
  <2>3. pc[Loop] = "i_transport" => pc'[Loop] = "i_transport"
    BY <1>1, <1>4, LoopIsApart, Zenon
  <2> QED
    BY <1>0, <1>2, <2>1, <2>2, <2>3, ClosedKept, Zenon
<1>5. CASE CleanupSlots(p) /\ pc[p] # "c_transport"
  <2>1. slot'["transport"] = slot["transport"] /\ pc[p] \in {"c_events", "c_socket"}
        /\ pc'[p] \in {"c_socket", "c_open"}
    BY <1>0, <1>5, Zenon DEF CleanupSlots, Put, Goto, Slots
  <2> QED
    BY <1>0, <1>1, <1>2, <2>1, ClosedOne, Zenon DEF ConnectSteps, NoTransport
<1>6. CASE CleanupOpen(p)
  <2>1. pc[p] = "c_open" /\ pc'[p] \in {"after", "done"} /\ slot' = slot
    BY <1>0, <1>6, Zenon DEF CleanupOpen, CleanedUp, Goto, rest
  <2> QED
    BY <1>0, <1>1, <1>2, <2>1, ClosedOne, Zenon DEF ConnectSteps, NoTransport
<1> QED
  BY <1>3, <1>4, <1>5, <1>6, Zenon DEF Cleanup

\* The run loop, the reader and the frames leave the transport in its slot.
LEMMA ClosedLoop ==
    ASSUME ClosedInv, LoopOwn \/ ReaderOwn \/ FrameOwn
    PROVE  ClosedInv'
<1>0. /\ LifeTypeOK' /\ pc \in [Proc -> Steps] /\ Loop \in Proc /\ slot \in [Slots -> 0 .. MaxConn]
  BY LoopIsApart, TypeLoop, TypeReader, TypeFrame, Zenon
     DEF ClosedInv, LifeTypeOK, LoopOwn, ReaderOwn, FrameOwn
<1>1. CASE LoopOwn
  <2>1. conn' = conn /\ closed' = closed /\ slot' = slot /\ \A q \in Proc : q # Loop => pc'[q] = pc[q]
    BY <1>0, <1>1, Zenon DEF LoopOwn, LoopStart, LoopCheck, LoopBegin, LoopJudge, LoopAfter, LoopWake, Goto, rest
  <2>2. pc'[Loop] = "c_flags" \/ pc[Loop] \in {"start", "check", "begin", "after", "sleep"}
    BY <1>0, <1>1, Zenon DEF LoopOwn, LoopStart, LoopCheck, LoopBegin, LoopJudge, LoopAfter, LoopWake, Goto
  <2>3. pc[Loop] # "i_transport"
    BY <1>1, Zenon DEF LoopOwn, LoopStart, LoopCheck, LoopBegin, LoopJudge, LoopAfter, LoopWake
  <2> QED
    BY <1>0, <2>1, <2>2, <2>3, ClosedOne, Zenon DEF NoTransport
<1>2. CASE ReaderTake \/ ReaderSubscribe \/ ReaderStops \/ FrameDone
  <2>1. conn' = conn /\ closed' = closed /\ \A q \in Proc : q # Loop => pc'[q] = pc[q]
    BY <1>0, <1>2, Zenon DEF ReaderTake, ReaderSubscribe, ReaderStops, FrameDone, Leave, Goto
  <2>2. slot'["transport"] = slot["transport"]
    BY <1>0, <1>2, Zenon DEF ReaderTake, ReaderSubscribe, ReaderStops, FrameDone, Put, Slots
  <2>3. pc'[Loop] \in {"left", "subscribe", "reading"} /\ pc[Loop] # "i_transport"
    BY <1>0, <1>2, Zenon DEF ReaderTake, ReaderSubscribe, ReaderStops, FrameDone, Leave, Goto
  <2> QED
    BY <1>0, <2>1, <2>2, <2>3, ClosedOne, Zenon DEF NoTransport
<1>3. CASE Login
  <2>1. conn' = conn /\ closed' = closed /\ slot' = slot /\ pc[Loop] = "login" /\ pc'[Loop] = "frame"
    BY <1>0, <1>3, LoopIsApart, Zenon DEF Login, Goto
  <2>2. \A c \in Callers : pc'[c] = pc[c]
    <3>1. \A c \in Callers : c \in Proc /\ c # Loop /\ c # Post(gen + 1)
      BY LoopIsApart, KeepalivesApart, TasksAreProc, ZenonT(40)
    <3> QED
      BY <1>0, <1>3, <3>1, Zenon DEF Login, Goto
  <2>3. \A c \in Callers : pc'[c] \notin ConnectSteps \cup {"connect"}
    BY <2>2, Zenon DEF ClosedInv
  <2> QED
    BY <1>0, <2>1, <2>3, ClosedKept, Zenon DEF NoTransport
<1>4. CASE Frame
  <2>1. conn' = conn /\ closed \subseteq closed' /\ slot' = slot
    BY <1>4, Zenon DEF Frame, Success, StreamError, SessionRejected, ConnectFailure, OtherFrame, CloseSlot, rest
  <2>2. pc[Loop] = "reading" /\ pc'[Loop] \in {"frame", "login"} /\ \A q \in Proc : q # Loop => pc'[q] = pc[q]
    BY <1>0, <1>4, Zenon DEF Frame, Success, StreamError, SessionRejected, ConnectFailure, OtherFrame, Goto
  <2> QED
    BY <1>0, <2>1, <2>2, ClosedOne, Zenon DEF NoTransport
<1>5. CASE StreamEnd \/ PairSuccess
  BY <1>0, <1>5, ClosedStill, Zenon DEF StreamEnd, PairSuccess
<1> QED
  BY <1>1, <1>2, <1>3, <1>4, <1>5, Zenon DEF ReaderOwn, FrameOwn

\* The other tasks at most close what is in the slot.
LEMMA ClosedOther ==
    ASSUME ClosedInv, "connect" \notin Ops,
           (\E p \in Proc \ {Loop} : CallOwn(p)) \/ (\E n \in Nat : TaskOwn(n))
    PROVE  ClosedInv'
<1>0. pc \in [Proc -> Steps] /\ LifeTypeOK
  BY Zenon DEF ClosedInv, LifeTypeOK
<1>1. ASSUME NEW p \in Proc \ {Loop}, CallOwn(p) PROVE ClosedInv'
  <2>1. LifeTypeOK'
    BY <1>0, <1>1, TypeCall, Zenon DEF CallOwn
  <2>2. \A q \in Proc : q # p => pc'[q] = pc[q]
    BY <1>0, <1>1, Zenon DEF CallOwn, Call, CallFlag, ReconnectFlag, ReconnectNowFlag, CallFire, CallClose, Goto
  <2>3. pc'[p] \notin ConnectSteps \cup {"connect"}
    <3>1. CASE CallFire(p) \/ CallClose(p)
      BY <1>0, <3>1 DEF CallFire, AfterFire, CallClose, AfterClose, Goto, ConnectSteps
    <3>2. CASE Call(p) \/ CallFlag(p) \/ ReconnectFlag(p) \/ ReconnectNowFlag(p)
      BY <1>0, <3>2, Zenon DEF Call, CallFlag, ReconnectFlag, ReconnectNowFlag, Goto, ConnectSteps
    <3> QED
      BY <1>1, <3>1, <3>2, Zenon DEF CallOwn
  <2>4. conn' = conn /\ closed \subseteq closed' /\ slot' = slot
    BY <1>1, Zenon DEF CallOwn, Call, CallFlag, ReconnectFlag, ReconnectNowFlag, CallFire, CallClose, CloseSlot, rest
  <2> QED
    BY <2>1, <2>2, <2>3, <2>4, ClosedOne, Zenon
<1>2. ASSUME NEW n \in Nat, TaskOwn(n) PROVE ClosedInv'
  <2>1. LifeTypeOK'
    BY <1>0, <1>2, TypeTask, Zenon DEF TaskOwn
  <2>2. conn' = conn /\ closed \subseteq closed' /\ slot' = slot
    BY <1>2, Zenon DEF TaskOwn, PeerCloses, KeepaliveStart, KeepaliveEnds, KeepaliveDead, PostStep,
       PostInit, PostSynced, PostAnnounce, TimerFires, rest
  <2>3. \A q \in {Loop} \cup Callers : q \in Proc /\ q # Keepalive(n) /\ q # Post(n) /\ q # Timer(n)
    <3>1. Loop \in Proc /\ Loop # Keepalive(n) /\ Loop # Post(n) /\ Loop # Timer(n)
      BY LoopIsApart, Zenon
    <3>2. \A q \in Callers : q \in Proc /\ q # Keepalive(n) /\ q # Post(n) /\ q # Timer(n)
      BY KeepalivesApart, TasksAreProc, ZenonT(40)
    <3> QED
      BY <3>1, <3>2, Zenon
  <2>4. \A q \in {Loop} \cup Callers : pc'[q] = pc[q]
    BY <1>0, <1>2, <2>3, Zenon DEF TaskOwn, PeerCloses, KeepaliveStart, KeepaliveEnds, KeepaliveDead, PostStep,
       PostInit, PostSynced, PostAnnounce, TimerFires, Goto, rest
  <2> QED
    BY <2>1, <2>2, <2>4, ClosedStill, Zenon
<1> QED
  BY <1>1, <1>2, Zenon

\* Without connect commands no transport outlives run: whoever won the race to
\* take it out of its slot, the run loop's cleanup or that of a disconnect, has
\* closed it, and connect never overwrites one that is still open.
THEOREM EndIsClosed ==
    ASSUME "connect" \notin Ops
    PROVE  LifeSpec => []ClosedAtEnd
<1>1. LifeInit => ClosedInv
  <2> SUFFICES ASSUME LifeInit PROVE ClosedInv
    BY Zenon
  <2>1. /\ pc[Loop] = "start" /\ conn = 0 /\ slot["transport"] = 0
        /\ \A c \in Callers : pc[c] = "idle"
    BY LoopIsApart, TasksAreProc, Zenon DEF LifeInit, Slots
  <2>2. \A n \in 1 .. conn : FALSE
    BY <2>1
  <2> QED
    BY <2>1, <2>2, TypeInit, Zenon DEF ClosedInv, ConnectSteps
<1>2. ClosedInv /\ [LifeNext]_lifeVars => ClosedInv'
  <2> SUFFICES ASSUME ClosedInv, [LifeNext]_lifeVars PROVE ClosedInv'
    BY Zenon
  <2>1. CASE LifeNext
    BY <2>1, StepKinds, ClosedConnect, ClosedCleanup, ClosedLoop, ClosedOther, Zenon
  <2>2. CASE UNCHANGED lifeVars
    <3>1. LifeTypeOK'
      BY <2>2, TypeStutter, Zenon DEF ClosedInv
    <3> QED
      BY <2>2, <3>1, ClosedStill, Zenon DEF lifeVars
  <2> QED
    BY <2>1, <2>2, Zenon
<1>3. ClosedInv => ClosedAtEnd
  BY DEF ClosedInv, ClosedAtEnd, NoTransport, LifeTypeOK
<1> QED
  BY <1>1, <1>2, <1>3, PTL DEF LifeSpec

-----------------------------------------------------------------------------
(* A reader that is still to be told is watched by a keepalive loop.        *)

\* Where the run loop holds a connection it reads or is going to read.
AtReader == {"take", "subscribe"} \cup ReaderSteps

\* What the run loop knows while it installs a connection and reads it.
LoopInv ==
    /\ pc[Loop] \in {"i_transport", "i_events", "i_socket", "i_open"} \cup AtReader => conn # 0
    /\ pc[Loop] \in {"i_socket", "i_open", "take"} => slot["events"] = conn
    /\ pc[Loop] \in {"i_open"} \cup AtReader => slot["socket"] = conn
    /\ pc[Loop] \in AtReader => fl["connected"]
    /\ pc[Loop] \in {"subscribe"} \cup ReaderSteps => rx = conn
    /\ pc[Loop] \in ReaderSteps => sig[Loop] = conn

\* What the keepalive loop of the current connection does, and that those of
\* later ones do not exist.
KeepInv(n) ==
    /\ n > conn => pc[Keepalive(n)] = "none"
    /\ n = conn => /\ pc[Keepalive(n)] = "watching" => sig[Keepalive(n)] = conn
                   /\ pc[Keepalive(n)] = "n_close" => conn \in fired

\* The current connection is watched, or its end is settled.
Guarded == Watching(conn) \/ conn \in fired \/ conn \in closed

\* The callers only reconnect.
CallersReconnect == \A c \in Callers : pc[c] \in {"idle", "r_intent", "r_fire", "r_close", "done"}

\* The invariant.
WatchInv ==
    /\ LifeTypeOK
    /\ CallersReconnect
    /\ LoopInv
    /\ \A n \in 1 .. MaxConn : KeepInv(n)
    /\ pc[Loop] \in AtReader => Guarded

\* The run loop is away from any connection.
LEMMA WatchAway ==
    ASSUME pc'[Loop] \notin {"i_transport", "i_events", "i_socket", "i_open"} \cup AtReader
    PROVE  LoopInv' /\ (pc'[Loop] \in AtReader => Guarded')
BY Zenon DEF LoopInv, AtReader, ReaderSteps

\* The run loop stays where it is, and what it looks at stays as it is.
LEMMA LoopStays ==
    ASSUME LoopInv, conn' = conn, pc'[Loop] = pc[Loop], slot' = slot, rx' = rx,
           sig'[Loop] = sig[Loop], fl'["connected"] = fl["connected"]
    PROVE  LoopInv'
BY Zenon DEF LoopInv

\* The keepalive loops stay where they are; notifiers fire, transports close.
LEMMA KeepStays ==
    ASSUME WatchInv, conn' = conn, fired \subseteq fired', closed \subseteq closed',
           \A n \in 1 .. MaxConn : pc'[Keepalive(n)] = pc[Keepalive(n)]
                                   /\ sig'[Keepalive(n)] = sig[Keepalive(n)]
    PROVE  /\ \A n \in 1 .. MaxConn : KeepInv(n)'
           /\ pc[Loop] \in AtReader => Guarded'
<1>1. \A n \in 1 .. MaxConn : KeepInv(n)'
  BY Zenon DEF WatchInv, KeepInv
<1>2. ASSUME pc[Loop] \in AtReader PROVE Guarded'
  <2>1. Guarded /\ conn # 0
    BY <1>2, Zenon DEF WatchInv, LoopInv
  <2>2. conn \in 1 .. MaxConn
    BY <2>1, LifecycleAssumption DEF WatchInv, LifeTypeOK
  <2> QED
    BY <2>1, <2>2, Zenon DEF Guarded, Watching
<1> QED
  BY <1>1, <1>2, Zenon

\* Only the run loop moves.
LEMMA WatchLoopMoves ==
    ASSUME WatchInv, LifeTypeOK', conn' = conn, fired \subseteq fired', closed \subseteq closed',
           \A q \in Proc : q # Loop => pc'[q] = pc[q] \/ (q \in Posts /\ pc'[q] = "init"),
           \A n \in 1 .. MaxConn : sig'[Keepalive(n)] = sig[Keepalive(n)],
           LoopInv',
           pc'[Loop] \in AtReader => pc[Loop] \in AtReader
    PROVE  WatchInv'
<1>1. \A c \in Callers : c \in Proc /\ c # Loop /\ c \notin Posts
  <2>1. \A c \in Callers : c \in Proc /\ c # Loop
    BY LoopIsApart, TasksAreProc, Zenon
  <2>2. ASSUME NEW c \in Callers, c \in Posts PROVE FALSE
    <3>1. PICK g \in 1 .. MaxGen : c = Post(g)
      BY <2>2, Zenon DEF Posts
    <3> QED
      BY <2>2, <3>1, KeepalivesApart, Zenon
  <2> QED
    BY <2>1, <2>2, Zenon
<1>2. CallersReconnect'
  BY <1>1, Zenon DEF WatchInv, CallersReconnect
<1>3. \A n \in 1 .. MaxConn : Keepalive(n) \in Proc /\ Keepalive(n) # Loop /\ Keepalive(n) \notin Posts
  BY LoopIsApart, TasksAreProc, KeepalivesApart, Zenon DEF Posts
<1>4. \A n \in 1 .. MaxConn : pc'[Keepalive(n)] = pc[Keepalive(n)]
  BY <1>3, Zenon
<1>5. /\ \A n \in 1 .. MaxConn : KeepInv(n)'
      /\ pc[Loop] \in AtReader => Guarded'
  BY <1>4, KeepStays, Zenon
<1> QED
  BY <1>2, <1>5, Zenon DEF WatchInv

\* Only the run loop connects.
LEMMA WatchConnect ==
    ASSUME WatchInv, NEW p \in {Loop} \cup Callers, Connect(p)
    PROVE  WatchInv'
<1>0. /\ LifeTypeOK /\ LifeTypeOK' /\ pc \in [Proc -> Steps] /\ slot \in [Slots -> 0 .. MaxConn]
      /\ conn \in Nat /\ fl \in [Flags -> BOOLEAN]
  BY LoopIsApart, TasksAreProc, TypeConnect, LifecycleAssumption DEF WatchInv, LifeTypeOK
<1>1. p = Loop
  BY Zenon DEF WatchInv, CallersReconnect, Connect, ConnectStart, DialFails, DialSucceeds, Install, Connected
<1> USE LoopIsApart, TasksAreProc, KeepalivesApart
<1>2. CASE ConnectStart(Loop) \/ DialFails(Loop)
  <2>1. conn' = conn /\ fired' = fired /\ closed' = closed /\ sig' = sig
    BY <1>2, Zenon DEF ConnectStart, DialFails, rest
  <2>2. pc'[Loop] \in {"after", "dialing"} /\ \A q \in Proc : q # Loop => pc'[q] = pc[q]
    BY <1>0, <1>2, Zenon DEF ConnectStart, DialFails, ConnectFailed, Goto
  <2>3. LoopInv' /\ pc'[Loop] \notin AtReader
    BY <2>2, WatchAway, Zenon DEF AtReader, ReaderSteps
  <2> QED
    BY <1>0, <2>1, <2>2, <2>3, WatchLoopMoves, Zenon
<1>3. CASE DialSucceeds(Loop)
  <2>1. /\ conn' = conn + 1 /\ fired' = fired /\ sig' = sig
        /\ pc' = [pc EXCEPT ![Loop] = "i_transport"]
    BY <1>3, Zenon DEF DialSucceeds, Goto, rest
  <2>2. pc'[Loop] = "i_transport" /\ \A q \in Proc : q # Loop => pc'[q] = pc[q]
    BY <1>0, <2>1, Zenon
  <2>3. LoopInv' /\ pc'[Loop] \notin AtReader
    BY <1>0, <2>1, <2>2 DEF LoopInv, AtReader, ReaderSteps
  <2>4. CallersReconnect'
    BY <2>2, Zenon DEF WatchInv, CallersReconnect
  <2>5. ASSUME NEW n \in 1 .. MaxConn PROVE KeepInv(n)'
    <3>1. pc'[Keepalive(n)] = pc[Keepalive(n)]
      BY <2>2, Zenon
    <3>2. n >= conn' => pc[Keepalive(n)] = "none"
      BY <1>0, <2>1 DEF WatchInv, KeepInv
    <3> QED
      BY <1>0, <2>1, <3>1, <3>2 DEF KeepInv
  <2> QED
    BY <1>0, <2>3, <2>4, <2>5, Zenon DEF WatchInv
<1>4. CASE Install(Loop)
  <2>1. conn' = conn /\ fired' = fired /\ closed' = closed /\ sig' = sig
    BY <1>4, Zenon DEF Install, rest
  <2>2. pc'[Loop] \in {"i_events", "i_socket", "i_open"} /\ \A q \in Proc : q # Loop => pc'[q] = pc[q]
    BY <1>0, <1>4, Zenon DEF Install, Goto
  <2>3. conn # 0
    BY <1>4, Zenon DEF Install, WatchInv, LoopInv
  <2>4. pc'[Loop] \in {"i_socket", "i_open"} => slot'["events"] = conn
    BY <1>0, <1>4, Zenon DEF Install, Put, Goto, Slots, WatchInv, LoopInv
  <2>5. pc'[Loop] = "i_open" => slot'["socket"] = conn
    BY <1>0, <1>4, Zenon DEF Install, Put, Goto, Slots
  <2>6. pc'[Loop] \notin AtReader /\ pc'[Loop] # "take"
    BY <2>2, Zenon DEF AtReader, ReaderSteps
  <2>7. LoopInv'
    BY <2>1, <2>3, <2>4, <2>5, <2>6, Zenon DEF LoopInv, AtReader
  <2> QED
    BY <1>0, <2>1, <2>2, <2>6, <2>7, WatchLoopMoves, Zenon
<1>5. CASE Connected(Loop)
  <2>1. conn' = conn /\ fired' = fired /\ closed' = closed /\ sig' = sig /\ slot' = slot /\ pc[Loop] = "i_open"
    BY <1>5, Zenon DEF Connected, rest
  <2>2. fl'["connected"] /\ pc' = [pc EXCEPT ![Loop] = "take", ![Keepalive(conn)] = "spawned"]
    BY <1>0, <1>5, Zenon DEF Connected, ConnectReturned, Flags
  <2>3. conn # 0 /\ slot["events"] = conn /\ slot["socket"] = conn
    BY <2>1, Zenon DEF WatchInv, LoopInv
  <2>4. conn \in 1 .. MaxConn
    BY <1>0, <2>3, LifecycleAssumption DEF LifeTypeOK
  <2>5. /\ pc'[Loop] = "take" /\ pc'[Keepalive(conn)] = "spawned"
        /\ \A q \in Proc : q # Loop /\ q # Keepalive(conn) => pc'[q] = pc[q]
    BY <1>0, <2>2, <2>4, Zenon
  <2>6. LoopInv' /\ Guarded'
    BY <2>1, <2>2, <2>3, <2>5, Zenon DEF LoopInv, AtReader, ReaderSteps, Guarded, Watching
  <2>7. CallersReconnect'
    BY <2>5, Zenon DEF WatchInv, CallersReconnect
  <2>8. ASSUME NEW n \in 1 .. MaxConn PROVE KeepInv(n)'
    <3>1. CASE n = conn
      <4>1. ~(n > conn')
        BY <1>0, <2>1, <3>1
      <4> QED
        BY <2>5, <3>1, <4>1, Zenon DEF KeepInv
    <3>2. CASE n # conn
      <4>1. pc'[Keepalive(n)] = pc[Keepalive(n)]
        BY <2>5, <3>2, Zenon
      <4> QED
        BY <2>1, <3>2, <4>1, Zenon DEF KeepInv, WatchInv
    <3> QED
      BY <3>1, <3>2, Zenon
  <2> QED
    BY <1>0, <2>6, <2>7, <2>8, Zenon DEF WatchInv
<1> QED
  BY <1>1, <1>2, <1>3, <1>4, <1>5, Zenon DEF Connect

\* Only the run loop cleans up.
LEMMA WatchCleanup ==
    ASSUME WatchInv, NEW p \in {Loop} \cup Callers, Cleanup(p)
    PROVE  WatchInv'
<1>0. LifeTypeOK' /\ pc \in [Proc -> Steps] /\ Loop \in Proc
  BY LoopIsApart, TasksAreProc, TypeCleanup, Zenon DEF WatchInv, LifeTypeOK
<1>1. p = Loop
  BY Zenon DEF WatchInv, CallersReconnect, Cleanup, CleanupFlags, CleanupSlots, CleanupOpen
<1>2. conn' = conn /\ fired \subseteq fired' /\ closed \subseteq closed' /\ sig' = sig
  BY Zenon DEF Cleanup, CleanupFlags, CleanupSlots, CleanupOpen, CloseSlot, Fire, rest
<1>3. pc'[Loop] \in CleanupSteps \cup {"after"} /\ \A q \in Proc : q # Loop => pc'[q] = pc[q]
  BY <1>0, <1>1, Zenon DEF Cleanup, CleanupFlags, CleanupSlots, CleanupOpen, CleanedUp, Goto, CleanupSteps
<1>4. LoopInv' /\ pc'[Loop] \notin AtReader
  BY <1>3, WatchAway, Zenon DEF AtReader, ReaderSteps, CleanupSteps
<1> QED
  BY <1>0, <1>2, <1>3, <1>4, WatchLoopMoves, Zenon

\* The run loop, the reader and the frames.
LEMMA WatchLoop ==
    ASSUME WatchInv, LoopOwn \/ ReaderOwn \/ FrameOwn
    PROVE  WatchInv'
<1>0. /\ LifeTypeOK' /\ pc \in [Proc -> Steps] /\ Loop \in Proc /\ slot \in [Slots -> 0 .. MaxConn]
      /\ sig \in [{Loop} \cup Keepalives -> 0 .. MaxConn] /\ fl \in [Flags -> BOOLEAN] /\ LoopInv
  BY LoopIsApart, TypeLoop, TypeReader, TypeFrame, Zenon
     DEF WatchInv, LifeTypeOK, LoopOwn, ReaderOwn, FrameOwn
<1>1. CASE LoopOwn
  <2>1. /\ conn' = conn /\ fired' = fired /\ closed' = closed /\ sig' = sig
        /\ \A q \in Proc : q # Loop => pc'[q] = pc[q]
    BY <1>0, <1>1, Zenon DEF LoopOwn, LoopStart, LoopCheck, LoopBegin, LoopJudge, LoopAfter, LoopWake, Goto, rest
  <2>2. pc'[Loop] \in {"check", "begin", "ended", "connect", "c_flags", "sleep"}
    BY <1>0, <1>1, Zenon DEF LoopOwn, LoopStart, LoopCheck, LoopBegin, LoopJudge, LoopAfter, LoopWake, Goto
  <2>3. LoopInv' /\ pc'[Loop] \notin AtReader
    BY <2>2, WatchAway, Zenon DEF AtReader, ReaderSteps
  <2> QED
    BY <1>0, <2>1, <2>3, WatchLoopMoves, Zenon
<1>2. CASE ReaderTake \/ ReaderSubscribe \/ ReaderStops \/ FrameDone
  <2>1. /\ conn' = conn /\ fired' = fired /\ closed' = closed /\ fl' = fl
        /\ \A q \in Proc : q # Loop => pc'[q] = pc[q]
    BY <1>0, <1>2, Zenon DEF ReaderTake, ReaderSubscribe, ReaderStops, FrameDone, Leave, Goto
  <2>2. \A n \in 1 .. MaxConn : sig'[Keepalive(n)] = sig[Keepalive(n)]
    BY <1>0, <1>2, LoopIsApart, TasksAreProc, Zenon DEF ReaderTake, ReaderSubscribe, ReaderStops, FrameDone
  <2>3. pc[Loop] \in AtReader
    BY <1>2, Zenon DEF ReaderTake, ReaderSubscribe, ReaderStops, FrameDone, AtReader, ReaderSteps
  <2>4. LoopInv'
    <3>0. conn # 0 /\ slot["socket"] = conn /\ fl["connected"]
      BY <1>0, <2>3, Zenon DEF LoopInv
    <3>1. CASE pc'[Loop] = "left"
      BY <3>1, WatchAway, Zenon DEF AtReader, ReaderSteps
    <3>2. CASE ReaderTake /\ pc'[Loop] # "left"
      <4>1. pc'[Loop] = "subscribe" /\ rx' = slot["events"] /\ slot'["socket"] = slot["socket"] /\ pc[Loop] = "take"
        BY <1>0, <3>2, Zenon DEF ReaderTake, Leave, Goto, Put, Slots
      <4> QED
        BY <1>0, <2>1, <3>0, <4>1, Zenon DEF LoopInv, AtReader, ReaderSteps
    <3>3. CASE ReaderSubscribe /\ pc'[Loop] # "left"
      <4>1. pc'[Loop] = "reading" /\ rx' = rx /\ slot' = slot /\ pc[Loop] = "subscribe" /\ sig'[Loop] = conn
        BY <1>0, <3>3, Zenon DEF ReaderSubscribe, Leave, Goto
      <4> QED
        BY <1>0, <2>1, <3>0, <4>1, Zenon DEF LoopInv, AtReader, ReaderSteps
    <3>4. CASE FrameDone /\ pc'[Loop] # "left"
      <4>1. pc'[Loop] = "reading" /\ rx' = rx /\ slot' = slot /\ pc[Loop] = "frame" /\ sig' = sig
        BY <1>0, <3>4, Zenon DEF FrameDone, Leave, Goto
      <4> QED
        BY <1>0, <2>1, <3>0, <4>1, Zenon DEF LoopInv, AtReader, ReaderSteps
    <3>5. CASE ReaderStops
      BY <1>0, <3>1, <3>5, Zenon DEF ReaderStops, Leave, Goto
    <3> QED
      BY <1>2, <3>1, <3>2, <3>3, <3>4, <3>5, Zenon
  <2> QED
    BY <1>0, <2>1, <2>2, <2>3, <2>4, WatchLoopMoves, Zenon
<1>3. CASE Login \/ Frame
  <2>1. conn' = conn /\ fired \subseteq fired' /\ closed \subseteq closed' /\ sig' = sig /\ slot' = slot /\ rx' = rx
    BY <1>3, Zenon DEF Login, Frame, Success, StreamError, SessionRejected, ConnectFailure, OtherFrame, CloseSlot, Fire, rest
  <2>2. fl'["connected"] = fl["connected"]
    BY <1>0, <1>3, Zenon DEF Login, Frame, Success, StreamError, SessionRejected, ConnectFailure, OtherFrame, Set, Flags
  <2>3. pc[Loop] \in {"reading", "login"}
    BY <1>3, Zenon DEF Login, Frame, Success, StreamError, SessionRejected, ConnectFailure, OtherFrame
  <2>4. pc'[Loop] \in {"login", "frame"}
    BY <1>0, <1>3, LoopIsApart, Zenon DEF Login, Frame, Success, StreamError, SessionRejected, ConnectFailure, OtherFrame, Goto
  <2>5. \A q \in Proc : q # Loop => pc'[q] = pc[q] \/ (q \in Posts /\ pc'[q] = "init")
    <3>1. CASE Login /\ ~fl["loggedIn"]
      <4>1. gen < MaxGen /\ pc' = [pc EXCEPT ![Loop] = "frame", ![Post(gen + 1)] = "init"]
        BY <3>1, Zenon DEF Login
      <4>2. gen + 1 \in 1 .. MaxGen
        BY <4>1, LifecycleAssumption DEF WatchInv, LifeTypeOK
      <4>3. Post(gen + 1) \in Posts
        BY <4>2, Zenon DEF Posts
      <4> QED
        BY <1>0, <4>1, <4>3, Zenon
    <3>2. CASE ~(Login /\ ~fl["loggedIn"])
      BY <1>0, <1>3, <3>2, Zenon DEF Login, Frame, Success, StreamError, SessionRejected, ConnectFailure, OtherFrame, Goto
    <3> QED
      BY <3>1, <3>2, Zenon
  <2>6. LoopInv' /\ pc[Loop] \in AtReader
    BY <1>0, <2>1, <2>2, <2>3, <2>4, Zenon DEF LoopInv, AtReader, ReaderSteps
  <2> QED
    BY <1>0, <2>1, <2>5, <2>6, WatchLoopMoves, Zenon
<1>4. CASE StreamEnd \/ PairSuccess
  <2>1. conn' = conn /\ fired \subseteq fired' /\ closed' = closed /\ sig' = sig /\ slot' = slot /\ rx' = rx /\ pc' = pc
    BY <1>4, Zenon DEF StreamEnd, PairSuccess, Fire
  <2>2. fl'["connected"] = fl["connected"]
    BY <1>0, <1>4, Zenon DEF StreamEnd, PairSuccess, Set, Flags
  <2> QED
    BY <1>0, <2>1, <2>2, LoopStays, WatchLoopMoves, Zenon
<1> QED
  BY <1>1, <1>2, <1>3, <1>4, Zenon DEF ReaderOwn, FrameOwn

\* reconnect and reconnect_immediately.
LEMMA WatchCall ==
    ASSUME WatchInv, Ops \subseteq {"reconnect"}, NEW p \in Proc \ {Loop}, CallOwn(p)
    PROVE  WatchInv'
<1>0. /\ LifeTypeOK' /\ pc \in [Proc -> Steps] /\ fl \in [Flags -> BOOLEAN] /\ LoopInv
      /\ Loop \in Proc /\ p # Loop
  BY LoopIsApart, TypeCall, Zenon DEF WatchInv, LifeTypeOK, CallOwn
<1>1. conn' = conn /\ sig' = sig /\ slot' = slot /\ rx' = rx
  BY Zenon DEF CallOwn, Call, CallFlag, ReconnectFlag, ReconnectNowFlag, CallFire, CallClose, rest
<1>2. closed \subseteq closed' /\ fired \subseteq fired'
  BY Zenon DEF CallOwn, Call, CallFlag, ReconnectFlag, ReconnectNowFlag, CallFire, CallClose, CloseSlot, Fire
<1>3. fl'["connected"] = fl["connected"]
  BY <1>0, Zenon DEF CallOwn, Call, CallFlag, ReconnectFlag, ReconnectNowFlag, CallFire, CallClose, Set, Flags
<1>4. \A q \in Proc : q # p => pc'[q] = pc[q]
  BY <1>0, Zenon DEF CallOwn, Call, CallFlag, ReconnectFlag, ReconnectNowFlag, CallFire, CallClose, Goto
<1>5. LoopInv' /\ pc'[Loop] = pc[Loop]
  BY <1>0, <1>1, <1>3, <1>4, LoopStays, Zenon
<1>6. /\ pc[p] \in {"idle", "l_auto", "d_expected", "d_running", "r_intent", "n_expected",
                    "d_fire", "r_fire", "n_fire", "d_close", "r_close", "n_close"}
      /\ pc'[p] # "watching"
      /\ pc'[p] = "n_close" => conn \in fired'
      /\ pc[p] = "n_expected" => pc'[p] = "n_fire"
      /\ pc[p] = "n_fire" => pc'[p] = "n_close"
      /\ pc[p] \in {"idle", "r_intent", "r_fire", "r_close"}
            => pc'[p] \in {"r_intent", "r_fire", "r_close", "done"}
  <2>1. CASE CallFire(p) \/ CallClose(p)
    BY <1>0, <2>1 DEF CallFire, AfterFire, CallClose, AfterClose, Goto, Fire
  <2>2. CASE Call(p) \/ CallFlag(p) \/ ReconnectFlag(p) \/ ReconnectNowFlag(p)
    <3>1. "connect" \notin Ops /\ "disconnect" \notin Ops /\ "logout" \notin Ops
      BY Zenon
    <3> QED
      BY <1>0, <2>2, <3>1, Zenon DEF Call, CallFlag, ReconnectFlag, ReconnectNowFlag, Goto
  <2> QED
    BY <2>1, <2>2, Zenon DEF CallOwn
<1>7. CallersReconnect'
  <2>1. ASSUME NEW c \in Callers PROVE pc'[c] \in {"idle", "r_intent", "r_fire", "r_close", "done"}
    <3>1. c \in Proc /\ pc[c] \in {"idle", "r_intent", "r_fire", "r_close", "done"}
      BY TasksAreProc, Zenon DEF WatchInv, CallersReconnect
    <3> QED
      BY <1>4, <1>6, <3>1, Zenon
  <2> QED
    BY <2>1, Zenon DEF CallersReconnect
<1>8. ASSUME NEW n \in 1 .. MaxConn PROVE KeepInv(n)'
  <2>1. Keepalive(n) \in Proc /\ KeepInv(n)
    BY TasksAreProc, Zenon DEF WatchInv
  <2>2. CASE p # Keepalive(n)
    BY <1>1, <1>2, <1>4, <2>1, <2>2, Zenon DEF KeepInv
  <2>3. CASE p = Keepalive(n)
    BY <1>1, <1>6, <2>1, <2>3, Zenon DEF KeepInv
  <2> QED
    BY <2>2, <2>3, Zenon
<1>9. ASSUME pc[Loop] \in AtReader PROVE Guarded'
  <2>1. Guarded /\ conn # 0
    BY <1>9, Zenon DEF WatchInv, LoopInv
  <2>2. conn \in 1 .. MaxConn
    BY <2>1, LifecycleAssumption DEF WatchInv, LifeTypeOK
  <2>3. Keepalive(conn) \in Proc /\ KeepInv(conn)
    BY <2>2, TasksAreProc, Zenon DEF WatchInv
  <2>4. CASE p # Keepalive(conn)
    BY <1>1, <1>2, <1>4, <2>1, <2>3, <2>4, Zenon DEF Guarded, Watching
  <2>5. CASE p = Keepalive(conn)
    BY <1>1, <1>2, <1>6, <2>1, <2>3, <2>5, Zenon DEF Guarded, Watching, KeepInv
  <2> QED
    BY <2>4, <2>5, Zenon
<1> QED
  BY <1>0, <1>5, <1>7, <1>8, <1>9, Zenon DEF WatchInv

\* The keepalive loops start and end, the peer closes, and the task of a login runs.
LEMMA WatchTask ==
    ASSUME WatchInv, NEW n \in Nat, TaskOwn(n)
    PROVE  WatchInv'
<1>0. /\ LifeTypeOK /\ LifeTypeOK' /\ pc \in [Proc -> Steps] /\ fl \in [Flags -> BOOLEAN] /\ LoopInv
      /\ sig \in [{Loop} \cup Keepalives -> 0 .. MaxConn]
  BY TypeTask, Zenon DEF WatchInv, LifeTypeOK, TaskOwn
<1>1. conn' = conn /\ fired' = fired /\ closed \subseteq closed' /\ slot' = slot /\ rx' = rx
  BY Zenon DEF TaskOwn, PeerCloses, KeepaliveStart, KeepaliveEnds, KeepaliveDead, PostStep,
     PostInit, PostSynced, PostAnnounce, TimerFires, rest
<1>2. fl'["connected"] = fl["connected"]
  BY <1>0, Zenon DEF TaskOwn, PeerCloses, KeepaliveStart, KeepaliveEnds, KeepaliveDead, PostStep,
     PostInit, PostSynced, PostAnnounce, TimerFires, rest, Set, Flags
<1>3. \A q \in {Loop} \cup Callers : pc'[q] = pc[q]
  <2>1. \A q \in Callers : q \in Proc /\ q # Keepalive(n) /\ q # Post(n) /\ q # Timer(n)
    BY KeepalivesApart, TasksAreProc, ZenonT(40)
  <2>2. Loop \in Proc /\ Loop # Keepalive(n) /\ Loop # Post(n) /\ Loop # Timer(n)
    BY LoopIsApart, Zenon
  <2> QED
    BY <1>0, <2>1, <2>2, Zenon DEF TaskOwn, PeerCloses, KeepaliveStart, KeepaliveEnds, KeepaliveDead, PostStep,
       PostInit, PostSynced, PostAnnounce, TimerFires, Goto, rest
<1>4. sig'[Loop] = sig[Loop]
  BY <1>0, LoopIsApart, Zenon DEF TaskOwn, PeerCloses, KeepaliveStart, KeepaliveEnds, KeepaliveDead, PostStep,
     PostInit, PostSynced, PostAnnounce, TimerFires, rest
<1>5. LoopInv' /\ CallersReconnect' /\ pc'[Loop] = pc[Loop]
  BY <1>0, <1>1, <1>2, <1>3, <1>4, LoopStays, Zenon DEF WatchInv, CallersReconnect
<1>6. CASE \A m \in 1 .. MaxConn : pc'[Keepalive(m)] = pc[Keepalive(m)]
                                   /\ sig'[Keepalive(m)] = sig[Keepalive(m)]
  <2>1. /\ \A m \in 1 .. MaxConn : KeepInv(m)'
        /\ pc[Loop] \in AtReader => Guarded'
    BY <1>1, <1>6, KeepStays, Zenon
  <2> QED
    BY <1>0, <1>5, <2>1, Zenon DEF WatchInv
<1>7. ASSUME n \in 1 .. MaxConn, KeepaliveStart(n) \/ KeepaliveEnds(n) \/ KeepaliveDead(n)
      PROVE  WatchInv'
  <2>1. Keepalive(n) \in Proc /\ Keepalive(n) \in Keepalives /\ KeepInv(n)
    BY <1>7, TasksAreProc, Zenon DEF WatchInv
  <2>2. /\ pc[Keepalive(n)] \in {"spawned", "watching"}
        /\ pc'[Keepalive(n)] \in {"watching", "n_expected", "done"}
        /\ pc'[Keepalive(n)] = "watching" => sig'[Keepalive(n)] = conn
        /\ pc'[Keepalive(n)] = "done" => KeepaliveEnds(n)
    BY <1>0, <1>7, <2>1, Zenon DEF KeepaliveStart, KeepaliveEnds, KeepaliveDead, Goto
  <2>3. ASSUME NEW m \in 1 .. MaxConn, m # n
        PROVE  pc'[Keepalive(m)] = pc[Keepalive(m)] /\ sig'[Keepalive(m)] = sig[Keepalive(m)]
    <3>1. Keepalive(m) \in Proc /\ Keepalive(m) \in Keepalives /\ Keepalive(m) # Keepalive(n)
      BY <2>3, TasksAreProc, KeepalivesApart, Zenon
    <3> QED
      BY <1>0, <1>7, <3>1, Zenon DEF KeepaliveStart, KeepaliveEnds, KeepaliveDead, Goto, rest
  <2>4. KeepInv(n)'
    BY <1>1, <2>1, <2>2, Zenon DEF KeepInv
  <2>5. ASSUME NEW m \in 1 .. MaxConn PROVE KeepInv(m)'
    <3>1. CASE m = n
      BY <2>4, <3>1, Zenon
    <3>2. CASE m # n
      BY <1>1, <2>3, <3>2, Zenon DEF WatchInv, KeepInv
    <3> QED
      BY <3>1, <3>2, Zenon
  <2>6. ASSUME pc[Loop] \in AtReader PROVE Guarded'
    <3>1. Guarded /\ conn # 0 /\ fl["connected"] /\ slot["socket"] = conn
      BY <2>6, Zenon DEF WatchInv, LoopInv
    <3>2. conn \in 1 .. MaxConn
      BY <1>0, <3>1, LifecycleAssumption DEF LifeTypeOK
    <3>3. CASE conn # n
      BY <1>1, <2>3, <3>1, <3>2, <3>3, Zenon DEF Guarded, Watching
    <3>4. CASE conn = n /\ pc'[Keepalive(n)] = "done"
      <4>1. KeepaliveEnds(n) /\ (pc[Keepalive(n)] = "watching" => sig[Keepalive(n)] = conn)
        BY <2>1, <2>2, <3>4, Zenon DEF KeepInv
      <4>2. conn \in fired \/ conn \in closed
        BY <3>1, <4>1, Zenon DEF KeepaliveEnds
      <4> QED
        BY <1>1, <4>2, Zenon DEF Guarded
    <3>5. CASE conn = n /\ pc'[Keepalive(n)] # "done"
      BY <1>1, <2>2, <3>5, Zenon DEF Guarded, Watching
    <3> QED
      BY <3>3, <3>4, <3>5, Zenon
  <2> QED
    BY <1>0, <1>5, <2>5, <2>6, Zenon DEF WatchInv
<1>8. ASSUME \/ PeerCloses(n)
             \/ n \in 1 .. MaxGen /\ (PostStep(n) \/ TimerFires(n))
      PROVE  \A m \in 1 .. MaxConn : pc'[Keepalive(m)] = pc[Keepalive(m)]
                                     /\ sig'[Keepalive(m)] = sig[Keepalive(m)]
  <2>1. sig' = sig
    BY <1>8, Zenon DEF PeerCloses, PostStep, PostInit, PostSynced, PostAnnounce, TimerFires, rest
  <2>2. \A m \in 1 .. MaxConn : Keepalive(m) \in Proc /\ Keepalive(m) # Post(n) /\ Keepalive(m) # Timer(n)
    BY TasksAreProc, KeepalivesApart, Zenon
  <2> QED
    BY <1>0, <1>8, <2>1, <2>2, Zenon DEF PeerCloses, PostStep, PostInit, PostSynced, PostAnnounce, TimerFires, Goto
<1> QED
  BY <1>6, <1>7, <1>8, Zenon DEF TaskOwn

\* When callers only reconnect, the loop never reads a connection that is neither
\* closed nor told to stop without a keepalive loop that watches it: the keepalive
\* loop of a connection ends only once that is settled.
THEOREM ReaderWatched ==
    ASSUME Ops \subseteq {"reconnect"}
    PROVE  LifeSpec => []ReaderIsWatched
<1>1. LifeInit => WatchInv
  <2> SUFFICES ASSUME LifeInit PROVE WatchInv
    BY Zenon
  <2>1. /\ pc[Loop] = "start" /\ conn = 0
        /\ \A c \in Callers : pc[c] = "idle"
        /\ \A n \in 1 .. MaxConn : pc[Keepalive(n)] = "none"
    <3>1. \A n \in 1 .. MaxConn : Keepalive(n) \in Proc /\ Keepalive(n) # Loop /\ Keepalive(n) \notin Callers
      BY TasksAreProc, KeepalivesApart, Zenon
    <3>2. \A c \in Callers : c \in Proc /\ c # Loop
      BY TasksAreProc, LoopIsApart, Zenon
    <3> QED
      BY <3>1, <3>2, LoopIsApart, Zenon DEF LifeInit
  <2>2. LoopInv /\ pc[Loop] \notin AtReader
    BY <2>1, Zenon DEF LoopInv, AtReader, ReaderSteps
  <2> QED
    BY <2>1, <2>2, TypeInit, Zenon DEF WatchInv, CallersReconnect, KeepInv
<1>2. WatchInv /\ [LifeNext]_lifeVars => WatchInv'
  <2> SUFFICES ASSUME WatchInv, [LifeNext]_lifeVars PROVE WatchInv'
    BY Zenon
  <2>1. CASE LifeNext
    BY <2>1, StepKinds, WatchConnect, WatchCleanup, WatchLoop, WatchCall, WatchTask, Zenon
  <2>2. CASE UNCHANGED lifeVars
    <3>1. LifeTypeOK'
      BY <2>2, TypeStutter, Zenon DEF WatchInv
    <3>2. LoopInv'
      BY <2>2, LoopStays, Zenon DEF lifeVars, WatchInv
    <3> QED
      BY <2>2, <3>1, <3>2, WatchLoopMoves, Zenon DEF lifeVars
  <2> QED
    BY <2>1, <2>2, Zenon
<1>3. WatchInv => ReaderIsWatched
  <2> SUFFICES ASSUME WatchInv, pc[Loop] \in ReaderSteps, sig[Loop] \notin fired, rx \notin closed
               PROVE  \E n \in 1 .. MaxConn : Watching(n)
    BY Zenon DEF ReaderIsWatched
  <2>1. Guarded /\ conn # 0 /\ sig[Loop] = conn /\ rx = conn
    BY Zenon DEF WatchInv, LoopInv, AtReader
  <2>2. conn \in 1 .. MaxConn
    BY <2>1, LifecycleAssumption DEF WatchInv, LifeTypeOK
  <2> QED
    BY <2>1, <2>2, Zenon DEF Guarded
<1> QED
  BY <1>1, <1>2, <1>3, PTL DEF LifeSpec

============================================================================
