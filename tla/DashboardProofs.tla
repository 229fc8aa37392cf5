---------------------------- MODULE DashboardProofs ----------------------------
(***************************************************************************)
(* What module Dashboard promises for any number of tables, workers and    *)
(* sessions, any period of the timer and any time a fetch may take.  That  *)
(* the workers keep out of each other's way is a matter of time alone, so  *)
(* the invariants relate the time left to a worker with that of the timer  *)
(* and that of the sleep.                                                  *)
(***************************************************************************)
EXTENDS Dashboard, Integers, FiniteSetTheorems, TLAPS

(* The user is asked for a server only while there may be another session. *)
RoomForSession == ui \in {"dialog", "connecting"} => sessions < MaxSessions

(* What the code takes for granted of MySQL and of the user: a fetch is    *)
(* over before the next tick, and the connection dialog takes some time.   *)
QuickEnough == FetchTime < m_timerElapse /\ DialogTime > 0

(* A timer that is set has ticked or will. *)
TimerRuns == armed => tick \/ elapsing > 0

(* How long the windows' thread stays where it is, and the connections it  *)
(* has there.                                                              *)
Phases ==
  /\ ui \in {"dialog", "connecting"} => m_pConnection = 0
  /\ ui = "asleep" => m_pConnection # 0 /\ uiLeft <= m_timerElapse

(* A worker that has not looked at the connection will find the present    *)
(* one, and one that fetches has it.                                       *)
WorkersAreOfThisSession ==
  \A w \in Workers :
    /\ at[w] = "start" => mgr = m_pConnection
    /\ at[w] = "fetch" => connection[w] = m_pConnection /\ m_pConnection # 0

(* A worker that uses the store, or is going to. *)
Busy(w) == at[w] \in {"fetch", "show"} \/ (at[w] = "start" /\ m_pConnection # 0)

OneBusy == \A v, w \in Workers : Busy(v) /\ Busy(w) => v = w

(* A fetch ends before the sleep that precedes the end of its connection, *)
(* and before the next tick of the timer ...                               *)
FetchEndsFirst ==
  \A w \in Workers : at[w] \in {"start", "fetch"} =>
    /\ ui = "asleep" => left[w] + m_timerElapse <= FetchTime + uiLeft
    /\ ui = "loop" /\ m_pConnection # 0 /\ ~tick =>
         left[w] + m_timerElapse <= FetchTime + elapsing

(* ... which finds the worker before gone, fields and all. *)
TickFindsNobody ==
  ui = "loop" /\ m_pConnection # 0 /\ tick => \A w \in Workers : ~Busy(w)

(* So does a new connection: the dialog has looked at its messages. *)
ConnectFindsNobody ==
  \A w \in Workers :
    /\ ui = "dialog" /\ uiLeft = 0 => at[w] # "show"
    /\ ui = "connecting" => at[w] # "show" /\ (uiLeft = 0 => at[w] # "start")

(* What holds whatever the times, what holds under QuickEnough, and both. *)
TInv == TypeOK /\ RoomForSession /\ RefreshGoesOn /\ TimerRuns

Apart ==
  /\ Phases /\ WorkersAreOfThisSession
  /\ OneBusy /\ FetchEndsFirst /\ TickFindsNobody /\ ConnectFindsNobody

IInv == TInv /\ Apart

-----------------------------------------------------------------------------
(* Types, and the chain of refreshes: these need no assumption about time. *)
LEMMA InitTInv == Init => TInv
<1>. SUFFICES ASSUME Init PROVE TInv
  OBVIOUS
<1>. USE DashboardAssumption DEF Init, Tables, Nowhere
<1>1. /\ armed = FALSE /\ tick = FALSE /\ died = FALSE /\ ui = "loop" /\ m_pConnection = 0
      /\ uiLeft \in Nat /\ sessions \in 0 .. MaxSessions /\ m_pConnection \in {0, sessions}
      /\ elapsing \in 0 .. m_timerElapse /\ mgr \in 0 .. sessions
  OBVIOUS
<1>2. /\ at \in [Workers -> {"none", "start", "fetch", "show"}]
      /\ left \in [Workers -> 0 .. FetchTime] /\ connection \in [Workers -> 0 .. sessions]
      /\ pos \in [Workers -> Tables]
  OBVIOUS
<1>3. store \in [Tables -> 0 .. sessions] /\ fields \in [Tables -> 0 .. sessions]
  OBVIOUS
<1>4. TypeOK
  BY <1>1, <1>2, <1>3 DEF TypeOK
<1>5. QED
  BY <1>1, <1>4 DEF TInv, RoomForSession, RefreshGoesOn, TimerRuns

(* A timer of no time at all has ticked when it is set. *)
LEMMA TimerSet ==
  ASSUME NEW u \in Nat, SetTimer(u)
  PROVE  armed' = TRUE /\ elapsing' = u /\ tick' \in BOOLEAN /\ (tick' <=> u = 0)
<1>1. tick' = (u = 0)
  BY DEF SetTimer
<1>2. tick' \in BOOLEAN /\ (tick' <=> u = 0)
  BY <1>1, Zenon
<1>3. QED
  BY <1>2 DEF SetTimer

(* A tick may be left over from a timer that is killed. *)
LEMMA TimerKilled ==
  ASSUME tick \in BOOLEAN, KillTimer
  PROVE  armed' = FALSE /\ elapsing' = 0 /\ tick' \in BOOLEAN /\ (tick' => tick)
<1>1. tick' = tick \/ tick' = FALSE
  BY Zenon DEF KillTimer
<1>2. CASE tick' = tick
  BY <1>2 DEF KillTimer
<1>3. CASE tick' = FALSE
  BY <1>3 DEF KillTimer
<1>4. QED
  BY <1>1, <1>2, <1>3

(* SetConnection sets the timer or kills it. *)
LEMMA ConnectionSet ==
  ASSUME tick \in BOOLEAN, NEW c \in Nat, SetConnection(c)
  PROVE  /\ armed' \in BOOLEAN /\ elapsing' = 0 /\ tick' \in BOOLEAN
         /\ armed' => tick'
         /\ c # 0 => armed'
BY TimerSet, TimerKilled DEF SetConnection

(* A worker's next place, after its last table or field or before it. *)
LEMMA AdvanceStays ==
  ASSUME TypeOK, NEW w \in Workers, NEW next \in {"none", "show"}, Advance(w, next)
  PROVE  /\ at' \in [Workers -> {"none", "start", "fetch", "show"}]
         /\ pos' \in [Workers -> Tables]
<1>. USE DashboardAssumption DEF TypeOK, Advance, Tables
<1>1. CASE pos[w] < NumTables
  <2>1. pos' = [pos EXCEPT ![w] = pos[w] + 1] /\ at' = at
    BY <1>1
  <2>2. pos[w] + 1 \in Tables
    BY <1>1
  <2>3. QED
    BY <2>1, <2>2
<1>2. CASE ~(pos[w] < NumTables)
  <2>1. pos' = [pos EXCEPT ![w] = 1] /\ at' = [at EXCEPT ![w] = next]
    BY <1>2
  <2>2. 1 \in Tables
    OBVIOUS
  <2>3. QED
    BY <2>1, <2>2
<1>3. QED
  BY <1>1, <1>2

(* What the windows' thread does. *)
LEMMA UserTInv ==
  ASSUME TInv,
         \/ CloseConnection \/ WakeUp \/ DatabaseConnect
         \/ DialogOK \/ DialogCancel \/ Connected
  PROVE  TInv'
<1>. USE DashboardAssumption
  DEF TInv, TypeOK, RoomForSession, RefreshGoesOn, TimerRuns, user, timing, workers
<1>1. CASE CloseConnection
  BY <1>1, TimerKilled DEF CloseConnection
<1>2. CASE WakeUp
  <2>1. fields' \in [Tables -> 0 .. sessions']
    BY <1>2 DEF WakeUp, Nowhere
  <2>2. armed' \in BOOLEAN /\ elapsing' = 0 /\ tick' \in BOOLEAN /\ (armed' => tick')
    BY <1>2, ConnectionSet DEF WakeUp
  <2>3. QED
    BY <1>2, <2>1, <2>2 DEF WakeUp
<1>3. CASE DatabaseConnect
  BY <1>3 DEF DatabaseConnect
<1>4. CASE DialogOK
  BY <1>4 DEF DialogOK
<1>5. CASE DialogCancel
  <2>1. m_pConnection \in Nat
    OBVIOUS
  <2>2. /\ armed' \in BOOLEAN /\ elapsing' = 0 /\ tick' \in BOOLEAN
        /\ armed' => tick'
        /\ m_pConnection # 0 => armed'
    BY <1>5, <2>1, ConnectionSet DEF DialogCancel
  <2>3. QED
    BY <1>5, <2>2 DEF DialogCancel
<1>6. CASE Connected
  <2>1. /\ sessions' \in 0 .. MaxSessions /\ sessions <= sessions' /\ sessions' \in Nat
        /\ m_pConnection' \in {0, sessions'} /\ m_pConnection' \in Nat
    BY <1>6 DEF Connected
  <2>2. /\ armed' \in BOOLEAN /\ elapsing' = 0 /\ tick' \in BOOLEAN
        /\ armed' => tick'
        /\ m_pConnection' # 0 => armed'
    BY <1>6, <2>1, ConnectionSet DEF Connected
  <2>3. /\ mgr' \in 0 .. sessions' /\ connection' \in [Workers -> 0 .. sessions']
        /\ store' \in [Tables -> 0 .. sessions'] /\ fields' \in [Tables -> 0 .. sessions']
    BY <1>6, <2>1 DEF Connected
  <2>4. QED
    BY <1>6, <2>1, <2>2, <2>3 DEF Connected
<1>7. QED
  BY <1>1, <1>2, <1>3, <1>4, <1>5, <1>6

(* What the timer, the workers and time do. *)
LEMMA WorkerTInv ==
  ASSUME TInv, Pass \/ \E w \in Workers : OnTimer(w) \/ WorkThread(w)
  PROVE  TInv'
<1>. DEFINE At == [Workers -> {"none", "start", "fetch", "show"}]
            Left == [Workers -> 0 .. FetchTime]
            Sessions == 0 .. sessions
<1>. USE DashboardAssumption
<1>1. /\ ui \in {"loop", "dialog", "connecting", "asleep"} /\ uiLeft \in Nat
      /\ sessions \in Nat /\ sessions \in 0 .. MaxSessions /\ m_pConnection \in {0, sessions}
      /\ armed \in BOOLEAN /\ elapsing \in 0 .. m_timerElapse /\ tick \in BOOLEAN
      /\ died \in BOOLEAN /\ RoomForSession /\ RefreshGoesOn /\ TimerRuns
  BY DEF TInv, TypeOK
<1>2. /\ mgr \in Sessions /\ at \in At /\ left \in Left
      /\ connection \in [Workers -> Sessions] /\ pos \in [Workers -> Tables]
      /\ store \in [Tables -> Sessions] /\ fields \in [Tables -> Sessions]
  BY DEF TInv, TypeOK
<1>3. ASSUME UNCHANGED user, died' \in BOOLEAN, armed' \in BOOLEAN,
             elapsing' \in 0 .. m_timerElapse, tick' \in BOOLEAN,
             RefreshGoesOn', TimerRuns',
             mgr' \in Sessions, at' \in At, left' \in Left,
             connection' \in [Workers -> Sessions], pos' \in [Workers -> Tables],
             store' \in [Tables -> Sessions], fields' \in [Tables -> Sessions]
      PROVE  TInv'
  BY <1>1, <1>3, Zenon DEF TInv, TypeOK, RoomForSession, user
<1>4. ASSUME UNCHANGED <<user, timing>>, died' \in BOOLEAN,
             mgr' \in Sessions, at' \in At, left' \in Left,
             connection' \in [Workers -> Sessions], pos' \in [Workers -> Tables],
             store' \in [Tables -> Sessions], fields' \in [Tables -> Sessions]
      PROVE  TInv'
  <2>1. UNCHANGED <<user, armed, elapsing, tick>> /\ RefreshGoesOn' /\ TimerRuns'
    BY <1>1, <1>4 DEF user, timing, RefreshGoesOn, TimerRuns
  <2>. QED
    BY <1>1, <1>3, <1>4, <2>1
<1>5. CASE Pass
  <2>1. /\ left' \in Left /\ UNCHANGED <<mgr, at, connection, pos, store, fields, died>>
        /\ UNCHANGED <<ui, m_pConnection, sessions, armed>>
    BY <1>2, <1>5 DEF Pass
  <2>2. uiLeft' \in Nat
    BY <1>1, <1>5 DEF Pass
  <2>3. CASE armed /\ elapsing > 0
    <3>1. elapsing' = elapsing - 1 /\ elapsing' \in 0 .. m_timerElapse
      BY <1>1, <1>5, <2>3 DEF Pass
    <3>2. (elapsing' = 0 <=> elapsing = 1) /\ (elapsing' = 0 \/ elapsing' > 0)
      BY <1>1, <3>1
    <3>3. tick' \in BOOLEAN /\ (tick' <=> tick \/ elapsing' = 0)
      <4>1. tick' = (tick \/ elapsing = 1)
        BY <1>5, <2>3 DEF Pass
      <4>. QED
        BY <1>1, <3>2, <4>1, Zenon
    <3>4. RefreshGoesOn'
      BY <2>1, <2>3, Zenon DEF RefreshGoesOn
    <3>5. TimerRuns'
      BY <3>2, <3>3, Zenon DEF TimerRuns
    <3>6. RoomForSession'
      BY <1>1, <2>1 DEF RoomForSession
    <3>. QED
      BY <1>1, <1>2, <2>1, <2>2, <3>1, <3>3, <3>4, <3>5, <3>6, Zenon DEF TInv, TypeOK
  <2>4. CASE ~(armed /\ elapsing > 0)
    <3>1. UNCHANGED <<elapsing, tick>>
      BY <1>5, <2>4 DEF Pass
    <3>2. RefreshGoesOn' /\ TimerRuns' /\ RoomForSession'
      BY <1>1, <2>1, <3>1 DEF RefreshGoesOn, TimerRuns, RoomForSession
    <3>. QED
      BY <1>1, <1>2, <2>1, <2>2, <3>1, <3>2, Zenon DEF TInv, TypeOK
  <2>. QED
    BY <2>3, <2>4
<1>6. ASSUME NEW w \in Workers, OnTimer(w) PROVE TInv'
  <2>1. armed' = TRUE /\ elapsing' = m_timerElapse /\ tick' \in BOOLEAN
    BY <1>6, TimerSet DEF OnTimer
  <2>2. at' \in At /\ left' \in Left /\ UNCHANGED <<connection, pos>>
    BY <1>2, <1>6 DEF OnTimer, BeginThread
  <2>3. mgr' \in Sessions /\ UNCHANGED <<user, store, fields, died>>
    BY <1>1, <1>6 DEF OnTimer
  <2>4. elapsing' \in 0 .. m_timerElapse /\ elapsing' > 0
    BY <2>1
  <2>5. RefreshGoesOn' /\ TimerRuns'
    BY <2>1, <2>4 DEF RefreshGoesOn, TimerRuns
  <2>. QED
    BY <1>1, <1>2, <1>3, <2>1, <2>2, <2>3, <2>4, <2>5
<1>7. ASSUME NEW w \in Workers, NoConnection(w) PROVE TInv'
  <2>1. UNCHANGED <<user, timing, mgr, left, connection, pos, store, fields, died>> /\ at' \in At
    BY <1>2, <1>7 DEF NoConnection
  <2>. QED
    BY <1>1, <1>2, <1>4, <2>1
<1>8. ASSUME NEW w \in Workers, StartFetch(w) PROVE TInv'
  <2>1. at' \in At /\ UNCHANGED <<user, timing, mgr, left, fields, died>>
    BY <1>2, <1>8 DEF StartFetch
  <2>2. connection' \in [Workers -> Sessions]
    BY <1>2, <1>8 DEF StartFetch
  <2>3. pos' \in [Workers -> Tables]
    BY <1>2, <1>8 DEF StartFetch, Tables
  <2>4. store' \in [Tables -> Sessions]
    BY <1>1, <1>8 DEF StartFetch, Nowhere
  <2>. QED
    BY <1>1, <1>2, <1>4, <2>1, <2>2, <2>3, <2>4
<1>9. ASSUME NEW w \in Workers, FetchTable(w) PROVE TInv'
  <2>1. UNCHANGED <<user, timing, mgr, connection, fields, died>>
    BY <1>9 DEF FetchTable
  <2>2. at' \in At /\ left' \in Left /\ pos' \in [Workers -> Tables]
    BY <1>2, <1>9, AdvanceStays DEF FetchTable, TInv, TypeOK
  <2>3. store' \in [Tables -> Sessions]
    BY <1>2, <1>9 DEF FetchTable
  <2>. QED
    BY <1>1, <1>2, <1>4, <2>1, <2>2, <2>3
<1>10. ASSUME NEW w \in Workers, FetchThrows(w) PROVE TInv'
  <2>1. UNCHANGED <<user, timing, mgr, at, left, connection, pos, store, fields>> /\ died' = TRUE
    BY <1>10 DEF FetchThrows, workers
  <2>. QED
    BY <1>1, <1>2, <1>4, <2>1
<1>11. ASSUME NEW w \in Workers, ShowField(w) PROVE TInv'
  <2>1. UNCHANGED <<user, timing, mgr, connection, store, died>>
    BY <1>11 DEF ShowField
  <2>2. at' \in At /\ left' \in Left /\ pos' \in [Workers -> Tables]
    BY <1>2, <1>11, AdvanceStays DEF ShowField, TInv, TypeOK
  <2>3. fields' \in [Tables -> Sessions]
    BY <1>2, <1>11 DEF ShowField
  <2>. QED
    BY <1>1, <1>2, <1>4, <2>1, <2>2, <2>3
<1>. QED
  BY <1>5, <1>6, <1>7, <1>8, <1>9, <1>10, <1>11 DEF WorkThread

(* Every step. *)
LEMMA StepTInv == TInv /\ [Next]_vars => TInv'
<1>1. ASSUME TInv, UNCHANGED vars PROVE TInv'
  BY <1>1 DEF TInv, TypeOK, RoomForSession, RefreshGoesOn, TimerRuns, vars, user, timing, workers
<1>2. QED
  BY <1>1, UserTInv, WorkerTInv DEF Next

(* So this half of the invariant always holds. *)
LEMMA TypesAndTimer == Spec => []TInv
BY InitTInv, StepTInv, PTL DEF Spec

(* Every variable keeps its type, whatever time the fetches take. *)
THEOREM TypeCorrectness == Spec => []TypeOK
BY TypesAndTimer, PTL DEF TInv

(* CPage1::SetConnection and OnTimer set the timer, and only               *)
(* CloseConnection stops it: while there is a connection and the windows'  *)
(* thread is in its loop, the next refresh is on its way.                  *)
THEOREM RefreshesGoOn == Spec => []RefreshGoesOn
BY TypesAndTimer, PTL DEF TInv

-----------------------------------------------------------------------------
(* The workers keep apart, if they and the dialog take as long as assumed. *)
LEMMA InitApart == Init => Apart
BY DEF Init, Apart, Phases, WorkersAreOfThisSession, OneBusy, FetchEndsFirst,
  TickFindsNobody, ConnectFindsNobody, Busy

(* A worker only becomes busy when the timer begins it beside a connection *)
(* or a connection is made while it starts.                                *)
LEMMA UserApart ==
  ASSUME IInv, QuickEnough,
         \/ CloseConnection \/ WakeUp \/ DatabaseConnect
         \/ DialogOK \/ DialogCancel \/ Connected
  PROVE  Apart'
<1>. USE DashboardAssumption
  DEF IInv, Apart, TInv, TypeOK, QuickEnough, Phases, WorkersAreOfThisSession,
      OneBusy, FetchEndsFirst, TickFindsNobody, ConnectFindsNobody, Busy,
      user, timing, workers
<1>1. CASE CloseConnection
  BY <1>1 DEF CloseConnection
<1>2. CASE WakeUp
  BY <1>2 DEF WakeUp
<1>3. CASE DatabaseConnect
  BY <1>3 DEF DatabaseConnect
<1>4. CASE DialogOK
  BY <1>4 DEF DialogOK
<1>5. CASE DialogCancel
  BY <1>5 DEF DialogCancel
<1>6. CASE Connected
  BY <1>6 DEF Connected
<1>7. QED
  BY <1>1, <1>2, <1>3, <1>4, <1>5, <1>6

(* What the timer, the workers and time do. *)
LEMMA WorkerApart ==
  ASSUME IInv, QuickEnough, Pass \/ \E w \in Workers : OnTimer(w) \/ WorkThread(w)
  PROVE  Apart'
<1>. USE DashboardAssumption
  DEF IInv, Apart, TInv, TypeOK, QuickEnough, Phases, WorkersAreOfThisSession,
      OneBusy, FetchEndsFirst, TickFindsNobody, ConnectFindsNobody, Busy,
      user, timing, workers
<1>1. CASE Pass
  BY <1>1 DEF Pass, Pumping, RefreshGoesOn, TimerRuns
<1>2. ASSUME NEW w \in Workers, OnTimer(w) PROVE Apart'
  <2>1. ~tick' /\ elapsing' = m_timerElapse /\ m_timerElapse \in Nat
    BY <1>2, TimerSet DEF OnTimer
  <2>2. /\ ui' = ui /\ uiLeft' = uiLeft /\ m_pConnection' = m_pConnection
        /\ mgr' = m_pConnection /\ connection' = connection
        /\ ui \in {"loop", "dialog"} /\ tick /\ at[w] = "none"
        /\ at' = [at EXCEPT ![w] = "start"] /\ left' = [left EXCEPT ![w] = FetchTime]
    BY <1>2 DEF OnTimer, BeginThread, Pumping
  <2>3. Phases' /\ WorkersAreOfThisSession'
    BY <2>2
  <2>4. OneBusy'
    BY <2>2
  <2>5. FetchEndsFirst'
    BY <2>1, <2>2
  <2>6. TickFindsNobody' /\ ConnectFindsNobody'
    BY <2>1, <2>2
  <2>7. QED
    BY <2>3, <2>4, <2>5, <2>6
<1>3. ASSUME NEW w \in Workers, NoConnection(w) PROVE Apart'
  BY <1>3 DEF NoConnection
<1>4. ASSUME NEW w \in Workers, StartFetch(w) PROVE Apart'
  BY <1>4 DEF StartFetch
<1>5. ASSUME NEW w \in Workers, FetchTable(w) PROVE Apart'
  BY <1>5 DEF FetchTable, Advance
<1>6. ASSUME NEW w \in Workers, FetchThrows(w) PROVE Apart'
  BY <1>6 DEF FetchThrows
<1>7. ASSUME NEW w \in Workers, ShowField(w) PROVE Apart'
  BY <1>7 DEF ShowField, Advance
<1>8. QED
  BY <1>1, <1>2, <1>3, <1>4, <1>5, <1>6, <1>7 DEF WorkThread

(* Every step. *)
LEMMA StepApart == QuickEnough /\ IInv /\ [Next]_vars => Apart'
<1>1. ASSUME IInv, UNCHANGED vars PROVE Apart'
  BY <1>1 DEF IInv, Apart, Phases, WorkersAreOfThisSession, OneBusy, FetchEndsFirst,
    TickFindsNobody, ConnectFindsNobody, Busy, vars, user, timing, workers
<1>2. QED
  BY <1>1, UserApart, WorkerApart DEF Next

(* The inductive invariant, for every period of the timer that is longer   *)
(* than a fetch.                                                           *)
THEOREM Invariance == QuickEnough => (Spec => []IInv)
<1>. SUFFICES ASSUME QuickEnough PROVE Spec => []IInv
  OBVIOUS
<1>1. Init => IInv
  BY InitTInv, InitApart DEF IInv
<1>2. IInv /\ [Next]_vars => IInv'
  BY StepTInv, StepApart DEF IInv
<1>3. QED
  BY <1>1, <1>2, PTL DEF Spec

(* A set none of whose elements differ has at most one. *)
LEMMA AtMostOne ==
  ASSUME NEW S, \A v, w \in S : v = w
  PROVE  Cardinality(S) <= 1
<1>1. CASE S = {}
  BY <1>1, FS_EmptySet
<1>2. CASE S # {}
  <2>1. PICK x : x \in S
    BY <1>2
  <2>2. S = {x}
    BY <2>1
  <2>3. QED
    BY <2>2, FS_Singleton
<1>3. QED
  BY <1>1, <1>2

(* If a fetch is over before the next tick and the dialog takes some time, *)
(* never do two workers of CDatabaseThreadMgr share m_fetchedResults or    *)
(* the connection.                                                         *)
THEOREM WorkersTakeTurns == QuickEnough => (Spec => []OneWorkerInStore)
<1>1. IInv => OneWorkerInStore
  <2>. SUFFICES ASSUME IInv PROVE OneWorkerInStore
    OBVIOUS
  <2>. DEFINE InStore == {w \in Workers : at[w] \in {"fetch", "show"}}
  <2>1. \A v, w \in InStore : v = w
    BY DEF IInv, Apart, OneBusy, Busy
  <2>2. QED
    BY <2>1, AtMostOne DEF OneWorkerInStore
<1>2. QED
  BY <1>1, Invariance, PTL

(* Under the same assumptions CloseConnection's sleep outlasts every fetch *)
(* on the connection it is about to end.                                   *)
THEOREM ClosedAfterFetches == QuickEnough => (Spec => []NotClosedWhileFetching)
<1>1. IInv => NotClosedWhileFetching
  BY DEF IInv, Apart, WorkersAreOfThisSession, NotClosedWhileFetching
<1>2. QED
  BY <1>1, Invariance, PTL
=============================================================================
