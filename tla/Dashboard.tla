------------------------------- MODULE Dashboard -------------------------------
(***************************************************************************)
(* Dashboard: the thread that owns the windows connects and disconnects    *)
(* (CDashboardDlg), and at each tick of a timer starts a worker thread     *)
(* (CPage1, CDatabaseThreadMgr), which fetches the figures of every table  *)
(* into one shared store and writes them into the windows' fields.         *)
(*                                                                         *)
(* Nothing but time keeps these threads apart, so time is in the model:    *)
(* Pass lets one unit of it go by, and the counters below run down.  A     *)
(* worker sets a field by a message to the thread that owns the windows,   *)
(* which waits until that thread looks at its messages.                    *)
(*                                                                         *)
(* An operator commented "Slip" is a wrong version of the one below it,    *)
(* kept to show that some property notices the mistake.                    *)
(***************************************************************************)
EXTENDS Naturals, FiniteSets

CONSTANTS
  Workers,          \* the worker threads that may be alive at one time
  NumTables,        \* seven in the code
  MaxSessions,      \* bound: how often the user connects
  m_timerElapse,    \* units of time between two refreshes
  FetchTime,        \* assumed of MySQL: the units a worker's fetch takes at most
  DialogTime        \* assumed of the user: the units the dialog takes at least

ASSUME DashboardAssumption ==
  /\ NumTables \in Nat \ {0} /\ MaxSessions \in Nat
  /\ m_timerElapse \in Nat \ {0} /\ FetchTime \in Nat /\ DialogTime \in Nat

VARIABLES
  ui,            \* "loop", "dialog" (which has a message loop), "connecting" or "asleep"
  uiLeft,        \* how long it stays there at least
  m_pConnection, \* the open connection, numbered; 0 when there is none
  sessions,      \* how many connections there have been
  armed,         \* whether the timer is set
  elapsing,      \* the time left until it ticks
  tick,          \* whether a WM_TIMER is waiting to be dispatched
  mgr,           \* the connection CDatabaseThreadMgr keeps for its threads
  at,            \* each worker: "none", "start", "fetch" or "show"
  left,          \* the time its fetch may still take
  connection,    \* its own copy of the connection
  pos,           \* the table or field it is at
  store,         \* m_fetchedResults: the connection each table's figures came from
  fields,        \* the same for the text of each field, 0 for none
  died           \* an exception left a worker

timing == <<armed, elapsing, tick>>
user == <<ui, uiLeft, m_pConnection, sessions>>
workers == <<at, left, connection, pos>>
vars == <<user, timing, mgr, workers, store, fields, died>>

Tables == 1 .. NumTables
Nowhere == [i \in Tables |-> 0]

Init ==
  /\ ui = "loop" /\ uiLeft = 0
  /\ m_pConnection = 0 /\ sessions = 0
  /\ armed = FALSE /\ elapsing = 0 /\ tick = FALSE
  /\ mgr = 0
  /\ at = [w \in Workers |-> "none"]
  /\ left = [w \in Workers |-> 0]
  /\ connection = [w \in Workers |-> 0]
  /\ pos = [w \in Workers |-> 1]
  /\ store = Nowhere /\ fields = Nowhere
  /\ died = FALSE

-----------------------------------------------------------------------------
(* The timer.  KillTimer need not take back a WM_TIMER that is waiting. *)
SetTimer(uElapse) == armed' = TRUE /\ elapsing' = uElapse /\ tick' = (uElapse = 0)

KillTimer == armed' = FALSE /\ elapsing' = 0 /\ tick' \in {tick, FALSE}

(* Slip: the timer is killed when it has been set. *)
SetConnection_KillsIt(c) == armed' = FALSE /\ elapsing' = 0 /\ tick' = FALSE /\ c \in Nat

SetConnection(c) == IF c # 0 THEN SetTimer(0) ELSE KillTimer

(* Sent messages and the timer's are looked at in any message loop. *)
Pumping == ui \in {"loop", "dialog"}

-----------------------------------------------------------------------------
(* The button, while there is a connection *)

(* Slip: the connection is closed without waiting for the worker. *)
CloseConnection_NoSleep ==
  /\ ~died /\ ui = "loop" /\ m_pConnection # 0
  /\ ui' = "asleep" /\ uiLeft' = 0
  /\ KillTimer
  /\ UNCHANGED <<m_pConnection, sessions, mgr, workers, store, fields, died>>

(* CPage1::CloseConnection stops the timer and sleeps ... *)
CloseConnection ==
  /\ ~died /\ ui = "loop" /\ m_pConnection # 0
  /\ ui' = "asleep" /\ uiLeft' = m_timerElapse
  /\ KillTimer
  /\ UNCHANGED <<m_pConnection, sessions, mgr, workers, store, fields, died>>

(* ... then it clears the fields; DatabaseDisconnect; SetConnection. *)
WakeUp ==
  /\ ~died /\ ui = "asleep" /\ uiLeft = 0
  /\ fields' = Nowhere
  /\ m_pConnection' = 0
  /\ SetConnection(m_pConnection')
  /\ ui' = "loop"
  /\ UNCHANGED <<uiLeft, sessions, mgr, workers, store, died>>

-----------------------------------------------------------------------------
(* The button, while there is none: DatabaseConnect asks for the server ... *)
DatabaseConnect ==
  /\ ~died /\ ui = "loop" /\ m_pConnection = 0 /\ sessions < MaxSessions
  /\ ui' = "dialog" /\ uiLeft' = DialogTime
  /\ UNCHANGED <<m_pConnection, sessions, timing, mgr, workers, store, fields, died>>

(* ... the dialog is left, and driver->connect waits for MySQL ... *)
DialogOK ==
  /\ ~died /\ ui = "dialog" /\ uiLeft = 0
  /\ ui' = "connecting" /\ uiLeft' = 1
  /\ UNCHANGED <<m_pConnection, sessions, timing, mgr, workers, store, fields, died>>

DialogCancel ==
  /\ ~died /\ ui = "dialog"
  /\ SetConnection(m_pConnection)
  /\ ui' = "loop"
  /\ UNCHANGED <<uiLeft, m_pConnection, sessions, mgr, workers, store, fields, died>>

(* ... and connects, or throws; SetConnection. *)
Connected ==
  /\ ~died /\ ui = "connecting" /\ uiLeft = 0
  /\ \/ m_pConnection' = sessions + 1 /\ sessions' = sessions + 1
     \/ UNCHANGED <<m_pConnection, sessions>>
  /\ SetConnection(m_pConnection')
  /\ ui' = "loop"
  /\ UNCHANGED <<uiLeft, mgr, workers, store, fields, died>>

-----------------------------------------------------------------------------
BeginThread(w) ==
  /\ at[w] = "none" /\ at' = [at EXCEPT ![w] = "start"]
  /\ left' = [left EXCEPT ![w] = FetchTime]
  /\ UNCHANGED <<connection, pos>>

(* Slip: the timer is not set again. *)
OnTimer_NotRestarted(w) ==
  /\ ~died /\ Pumping /\ tick
  /\ mgr' = m_pConnection
  /\ BeginThread(w)
  /\ armed' = FALSE /\ elapsing' = 0 /\ tick' = FALSE
  /\ UNCHANGED <<user, store, fields, died>>

(* Slip: the timer is set again as SetConnection does it. *)
OnTimer_AtOnce(w) ==
  /\ ~died /\ Pumping /\ tick
  /\ mgr' = m_pConnection
  /\ BeginThread(w)
  /\ SetTimer(0)
  /\ UNCHANGED <<user, store, fields, died>>

(* A tick starts a worker and sets the timer again, whether or not there   *)
(* is still a connection, or a worker.                                     *)
OnTimer(w) ==
  /\ ~died /\ Pumping /\ tick
  /\ mgr' = m_pConnection
  /\ BeginThread(w)
  /\ SetTimer(m_timerElapse)
  /\ UNCHANGED <<user, store, fields, died>>

-----------------------------------------------------------------------------
(* WorkThread *)

NoConnection(w) ==
  /\ ~died /\ at[w] = "start" /\ mgr = 0
  /\ at' = [at EXCEPT ![w] = "none"]
  /\ UNCHANGED <<user, timing, mgr, left, connection, pos, store, fields, died>>

(* It takes its copy of the connection and clears the store. *)
StartFetch(w) ==
  /\ ~died /\ at[w] = "start" /\ mgr # 0
  /\ at' = [at EXCEPT ![w] = "fetch"]
  /\ connection' = [connection EXCEPT ![w] = mgr]
  /\ pos' = [pos EXCEPT ![w] = 1]
  /\ store' = Nowhere
  /\ UNCHANGED <<user, timing, mgr, left, fields, died>>

(* On to the next table or field, or past the last of them to "next". *)
Advance(w, next) ==
  IF pos[w] < NumTables
    THEN pos' = [pos EXCEPT ![w] = @ + 1] /\ UNCHANGED at
    ELSE pos' = [pos EXCEPT ![w] = 1] /\ at' = [at EXCEPT ![w] = next]

(* Slip: "i <= tableNames.size()". *)
FetchTable_PastTheEnd(w) ==
  /\ ~died /\ at[w] = "fetch" /\ connection[w] = m_pConnection
  /\ store' = [i \in Tables |-> IF i = pos[w] THEN connection[w] ELSE store[i]]
  /\ IF pos[w] <= NumTables
       THEN pos' = [pos EXCEPT ![w] = @ + 1] /\ UNCHANGED at
       ELSE pos' = [pos EXCEPT ![w] = 1] /\ at' = [at EXCEPT ![w] = "show"]
  /\ UNCHANGED <<user, timing, mgr, left, connection, fields, died>>

FetchTable(w) ==
  /\ ~died /\ at[w] = "fetch" /\ connection[w] = m_pConnection
  /\ store' = [store EXCEPT ![pos[w]] = connection[w]]
  /\ Advance(w, "show")
  /\ UNCHANGED <<user, timing, mgr, left, connection, fields, died>>

(* MySQL refuses, or is gone, and always does when the connection was      *)
(* closed; nothing catches the exception.                                  *)
FetchThrows(w) ==
  /\ ~died /\ at[w] = "fetch"
  /\ died' = TRUE
  /\ UNCHANGED <<user, timing, mgr, workers, store, fields>>

(* SetFinished, PostProcessFunc, DatabaseFinished: one field. *)
ShowField(w) ==
  /\ ~died /\ at[w] = "show" /\ Pumping
  /\ fields' = [fields EXCEPT ![pos[w]] = store[pos[w]]]
  /\ Advance(w, "none")
  /\ UNCHANGED <<user, timing, mgr, left, connection, store, died>>

WorkThread(w) ==
  NoConnection(w) \/ StartFetch(w) \/ FetchTable(w) \/ FetchThrows(w) \/ ShowField(w)

-----------------------------------------------------------------------------
(* Time passes, but not beyond what a fetch may take, not before a thread  *)
(* that was begun has started, and not while a field can be set: sent      *)
(* messages come before all others.                                        *)
Pass ==
  /\ ~died
  /\ \A w \in Workers :
       /\ at[w] # "start" /\ (at[w] = "fetch" => left[w] > 0)
       /\ ~(Pumping /\ at[w] = "show")
  /\ left' = [w \in Workers |-> IF at[w] = "fetch" THEN left[w] - 1 ELSE 0]
  /\ uiLeft' = IF uiLeft > 0 THEN uiLeft - 1 ELSE 0
  /\ IF armed /\ elapsing > 0
       THEN elapsing' = elapsing - 1 /\ tick' = (tick \/ elapsing = 1)
       ELSE UNCHANGED <<elapsing, tick>>
  /\ UNCHANGED <<ui, m_pConnection, sessions, armed, mgr, at, connection, pos, store, fields, died>>

Next ==
  \/ CloseConnection \/ WakeUp \/ Pass
  \/ DatabaseConnect \/ DialogOK \/ DialogCancel \/ Connected
  \/ \E w \in Workers : OnTimer(w) \/ WorkThread(w)

Spec == Init /\ [][Next]_vars

(* Threads run, ticks are dispatched and time goes on; the user need not   *)
(* press anything, nor finish with a dialog.                               *)
FairSpec ==
  /\ Spec
  /\ WF_vars(WakeUp) /\ WF_vars(Pass) /\ WF_vars(\E w \in Workers : OnTimer(w))
  /\ \A w \in Workers : WF_vars(WorkThread(w))

-----------------------------------------------------------------------------
(* The values each variable ranges over. *)
TypeOK ==
  /\ ui \in {"loop", "dialog", "connecting", "asleep"} /\ uiLeft \in Nat
  /\ sessions \in 0 .. MaxSessions /\ m_pConnection \in {0, sessions}
  /\ armed \in BOOLEAN /\ elapsing \in 0 .. m_timerElapse /\ tick \in BOOLEAN
  /\ mgr \in 0 .. sessions
  /\ at \in [Workers -> {"none", "start", "fetch", "show"}]
  /\ left \in [Workers -> 0 .. FetchTime]
  /\ connection \in [Workers -> 0 .. sessions]
  /\ pos \in [Workers -> Tables]
  /\ store \in [Tables -> 0 .. sessions] /\ fields \in [Tables -> 0 .. sessions]
  /\ died \in BOOLEAN

(* m_fetchedResults and the connection have one user at a time: no worker  *)
(* clears the store while another fills it or reads from it.  Only the     *)
(* timer's period sees to that, and it does if a fetch is shorter.         *)
OneWorkerInStore == Cardinality({w \in Workers : at[w] \in {"fetch", "show"}}) <= 1

(* A connection is not closed under a worker that still queries it.  Only  *)
(* the sleep of CloseConnection sees to that.                              *)
NotClosedWhileFetching ==
  \A w \in Workers : at[w] = "fetch" => connection[w] = m_pConnection

(* The chain of refreshes does not break while there is a connection: each *)
(* one is started by a timer that the one before has set.                  *)
RefreshGoesOn == ui = "loop" /\ m_pConnection # 0 => armed \/ tick

(* Whatever an earlier session left in the fields, and a worker held up by *)
(* the sleep may fill fields that were cleared meanwhile, the fields come  *)
(* to show the present one, if it lasts and no exception ends the process. *)
ShowsThisSession ==
  \A s \in 1 .. MaxSessions :
    ui = "loop" /\ m_pConnection = s
      ~> (\A i \in Tables : fields[i] = s) \/ m_pConnection # s \/ died
=============================================================================
