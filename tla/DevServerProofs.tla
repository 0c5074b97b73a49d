-------------------------- MODULE DevServerProofs --------------------------
(***************************************************************************)
(* Proofs about DevServer, for any browsers and any number of saves.       *)
(***************************************************************************)
EXTENDS DevServer, TLAPS

-----------------------------------------------------------------------------
(* The inductive invariant: versions only pass down, from the file to the   *)
(* goroutine that has m.mu, to the server, to the goroutines that notify    *)
(* and to the browsers.                                                     *)

\* What was read is no older than what is served and no newer than the file.
ReadBetween == holder.at = "start" => server.ver <= holder.ver /\ holder.ver <= file

ServedFromFile == server.ver <= file

\* A goroutine notifies only about a version the server has reached.
NotifiedServed == \A v \in Version : notifying[v] > 0 => v <= server.ver

\* A page that is to load again was told so about a version the server has reached.
ToldServed == \A b \in Browser : navigating[b] <= server.ver

IInv == TypeOK /\ ReadBetween /\ ServedFromFile /\ NotifiedServed /\ ToldServed

-----------------------------------------------------------------------------
\* Versions are numbers.
LEMMA VersionType == Version \subseteq Int /\ 0 \in Version /\ NoPage \in Int
  BY SavesAssumption DEF Version, NoPage

LEMMA Numbers ==
  ASSUME TypeOK
  PROVE  /\ file \in Int /\ server.ver \in Int /\ holder.ver \in Int /\ 0 <= server.ver
         /\ navigating \in [Browser -> Int]
         /\ server = [ver |-> server.ver, listening |-> server.listening]
<1>1. server.ver \in Version /\ holder.ver \in Version /\ file \in Version
  BY DEF TypeOK
<1>2. \A v \in Version : v \in Int /\ 0 <= v
  BY SavesAssumption DEF Version
<1>3. server = [ver |-> server.ver, listening |-> server.listening]
  BY DEF TypeOK
<1>4. navigating \in [Browser -> Int]
  <2>1. Version \cup {NoPage} \subseteq Int
    BY VersionType
  <2> QED BY <2>1 DEF TypeOK
<1> QED BY <1>1, <1>2, <1>3, <1>4

\* Shutting the server down leaves its version alone.
LEMMA ShutServer ==
  ASSUME TypeOK, server' = [server EXCEPT !.listening = FALSE]
  PROVE  server' \in [ver : Version, listening : BOOLEAN] /\ server'.ver = server.ver
<1>1. server.ver \in Version
  BY DEF TypeOK
<1>2. server' = [ver |-> server.ver, listening |-> FALSE]
  BY DEF TypeOK
<1> QED BY <1>1, <1>2

LEMMA InitIInv == Init => IInv
<1> SUFFICES ASSUME Init PROVE IInv
  OBVIOUS
<1>1. TypeOK
  BY VersionType DEF Init, TypeOK, Free
<1>2. ReadBetween /\ ServedFromFile /\ NotifiedServed /\ ToldServed
  BY DEF Init, ReadBetween, ServedFromFile, NotifiedServed, ToldServed, Free, NoPage
<1> QED BY <1>1, <1>2 DEF IInv

\* The invariant without the types.
Ordered == ReadBetween /\ ServedFromFile /\ NotifiedServed /\ ToldServed

LEMMA StepTypeOK ==
  ASSUME TypeOK, [Next]_vars
  PROVE  TypeOK'
<1> USE VersionType
<1>1. CASE Save
  <2>1. file + 1 \in Version
    BY <1>1, SavesAssumption DEF Save, TypeOK, Version
  <2> QED BY <1>1, <2>1 DEF Save, TypeOK, reload, browsers
<1>2. CASE StartWatching
  BY <1>2 DEF StartWatching, TypeOK, source, reload, browsers
<1>3. CASE WatchEvent
  BY <1>3 DEF WatchEvent, TypeOK, source, reload, browsers
<1>4. CASE TimerFires
  <2>1. blocked' \in Nat
    BY <1>4 DEF TimerFires, TypeOK
  <2> QED BY <1>4, <2>1 DEF TimerFires, TypeOK, source, browsers
<1>5. CASE LockAndShutdown
  <2>1. blocked' \in Nat
    BY <1>5 DEF LockAndShutdown, TypeOK
  <2>2. holder' \in [at : {"free", "read", "start"}, ver : Version]
    BY <1>5 DEF LockAndShutdown
  <2>3. server' \in [ver : Version, listening : BOOLEAN]
    BY <1>5, ShutServer DEF LockAndShutdown
  <2> QED BY <1>5, <2>1, <2>2, <2>3 DEF LockAndShutdown, TypeOK, source, watch, browsers
<1>6. CASE ReadFile
  BY <1>6 DEF ReadFile, TypeOK, source, watch, browsers
<1>7. CASE StartFails
  BY <1>7 DEF StartFails, TypeOK, Free, source, watch, browsers
<1>8. CASE StartSucceeds
  <2>1. holder' \in [at : {"free", "read", "start"}, ver : Version]
    BY <1>8 DEF StartSucceeds, Free
  <2>2. holder.ver \in Version
    BY DEF TypeOK
  <2>3. server' \in [ver : Version, listening : BOOLEAN]
    BY <1>8, <2>2 DEF StartSucceeds
  <2>4. notifying' \in [Version -> Nat]
    <3>1. notifying \in [Version -> Nat]
      BY DEF TypeOK
    <3>2. notifying[holder.ver] \in Nat
      BY <2>2, <3>1, Zenon
    <3>3. notifying[holder.ver] + 1 \in Nat
      BY <3>2
    <3> QED BY <1>8, <3>1, <3>3 DEF StartSucceeds
  <2> QED BY <1>8, <2>1, <2>3, <2>4 DEF StartSucceeds, TypeOK, source, watch, browsers
<1>9. CASE NotifyLiveReload
  BY <1>9 DEF NotifyLiveReload, TypeOK, source, watch
<1>10. CASE Interrupt
  BY <1>10 DEF Interrupt, TypeOK, source, reload, browsers
<1>11. CASE ShutdownServer
  BY <1>11 DEF ShutdownServer, TypeOK, source, watch, browsers
<1>12. ASSUME NEW b \in Browser, OpenPage(b) PROVE TypeOK'
  BY <1>12 DEF OpenPage, TypeOK, source, watch, reload
<1>13. ASSUME NEW b \in Browser, Connect(b) PROVE TypeOK'
  BY <1>13 DEF Connect, TypeOK, source, watch, reload
<1>14. ASSUME NEW b \in Browser, WriteTimeout(b) PROVE TypeOK'
  BY <1>14 DEF WriteTimeout, TypeOK, source, watch, reload
<1>15. ASSUME NEW b \in Browser, Navigate(b) PROVE TypeOK'
  BY <1>15 DEF Navigate, TypeOK, source, watch, reload
<1>16. ASSUME NEW b \in Browser, CloseTab(b) PROVE TypeOK'
  BY <1>16 DEF CloseTab, TypeOK, source, watch, reload
<1>17. CASE Ended \/ UNCHANGED vars
  BY <1>17 DEF Ended, vars, TypeOK, source, watch, reload, browsers
<1> QED BY <1>1, <1>2, <1>3, <1>4, <1>5, <1>6, <1>7, <1>8, <1>9, <1>10, <1>11, <1>12, <1>13, <1>14, <1>15,
           <1>16, <1>17 DEF Next

LEMMA StepOrdered ==
  ASSUME IInv, [Next]_vars
  PROVE  Ordered'
<1>n. /\ file \in Int /\ server.ver \in Int /\ holder.ver \in Int /\ 0 <= server.ver
      /\ navigating \in [Browser -> Int] /\ notifying \in [Version -> Nat]
  BY Numbers DEF IInv, TypeOK
<1>o. ReadBetween /\ ServedFromFile /\ NotifiedServed /\ ToldServed
  BY DEF IInv
<1>v. \A v \in Version : v \in Int
  BY VersionType
<1> USE <1>n, <1>o, <1>v DEF Ordered, ReadBetween, ServedFromFile, NotifiedServed, ToldServed
<1>1. CASE Save
  BY <1>1 DEF Save, reload, browsers
<1>2. CASE StartWatching \/ WatchEvent \/ Interrupt \/ Ended \/ UNCHANGED vars
  BY <1>2 DEF StartWatching, WatchEvent, Interrupt, Ended, vars, source, watch, reload, browsers
<1>3. CASE TimerFires
  BY <1>3 DEF TimerFires, source, browsers
<1>4. CASE LockAndShutdown
  <2>1. server'.ver = server.ver
    BY <1>4, ShutServer DEF LockAndShutdown, IInv
  <2> QED BY <1>4, <2>1 DEF LockAndShutdown, source, browsers
<1>5. CASE ReadFile
  <2>1. holder' = [at |-> "start", ver |-> file] /\ file' = file /\ server' = server
    BY <1>5 DEF ReadFile, source
  <2> QED BY <1>5, <2>1 DEF ReadFile, browsers
<1>6. CASE StartFails
  BY <1>6 DEF StartFails, Free, source, browsers
<1>7. CASE StartSucceeds
  <2>1. server'.ver = holder.ver /\ server.ver <= holder.ver /\ holder.ver <= file
    BY <1>7 DEF StartSucceeds
  <2>2. holder'.at = "free" /\ file' = file /\ navigating' = navigating
    BY <1>7 DEF StartSucceeds, Free, source, browsers
  <2>3. \A v \in Version : v # holder.ver => notifying'[v] = notifying[v]
    BY <1>7 DEF StartSucceeds
  <2>4. NotifiedServed'
    <3> SUFFICES ASSUME NEW v \in Version, notifying'[v] > 0
                 PROVE  v <= server'.ver
      OBVIOUS
    <3>1. CASE v = holder.ver
      BY <3>1, <2>1
    <3>2. CASE v # holder.ver
      BY <3>2, <2>1, <2>3
    <3> QED BY <3>1, <3>2
  <2>5. ToldServed'
    BY <2>1, <2>2
  <2> QED BY <2>1, <2>2, <2>4, <2>5
<1>8. CASE NotifyLiveReload
  <2>1. PICK v \in Version :
             /\ notifying[v] > 0
             /\ notifying' = [notifying EXCEPT ![v] = @ - 1]
             /\ navigating' = [b \in Browser |-> IF conn[b] = "open" THEN v ELSE navigating[b]]
    BY <1>8 DEF NotifyLiveReload
  <2>2. file' = file /\ server' = server /\ holder' = holder
    BY <1>8 DEF NotifyLiveReload, source
  <2>3. NotifiedServed'
    BY <2>1, <2>2
  <2>4. ToldServed'
    BY <2>1, <2>2
  <2> QED BY <2>2, <2>3, <2>4
<1>9. CASE ShutdownServer
  <2>1. server'.ver = server.ver
    BY <1>9, ShutServer DEF ShutdownServer, IInv
  <2> QED BY <1>9, <2>1 DEF ShutdownServer, source, browsers
<1>10. ASSUME NEW b \in Browser, OpenPage(b) \/ Connect(b) \/ WriteTimeout(b) PROVE Ordered'
  BY <1>10 DEF OpenPage, Connect, WriteTimeout, source, reload
<1>11. ASSUME NEW b \in Browser, Navigate(b) \/ CloseTab(b) PROVE Ordered'
  <2>1. file' = file /\ server' = server /\ holder' = holder /\ notifying' = notifying
    BY <1>11 DEF Navigate, CloseTab, source, reload
  <2>2. navigating' = [navigating EXCEPT ![b] = NoPage] /\ 0 <= server.ver
    BY <1>11 DEF Navigate, CloseTab
  <2> QED BY <2>1, <2>2 DEF NoPage
<1> QED BY <1>1, <1>2, <1>3, <1>4, <1>5, <1>6, <1>7, <1>8, <1>9, <1>10, <1>11 DEF Next

\* The invariant holds in every state of every behaviour.
THEOREM Invariance == Spec => []IInv
<1>1. IInv /\ [Next]_vars => IInv'
  BY StepTypeOK, StepOrdered DEF IInv, Ordered
<1> QED BY InitIInv, <1>1, PTL DEF Spec

-----------------------------------------------------------------------------
\* No restart replaces the server by one of an older version of the file, in whatever order the timers
\* that fired get the lock.
THEOREM NoRollbackHolds == Spec => NoRollback
<1>1. IInv /\ [Next]_vars => server'.ver >= server.ver
  <2> SUFFICES ASSUME IInv, [Next]_vars PROVE server'.ver >= server.ver
    OBVIOUS
  <2>1. server.ver \in Int
    BY VersionType DEF IInv, TypeOK
  <2>2. CASE StartSucceeds
    BY <2>1, <2>2 DEF StartSucceeds, IInv, ReadBetween
  <2>3. CASE LockAndShutdown \/ ShutdownServer
    <3>1. server' = [server EXCEPT !.listening = FALSE]
      BY <2>3 DEF LockAndShutdown, ShutdownServer
    <3> QED BY <2>1, <3>1, ShutServer DEF IInv
  <2>4. CASE ~(StartSucceeds \/ LockAndShutdown \/ ShutdownServer)
    <3>1. server' = server
      BY <2>4 DEF Next, Save, StartWatching, WatchEvent, TimerFires, ReadFile, StartFails, NotifyLiveReload,
                  Interrupt, OpenPage, Connect, WriteTimeout, Navigate, CloseTab, Ended, vars, reload
    <3> QED BY <2>1, <3>1
  <2> QED BY <2>2, <2>3, <2>4
<1> QED BY <1>1, Invariance, PTL DEF Spec, NoRollback

\* A page that loads again shows, if any, a version no older than the one it was told about.
THEOREM RefreshNotStaleHolds == Spec => RefreshNotStale
<1> DEFINE Refresh ==
      \A b \in Browser :
         navigating[b] # NoPage /\ navigating'[b] = NoPage /\ page'[b] # NoPage => page'[b] >= navigating[b]
<1>1. IInv /\ [Next]_vars => Refresh
  <2> SUFFICES ASSUME IInv, [Next]_vars, NEW b \in Browser,
                      navigating[b] # NoPage, navigating'[b] = NoPage, page'[b] # NoPage
               PROVE  page'[b] >= navigating[b]
    OBVIOUS
  <2>1. navigating[b] \in Int /\ server.ver \in Int /\ navigating[b] <= server.ver
    BY VersionType DEF IInv, TypeOK, ToldServed
  <2>2. ASSUME NEW c \in Browser, Navigate(c) PROVE page'[b] >= navigating[b]
    <3>1. c = b
      BY <2>2 DEF Navigate, IInv, TypeOK
    <3>2. page'[b] = server.ver
      BY <2>2, <3>1 DEF Navigate, IInv, TypeOK
    <3> QED BY <2>1, <3>2
  <2>3. ASSUME NEW c \in Browser, CloseTab(c) PROVE FALSE
    <3>1. c = b
      BY <2>3 DEF CloseTab, IInv, TypeOK
    <3> QED BY <2>3, <3>1 DEF CloseTab, IInv, TypeOK
  <2>4. ASSUME NotifyLiveReload PROVE FALSE
    <3>1. PICK v \in Version : navigating' = [c \in Browser |-> IF conn[c] = "open" THEN v ELSE navigating[c]]
      BY <2>4 DEF NotifyLiveReload
    <3> QED BY <3>1, SavesAssumption DEF Version, NoPage
  <2>5. ASSUME navigating' = navigating PROVE FALSE
    BY <2>5
  <2>6. ASSUME Save \/ StartWatching \/ WatchEvent \/ TimerFires \/ LockAndShutdown \/ ReadFile \/ StartFails
                 \/ StartSucceeds \/ Interrupt \/ ShutdownServer \/ Ended \/ UNCHANGED vars
        PROVE  navigating' = navigating
    BY <2>6 DEF Save, StartWatching, WatchEvent, TimerFires, LockAndShutdown, ReadFile, StartFails, StartSucceeds,
                Interrupt, ShutdownServer, Ended, vars, browsers
  <2>7. ASSUME NEW c \in Browser, OpenPage(c) \/ Connect(c) \/ WriteTimeout(c) PROVE navigating' = navigating
    BY <2>7 DEF OpenPage, Connect, WriteTimeout
  <2> QED BY <2>2, <2>3, <2>4, <2>5, <2>6, <2>7 DEF Next
<1> QED BY <1>1, Invariance, PTL DEF Spec, RefreshNotStale
=============================================================================
