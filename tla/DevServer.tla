----------------------------- MODULE DevServer -----------------------------
(***************************************************************************)
(* glyph dev (cmd/glyph/server.go): one source file is watched, every save *)
(* arms a debounce timer, a timer that fires restarts the HTTP server from *)
(* the file and then tells the connected browsers to load their page       *)
(* again.                                                                  *)
(*                                                                         *)
(* Goroutines: the watch loop, one per timer that fired (blocked on m.mu,  *)
(* reloading, or notifying), and the main goroutine that waits for Ctrl+C. *)
(* A version of the file is the number of the save that wrote it.  The     *)
(* 100 ms the code sleeps after starting a server are taken to be enough   *)
(* for it to listen.                                                       *)
(***************************************************************************)
EXTENDS Integers

CONSTANTS
  Browser,
  MaxSaves   \* bound on the saves of the file

ASSUME SavesAssumption == MaxSaves \in Nat

VARIABLES
  file,        \* the version on disk
  good,        \* the versions that parse and set up
  missed,      \* the last save was not seen by the watcher
  watching,    \* watcher.Add has returned
  events,      \* events of the watcher not yet taken by the loop
  timer,       \* debounceTimer is armed
  blocked,     \* goroutines in startServer that wait for m.mu
  holder,      \* what the goroutine that has m.mu does next
  server,      \* m.server: the version it serves and whether it listens
  notifying,   \* goroutines that have restarted the server and will notify, by version
  report,      \* what reload printed last
  main,        \* the main goroutine
  page,        \* the version each browser shows
  conn,        \* its entry in liveReloadConns
  navigating   \* the version whose notification makes it load the page again

source == <<file, good, missed>>
watch == <<watching, events, timer>>
reload == <<blocked, holder, server, notifying, report>>
browsers == <<page, conn, navigating>>
vars == <<source, watch, reload, main, browsers>>

Version == 0..MaxSaves
NoPage == -1
Free == [at |-> "free", ver |-> 0]

Init ==
  /\ file = 0 /\ good = {0} /\ missed = FALSE
  /\ watching = FALSE /\ events = 0 /\ timer = FALSE
  /\ blocked = 0 /\ holder = Free /\ notifying = [v \in Version |-> 0]
  /\ server = [ver |-> 0, listening |-> TRUE]
  /\ report = "none"
  /\ main = "waits"
  /\ page = [b \in Browser |-> NoPage]
  /\ conn = [b \in Browser |-> "none"]
  /\ navigating = [b \in Browser |-> NoPage]

Running == main # "ended"

----------------------------------------------------------------------------
(* The editor and the watch loop *)

\* A save of a file that does not parse is also what a reader sees of a save in two writes.
Save ==
  /\ Running
  /\ file < MaxSaves
  /\ file' = file + 1
  /\ good' \in {good, good \cup {file + 1}}
  /\ missed' = ~watching
  /\ events' = IF watching /\ main = "waits" THEN events + 1 ELSE events
  /\ UNCHANGED <<watching, timer, reload, main, browsers>>

StartWatching ==
  /\ Running
  /\ ~watching
  /\ watching' = TRUE
  /\ UNCHANGED <<source, events, timer, reload, main, browsers>>

\* Mutant: an event while the timer runs is left to that timer, which may have been read as fired.
WatchEventOnce ==
  /\ Running
  /\ events > 0
  /\ events' = events - 1
  /\ timer' = (blocked = 0 /\ holder = Free)
  /\ UNCHANGED <<source, watching, reload, main, browsers>>

\* A write or create event stops the timer and arms a new one.
WatchEvent ==
  /\ Running
  /\ events > 0
  /\ events' = events - 1
  /\ timer' = TRUE
  /\ UNCHANGED <<source, watching, reload, main, browsers>>

\* The timer fires: its goroutine calls reload, which prints and goes for the lock.  A later Stop of
\* this timer has no effect.
TimerFires ==
  /\ Running
  /\ timer
  /\ timer' = FALSE
  /\ blocked' = blocked + 1
  /\ UNCHANGED <<source, watching, events, holder, server, notifying, report, main, browsers>>

----------------------------------------------------------------------------
(* startServer, with m.mu held *)

\* Mutant: the file is read before the lock is taken.
LockAndShutdownRead ==
  /\ Running
  /\ blocked > 0
  /\ holder = Free
  /\ blocked' = blocked - 1
  /\ \E v \in Version : v \in {file, file - 1} /\ holder' = [at |-> "start", ver |-> v]
  /\ server' = [server EXCEPT !.listening = FALSE]
  /\ UNCHANGED <<source, watch, notifying, report, main, browsers>>

\* The lock is taken; Shutdown closes the listener of the old server before anything else is done.
\* Requests that are still served, the live reload connections among them, hold it up for two seconds
\* and stay open.
LockAndShutdown ==
  /\ Running
  /\ blocked > 0
  /\ holder = Free
  /\ blocked' = blocked - 1
  /\ holder' = [at |-> "read", ver |-> 0]
  /\ server' = [server EXCEPT !.listening = FALSE]
  /\ UNCHANGED <<source, watch, notifying, report, main, browsers>>

ReadFile ==
  /\ Running
  /\ holder.at = "read"
  /\ holder' = [at |-> "start", ver |-> file]
  /\ UNCHANGED <<source, watch, blocked, server, notifying, report, main, browsers>>

\* Parsing or setting up the routes fails: m.server still is the server that was shut down.
StartFails ==
  /\ Running
  /\ holder.at = "start"
  /\ holder.ver \notin good
  /\ holder' = Free
  /\ report' = "previous"
  /\ UNCHANGED <<source, watch, blocked, server, notifying, main, browsers>>

\* The new server listens, m.server is set and the lock released.
StartSucceeds ==
  /\ Running
  /\ holder.at = "start"
  /\ holder.ver \in good
  /\ holder' = Free
  /\ server' = [ver |-> holder.ver, listening |-> TRUE]
  /\ notifying' = [notifying EXCEPT ![holder.ver] = @ + 1]
  /\ report' = "reloaded"
  /\ UNCHANGED <<source, watch, blocked, main, browsers>>

\* notifyLiveReload, under liveReloadMu: every registered connection is written to.  A connection older
\* than the server's WriteTimeout refuses the write, which ends its handler.
NotifyLiveReload ==
  /\ Running
  /\ \E v \in Version :
       /\ notifying[v] > 0
       /\ notifying' = [notifying EXCEPT ![v] = @ - 1]
       /\ navigating' = [b \in Browser |-> IF conn[b] = "open" THEN v ELSE navigating[b]]
  /\ conn' = [b \in Browser |-> "none"]
  /\ UNCHANGED <<source, watch, blocked, holder, server, report, main, page>>

----------------------------------------------------------------------------
(* waitForShutdown *)

\* The watcher is closed, if it was there already: the loop ends and with it its events.
Interrupt ==
  /\ main = "waits"
  /\ main' = "closing"
  /\ events' = 0
  /\ UNCHANGED <<source, watching, timer, reload, browsers>>

\* The last server is shut down under m.mu and the process ends.
ShutdownServer ==
  /\ main = "closing"
  /\ holder = Free
  /\ main' = "ended"
  /\ server' = [server EXCEPT !.listening = FALSE]
  /\ UNCHANGED <<source, watch, blocked, holder, notifying, report, browsers>>

----------------------------------------------------------------------------
(* Browsers *)

OpenPage(b) ==
  /\ Running
  /\ page[b] = NoPage
  /\ server.listening
  /\ page' = [page EXCEPT ![b] = server.ver]
  /\ UNCHANGED <<source, watch, reload, main, conn, navigating>>

\* handleLiveReload registers the connection of the page's EventSource, which also tries again when it
\* has lost one.
Connect(b) ==
  /\ Running
  /\ page[b] # NoPage
  /\ navigating[b] = NoPage
  /\ conn[b] = "none"
  /\ server.listening
  /\ conn' = [conn EXCEPT ![b] = "open"]
  /\ UNCHANGED <<source, watch, reload, main, page, navigating>>

\* WriteTimeout is over: the connection stays open and registered, and no write succeeds any more.
WriteTimeout(b) ==
  /\ Running
  /\ conn[b] = "open"
  /\ conn' = [conn EXCEPT ![b] = "mute"]
  /\ UNCHANGED <<source, watch, reload, main, page, navigating>>

\* window.location.reload(); with no server listening the browser shows an error instead.
Navigate(b) ==
  /\ Running
  /\ navigating[b] # NoPage
  /\ navigating' = [navigating EXCEPT ![b] = NoPage]
  /\ page' = [page EXCEPT ![b] = IF server.listening THEN server.ver ELSE NoPage]
  /\ UNCHANGED <<source, watch, reload, main, conn>>

CloseTab(b) ==
  /\ Running
  /\ page[b] # NoPage
  /\ page' = [page EXCEPT ![b] = NoPage]
  /\ conn' = [conn EXCEPT ![b] = "none"]
  /\ navigating' = [navigating EXCEPT ![b] = NoPage]
  /\ UNCHANGED <<source, watch, reload, main>>

----------------------------------------------------------------------------
Ended == main = "ended" /\ UNCHANGED vars

Next ==
  \/ Save
  \/ StartWatching
  \/ WatchEvent
  \/ TimerFires
  \/ LockAndShutdown
  \/ ReadFile
  \/ StartFails
  \/ StartSucceeds
  \/ NotifyLiveReload
  \/ Interrupt
  \/ ShutdownServer
  \/ \E b \in Browser : OpenPage(b) \/ Connect(b) \/ WriteTimeout(b) \/ Navigate(b) \/ CloseTab(b)
  \/ Ended

Spec == Init /\ [][Next]_vars

\* Goroutines that are not blocked run, timers fire, and a page that was told to load again does so.
\* Nobody has to save, to interrupt or to open a page.
Fairness ==
  /\ WF_vars(StartWatching)
  /\ WF_vars(WatchEvent)
  /\ WF_vars(TimerFires)
  /\ WF_vars(LockAndShutdown)
  /\ WF_vars(ReadFile)
  /\ WF_vars(StartFails)
  /\ WF_vars(StartSucceeds)
  /\ WF_vars(NotifyLiveReload)
  /\ \A b \in Browser : WF_vars(Navigate(b))

FairSpec == Spec /\ Fairness

----------------------------------------------------------------------------
(* Properties *)

TypeOK ==
  /\ file \in Version /\ good \subseteq Version /\ missed \in BOOLEAN
  /\ watching \in BOOLEAN /\ events \in Nat /\ timer \in BOOLEAN
  /\ blocked \in Nat
  /\ holder \in [at : {"free", "read", "start"}, ver : Version]
  /\ server \in [ver : Version, listening : BOOLEAN]
  /\ notifying \in [Version -> Nat]
  /\ report \in {"none", "reloaded", "previous"}
  /\ main \in {"waits", "closing", "ended"}
  /\ page \in [Browser -> Version \cup {NoPage}]
  /\ conn \in [Browser -> {"none", "open", "mute"}]
  /\ navigating \in [Browser -> Version \cup {NoPage}]

\* Timers that fired one after the other may get the lock in any order, and the file changes while they
\* wait: no restart goes back to an older version of the file, because startServer reads it under m.mu.
NoRollback == [][server'.ver >= server.ver]_vars

\* A page that was told to load again shows, if any, a version no older than the one announced: reload
\* notifies only after the server was replaced, and later reloads only go forward.
RefreshNotStale ==
  [][\A b \in Browser :
       navigating[b] # NoPage /\ navigating'[b] = NoPage /\ page'[b] # NoPage => page'[b] >= navigating[b]]_vars

\* The last version of the file is served in the end, if it is one that can be and the watcher saw the
\* save: whatever events, timers and reloads were under way when it was written.
LatestServed ==
  \A v \in Version :
     <>[](main = "waits" /\ file = v /\ v \in good /\ ~missed) => <>[](server = [ver |-> v, listening |-> TRUE])

\* "Server still running with previous version", says reload when a restart failed (server.go:318).
PreviousStillServes == report = "previous" /\ holder = Free /\ blocked = 0 /\ main = "waits" => server.listening

\* "Browsers connected via the live reload endpoint will automatically refresh" (docs/CLI.md:467): with a
\* reload done, every connected browser gets to show the new version, unless its tab is closed.
ConnectedRefresh ==
  \A b \in Browser, v \in Version :
     (notifying[v] > 0 /\ conn[b] # "none") ~> (page[b] = NoPage \/ page[b] >= v \/ main = "ended")
=============================================================================
