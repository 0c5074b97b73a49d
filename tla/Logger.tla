------------------------------- MODULE Logger -------------------------------
(***************************************************************************)
(* The asynchronous logger (pkg/logging/logger.go): goroutines that call   *)
(* log, Sync and Close, and the goroutine of processLogs, which drains the *)
(* buffered channel.                                                       *)
(*                                                                         *)
(* The flag `stopped` is read under Logger.mu, which is released before    *)
(* the channels are used.  Sending on the closed buffer panics, in a       *)
(* select as well; receiving from it yields nil entries without end.       *)
(* A panic that nothing recovers ends the process.                         *)
(*                                                                         *)
(* An entry is a number; entries below MinLevel are not modelled, and what *)
(* an entry looks like when it is formatted is left out.                   *)
(***************************************************************************)
EXTENDS Naturals, Sequences, FiniteSets

CONSTANTS
    Clients,     \* goroutines that use the logger
    BufferSize,  \* LoggerConfig.BufferSize
    Format,      \* "text" or "json"
    MaxEntries   \* bound: entries logged by all clients together

ASSUME BufferAssumption == BufferSize \in Nat \ {0}
ASSUME FormatAssumption == Format \in {"text", "json"}
ASSUME EntriesAssumption == MaxEntries \in Nat

VARIABLES
    cpc,       \* what each client is doing
    mine,      \* the entry each client is logging, 0 when none
    fatal,     \* clients whose entry is FATAL
    before,    \* entries whose log call returned before the client's Sync or Close
    stopped,   \* Logger.stopped
    buffer,    \* Logger.buffer
    bclosed,   \* the buffer is closed
    syncCh,    \* clients whose done channel is in Logger.syncCh, capacity 1
    ppc,       \* the goroutine of processLogs
    taken,     \* the entry it is writing, 0 when none
    waiter,    \* the client whose Sync it serves, {} when none
    synced,    \* clients whose done channel is closed
    out,       \* what the log file received, in order
    fopen,     \* the log file is open
    returned,  \* entries whose log call returned
    n,         \* entries created
    crashed    \* a panic ended the process

client == <<cpc, mine, fatal, before>>
chans  == <<buffer, bclosed, syncCh>>
proc   == <<ppc, taken, waiter, synced>>
output == <<out, fopen>>
vars   == <<client, chans, proc, output, stopped, returned, n, crashed>>

Idle(c) == ~crashed /\ cpc[c] = "idle"
At(c, pc) == ~crashed /\ cpc[c] = pc
Go(c, pc) == cpc' = [cpc EXCEPT ![c] = pc]

-----------------------------------------------------------------------------
(* log                                                                     *)

\* The flag is checked and the lock released.
LogCheck(c, isFatal) ==
    /\ Idle(c) /\ ~stopped /\ n < MaxEntries
    /\ Go(c, "emit")
    /\ n' = n + 1
    /\ mine' = [mine EXCEPT ![c] = n + 1]
    /\ fatal' = IF isFatal THEN fatal \cup {c} ELSE fatal \ {c}
    /\ UNCHANGED <<before, chans, proc, output, stopped, returned, crashed>>

\* log returns, or goes on to Close when the entry is FATAL.
LogReturn(c) ==
    /\ returned' = returned \cup {mine[c]}
    /\ mine' = [mine EXCEPT ![c] = 0]
    /\ Go(c, IF c \in fatal THEN "closeCheck" ELSE "idle")

\* Mutant: the entry is written although it was buffered.
LogEmitTwice(c) ==
    /\ At(c, "emit")
    /\ \/ /\ bclosed
          /\ crashed' = TRUE
          /\ UNCHANGED <<cpc, buffer>>
       \/ /\ ~bclosed
          /\ buffer' = IF Len(buffer) < BufferSize THEN Append(buffer, mine[c]) ELSE buffer
          /\ Go(c, "direct")
          /\ UNCHANGED crashed
    /\ UNCHANGED <<mine, returned, fatal, before, bclosed, syncCh, proc, output, stopped, n>>

\* select { case l.buffer <- entry: default: l.writeLog(entry) }
LogEmit(c) ==
    /\ At(c, "emit")
    /\ \/ /\ bclosed
          /\ crashed' = TRUE
          /\ UNCHANGED <<cpc, mine, returned, buffer>>
       \/ /\ ~bclosed /\ Len(buffer) < BufferSize
          /\ buffer' = Append(buffer, mine[c])
          /\ LogReturn(c)
          /\ UNCHANGED crashed
       \/ /\ ~bclosed /\ Len(buffer) = BufferSize
          /\ Go(c, "direct")
          /\ UNCHANGED <<mine, returned, buffer, crashed>>
    /\ UNCHANGED <<fatal, before, bclosed, syncCh, proc, output, stopped, n>>

\* A write to the closed file fails, which is only reported on stderr.
Write(e) == out' = IF fopen THEN Append(out, e) ELSE out

\* The client writes its entry itself, past the buffered ones.
LogDirect(c) ==
    /\ At(c, "direct")
    /\ Write(mine[c])
    /\ LogReturn(c)
    /\ UNCHANGED <<fatal, before, chans, proc, fopen, stopped, n, crashed>>

-----------------------------------------------------------------------------
(* Sync                                                                    *)

SyncCheck(c) ==
    /\ Idle(c) /\ ~stopped
    /\ Go(c, "syncSend")
    /\ before' = [before EXCEPT ![c] = returned]
    /\ UNCHANGED <<mine, fatal, chans, proc, output, stopped, returned, n, crashed>>

SyncSend(c) ==
    /\ At(c, "syncSend") /\ Len(syncCh) < 1
    /\ syncCh' = Append(syncCh, c)
    /\ Go(c, "syncWait")
    /\ UNCHANGED <<mine, fatal, before, buffer, bclosed, proc, output, stopped, returned, n,
                   crashed>>

\* <-done; the client remembers that it was served until its next call.
SyncReturn(c) ==
    /\ At(c, "syncWait") /\ c \in synced
    /\ Go(c, "synced")
    /\ synced' = synced \ {c}
    /\ UNCHANGED <<mine, fatal, before, chans, ppc, taken, waiter, output, stopped, returned,
                   n, crashed>>

-----------------------------------------------------------------------------
(* Close                                                                   *)

CloseBegin(c) ==
    /\ Idle(c)
    /\ Go(c, "closeCheck")
    /\ fatal' = fatal \ {c}
    /\ UNCHANGED <<mine, before, chans, proc, output, stopped, returned, n, crashed>>

\* FATAL panics after Close; the goroutine ends.
CloseCheck(c) ==
    /\ At(c, "closeCheck")
    /\ Go(c, IF ~stopped THEN "closeBuffer" ELSE IF c \in fatal THEN "dead" ELSE "idle")
    /\ stopped' = TRUE
    /\ UNCHANGED <<mine, fatal, before, chans, proc, output, returned, n, crashed>>

CloseBuffer(c) ==
    /\ At(c, "closeBuffer")
    /\ bclosed' = TRUE
    /\ Go(c, "closeWait")
    /\ UNCHANGED <<mine, fatal, before, buffer, syncCh, proc, output, stopped, returned, n,
                   crashed>>

\* l.wg.Wait(), l.fileWriter.Close(); the client remembers that it closed.
CloseReturn(c) ==
    /\ At(c, "closeWait") /\ ppc = "exit"
    /\ fopen' = FALSE
    /\ before' = [before EXCEPT ![c] = returned]
    /\ Go(c, IF c \in fatal THEN "dead" ELSE "closed")
    /\ UNCHANGED <<mine, fatal, chans, proc, out, stopped, returned, n, crashed>>

\* The client is done with its Sync or Close.
Continue(c) ==
    /\ ~crashed /\ cpc[c] \in {"synced", "closed"}
    /\ Go(c, "idle")
    /\ before' = [before EXCEPT ![c] = {}]
    /\ UNCHANGED <<mine, fatal, chans, proc, output, stopped, returned, n, crashed>>

-----------------------------------------------------------------------------
(* processLogs                                                             *)

\* case entry, ok := <-l.buffer, and the same receive while draining.
ProcTake ==
    /\ ~crashed /\ ppc \in {"select", "drain"} /\ taken = 0 /\ buffer # <<>>
    /\ taken' = Head(buffer)
    /\ buffer' = Tail(buffer)
    /\ UNCHANGED <<client, bclosed, syncCh, ppc, waiter, synced, output, stopped, returned, n,
                   crashed>>

\* writeLog
ProcWrite ==
    /\ ~crashed /\ taken # 0
    /\ Write(taken)
    /\ taken' = 0
    /\ UNCHANGED <<client, chans, ppc, waiter, synced, fopen, stopped, returned, n, crashed>>

\* Mutant: the processor stops at Close without draining the buffer.
ProcExitAtOnce ==
    /\ ~crashed /\ ppc = "select" /\ taken = 0 /\ bclosed
    /\ ppc' = "exit"
    /\ synced' = synced \cup {syncCh[i] : i \in DOMAIN syncCh}
    /\ syncCh' = <<>>
    /\ UNCHANGED <<client, buffer, bclosed, taken, waiter, output, stopped, returned, n, crashed>>

\* !ok: answer one pending Sync and return.
ProcExit ==
    /\ ~crashed /\ ppc = "select" /\ taken = 0 /\ bclosed /\ buffer = <<>>
    /\ ppc' = "exit"
    /\ synced' = synced \cup {syncCh[i] : i \in DOMAIN syncCh}
    /\ syncCh' = <<>>
    /\ UNCHANGED <<client, buffer, bclosed, taken, waiter, output, stopped, returned, n, crashed>>

\* case done := <-l.syncCh
ProcSync ==
    /\ ~crashed /\ ppc = "select" /\ taken = 0 /\ syncCh # <<>>
    /\ ppc' = "drain"
    /\ waiter' = {Head(syncCh)}
    /\ syncCh' = Tail(syncCh)
    /\ UNCHANGED <<client, buffer, bclosed, taken, synced, output, stopped, returned, n, crashed>>

\* Mutant: done is closed without draining the buffer.
ProcDrainedEarly ==
    /\ ~crashed /\ ppc = "drain" /\ taken = 0
    /\ ppc' = "select"
    /\ synced' = synced \cup waiter
    /\ waiter' = {}
    /\ UNCHANGED <<client, chans, taken, output, stopped, returned, n, crashed>>

ProcDrained ==
    /\ ~crashed /\ ppc = "drain" /\ taken = 0 /\ buffer = <<>> /\ ~bclosed
    /\ ppc' = "select"
    /\ synced' = synced \cup waiter
    /\ waiter' = {}
    /\ UNCHANGED <<client, chans, taken, output, stopped, returned, n, crashed>>

\* The drain receives nil from the closed buffer: formatting it as text
\* dereferences nil, as JSON it writes null and receives the next nil.
ProcDrainClosed ==
    /\ ~crashed /\ ppc = "drain" /\ taken = 0 /\ buffer = <<>> /\ bclosed
    /\ IF Format = "text"
       THEN crashed' = TRUE /\ UNCHANGED ppc
       ELSE ppc' = "nulls" /\ UNCHANGED crashed
    /\ UNCHANGED <<client, chans, taken, waiter, synced, output, stopped, returned, n>>

Processor == ProcTake \/ ProcWrite \/ ProcExit \/ ProcSync \/ ProcDrained \/ ProcDrainClosed

-----------------------------------------------------------------------------
Init ==
    /\ cpc = [c \in Clients |-> "idle"] /\ mine = [c \in Clients |-> 0]
    /\ fatal = {} /\ before = [c \in Clients |-> {}]
    /\ stopped = FALSE /\ buffer = <<>> /\ bclosed = FALSE /\ syncCh = <<>>
    /\ ppc = "select" /\ taken = 0 /\ waiter = {} /\ synced = {}
    /\ out = <<>> /\ fopen = TRUE
    /\ returned = {} /\ n = 0 /\ crashed = FALSE

\* The client goes on with the call it is in.
ClientStep(c) ==
    \/ LogEmit(c) \/ LogDirect(c) \/ SyncSend(c) \/ SyncReturn(c)
    \/ CloseCheck(c) \/ CloseBuffer(c) \/ CloseReturn(c) \/ Continue(c)

Next ==
    \/ \E c \in Clients :
        \/ \E f \in BOOLEAN : LogCheck(c, f)
        \/ SyncCheck(c) \/ CloseBegin(c) \/ ClientStep(c)
    \/ Processor

Spec == Init /\ [][Next]_vars

(***************************************************************************)
(* Fairness: a goroutine that is not blocked goes on.  A client need not   *)
(* start a call.                                                           *)
(***************************************************************************)
FairSpec == Spec /\ WF_vars(Processor) /\ \A c \in Clients : WF_vars(ClientStep(c))

-----------------------------------------------------------------------------
(* Properties.                                                             *)

Entries == 1..MaxEntries
Written == {out[i] : i \in DOMAIN out}
Queued  == {buffer[i] : i \in DOMAIN buffer}

\* Every variable keeps its type; the channels keep to their capacity.
TypeOK ==
    /\ cpc \in [Clients -> {"idle", "emit", "direct", "syncSend", "syncWait", "synced",
                            "closeCheck", "closeBuffer", "closeWait", "closed", "dead"}]
    /\ mine \in [Clients -> 0..MaxEntries] /\ fatal \subseteq Clients
    /\ before \in [Clients -> SUBSET Entries]
    /\ buffer \in Seq(Entries) /\ Len(buffer) <= BufferSize
    /\ syncCh \in Seq(Clients) /\ Len(syncCh) <= 1
    /\ ppc \in {"select", "drain", "nulls", "exit"} /\ taken \in 0..MaxEntries
    /\ waiter \subseteq Clients /\ synced \subseteq Clients
    /\ out \in Seq(Entries) /\ returned \subseteq Entries /\ n \in 0..MaxEntries
    /\ stopped \in BOOLEAN /\ bclosed \in BOOLEAN /\ fopen \in BOOLEAN /\ crashed \in BOOLEAN

(***************************************************************************)
(* logger.go:435 "Sync flushes all pending log entries and waits for them  *)
(* to be written": when a Sync that found the logger running returns,      *)
(* every entry logged before it began is in the log file, by whomever,     *)
(* although Close may have started in between; and when the Close that     *)
(* stops the logger returns, no log call that had returned by then has     *)
(* lost its entry: the buffer was drained first.                           *)
(***************************************************************************)
FlushCompletes == \A c \in Clients : cpc[c] \in {"synced", "closed"} => before[c] \subseteq Written

(***************************************************************************)
(* No entry is written twice, whichever of the processor and the client    *)
(* wrote it, and none is both written and still queued.                    *)
(***************************************************************************)
WrittenOnce ==
    /\ Len(out) = Cardinality(Written) /\ Len(buffer) = Cardinality(Queued)
    /\ Written \cap Queued = {} /\ taken \notin Written \cup Queued
    /\ \A c \in Clients : mine[c] \notin Written \cup Queued

(***************************************************************************)
(* A buffered entry reaches the log file, unless a panic ends the process. *)
(***************************************************************************)
EntriesWritten == \A e \in Entries : (e \in Queued) ~> (e \in Written \/ crashed)

-----------------------------------------------------------------------------
(* What the documentation says, and the code does not do.                  *)

(***************************************************************************)
(* logger.go:451 "Close gracefully shuts down the logger": Close returns.  *)
(***************************************************************************)
CloseReturns == \A c \in Clients : cpc[c] = "closeWait" ~> (cpc[c] # "closeWait" \/ crashed)
=============================================================================
