---------------------------- MODULE LoggerProofs ----------------------------
(***************************************************************************)
(* Proofs about Logger, for any clients, buffer and number of entries.     *)
(***************************************************************************)
EXTENDS Logger, FiniteSetTheorems, TLAPS

-----------------------------------------------------------------------------
(* The inductive invariant.                                                 *)

Distinct(s) == \A j, k \in DOMAIN s : s[j] = s[k] => j = k

\* Every number in use was given out, so the next entry's is new.
GivenOut ==
  /\ \A c \in Clients : mine[c] <= n
  /\ taken <= n
  /\ \A e \in Written \cup Queued : e <= n

\* An entry is in one place: with one client, in the buffer, with the processor or in the file.
OnePlace ==
  /\ Distinct(out) /\ Distinct(buffer)
  /\ Written \cap Queued = {}
  /\ taken \notin Written \cup Queued
  /\ \A c \in Clients : mine[c] \notin Written \cup Queued
  /\ \A c \in Clients : mine[c] = taken => taken = 0
  /\ \A c, d \in Clients : mine[c] = mine[d] => c = d \/ mine[c] = 0

\* A client that logs has an entry.
Logging == \A c \in Clients : cpc[c] \in {"emit", "direct"} => mine[c] # 0

\* One client closes the logger, and it closes the file only when the processor has drained the buffer.
ClosedOnce ==
  /\ bclosed => stopped
  /\ ppc = "exit" => bclosed /\ buffer = << >> /\ taken = 0
  /\ ~fopen => ppc = "exit"
  /\ \A c \in Clients : cpc[c] \in {"closeBuffer", "closeWait"} => stopped /\ fopen
  /\ \A c, d \in Clients :
       cpc[c] \in {"closeBuffer", "closeWait"} /\ cpc[d] \in {"closeBuffer", "closeWait"} => c = d

Pending == {syncCh[j] : j \in DOMAIN syncCh}

\* A done channel is in one place, and its client waits for it.
OneWait ==
  /\ \A c \in Pending \cup waiter \cup synced : cpc[c] = "syncWait"
  /\ Pending \cap waiter = {} /\ Pending \cap synced = {} /\ waiter \cap synced = {}

OnTheWay == Written \cup Queued \cup {taken}

\* While the file is open no entry is lost; what a Sync is for is written or on the way.
Kept ==
  /\ fopen => returned \subseteq OnTheWay
  /\ \A c \in Clients : cpc[c] \in {"syncSend", "syncWait"} => before[c] \subseteq OnTheWay
  /\ \A c \in synced : before[c] \subseteq Written
  /\ FlushCompletes

IInv == TypeOK /\ GivenOut /\ OnePlace /\ Logging /\ ClosedOnce /\ OneWait /\ Kept

-----------------------------------------------------------------------------
\* The elements of a sequence.
Elements(s) == {s[j] : j \in DOMAIN s}

LEMMA AppendElements ==
  ASSUME NEW S, NEW s \in Seq(S), NEW e \in S
  PROVE  /\ Append(s, e) \in Seq(S)
         /\ Len(Append(s, e)) = Len(s) + 1
         /\ Elements(Append(s, e)) = Elements(s) \cup {e}
         /\ Distinct(s) /\ e \notin Elements(s) => Distinct(Append(s, e))
<1> DEFINE t == Append(s, e)
<1>1. /\ t \in Seq(S) /\ Len(t) = Len(s) + 1 /\ Len(s) \in Nat
      /\ DOMAIN s = 1..Len(s) /\ DOMAIN t = 1..(Len(s) + 1)
      /\ t[Len(s) + 1] = e /\ \A j \in 1..Len(s) : t[j] = s[j]
  OBVIOUS
<1> HIDE DEF t
<1>2. Elements(t) = Elements(s) \cup {e}
  <2>1. ASSUME NEW j \in DOMAIN t PROVE t[j] \in Elements(s) \cup {e}
    <3>1. CASE j = Len(s) + 1
      BY <1>1, <3>1
    <3>2. CASE j \in 1..Len(s)
      BY <1>1, <3>2 DEF Elements
    <3> QED BY <1>1, <3>1, <3>2
  <2>2. e \in Elements(t)
    BY <1>1 DEF Elements
  <2>3. ASSUME NEW j \in DOMAIN s PROVE s[j] \in Elements(t)
    <3>1. j \in DOMAIN t /\ t[j] = s[j]
      BY <1>1
    <3> QED BY <3>1 DEF Elements
  <2> QED BY <2>1, <2>2, <2>3 DEF Elements
<1>3. ASSUME Distinct(s), e \notin Elements(s) PROVE Distinct(t)
  <2> SUFFICES ASSUME NEW j \in DOMAIN t, NEW k \in DOMAIN t, t[j] = t[k] PROVE j = k
    BY DEF Distinct
  <2>1. \A l \in 1..Len(s) : t[l] # e
    BY <1>1, <1>3 DEF Elements
  <2>2. CASE j \in 1..Len(s) /\ k \in 1..Len(s)
    BY <1>1, <1>3, <2>2 DEF Distinct
  <2>3. CASE j = Len(s) + 1 \/ k = Len(s) + 1
    BY <1>1, <2>1, <2>3
  <2> QED BY <1>1, <2>2, <2>3
<1> QED BY <1>1, <1>2, <1>3 DEF t

LEMMA TakeElements ==
  ASSUME NEW S, NEW s \in Seq(S), s # << >>
  PROVE  /\ Head(s) \in S /\ Tail(s) \in Seq(S) /\ Len(Tail(s)) = Len(s) - 1
         /\ Elements(s) = Elements(Tail(s)) \cup {Head(s)}
         /\ Distinct(s) => Distinct(Tail(s)) /\ Head(s) \notin Elements(Tail(s))
<1> DEFINE t == Tail(s)
<1>1. /\ t \in Seq(S) /\ Len(s) \in Nat /\ Len(s) >= 1 /\ Len(t) = Len(s) - 1
      /\ DOMAIN s = 1..Len(s) /\ DOMAIN t = 1..(Len(s) - 1)
      /\ Head(s) = s[1] /\ s[1] \in S /\ \A j \in 1..(Len(s) - 1) : t[j] = s[j + 1]
  OBVIOUS
<1> HIDE DEF t
<1>2. Elements(s) = Elements(t) \cup {Head(s)}
  <2>1. ASSUME NEW j \in DOMAIN s PROVE s[j] \in Elements(t) \cup {Head(s)}
    <3>1. CASE j = 1
      BY <1>1, <3>1
    <3>2. CASE j # 1
      <4>1. j - 1 \in DOMAIN t /\ t[j - 1] = s[j]
        BY <1>1, <3>2
      <4> QED BY <4>1 DEF Elements
    <3> QED BY <3>1, <3>2
  <2>2. Head(s) \in Elements(s)
    BY <1>1 DEF Elements
  <2>3. ASSUME NEW j \in DOMAIN t PROVE t[j] \in Elements(s)
    <3>1. j + 1 \in DOMAIN s /\ t[j] = s[j + 1]
      BY <1>1
    <3> QED BY <3>1 DEF Elements
  <2> QED BY <2>1, <2>2, <2>3 DEF Elements
<1>3. ASSUME Distinct(s) PROVE Distinct(t) /\ Head(s) \notin Elements(t)
  <2>1. \A j \in DOMAIN t : j + 1 \in DOMAIN s /\ t[j] = s[j + 1] /\ j + 1 # 1
    BY <1>1
  <2>2. ASSUME NEW j \in DOMAIN t, NEW k \in DOMAIN t, t[j] = t[k] PROVE j = k
    <3>1. j + 1 = k + 1
      BY <1>3, <2>1, <2>2 DEF Distinct
    <3> QED BY <1>1, <3>1
  <2>3. 1 \in DOMAIN s
    BY <1>1
  <2>4. \A j \in DOMAIN t : t[j] # s[1]
    BY <1>3, <2>1, <2>3 DEF Distinct
  <2> QED BY <1>1, <2>2, <2>4 DEF Distinct, Elements
<1> QED BY <1>1, <1>2, <1>3 DEF t

\* A sequence without repetitions is as long as it has elements.
LEMMA DistinctCount ==
  ASSUME NEW S, NEW s \in Seq(S), Distinct(s)
  PROVE  Len(s) = Cardinality(Elements(s))
<1>1. Len(s) \in Nat /\ DOMAIN s = 1..Len(s) /\ s \in [1..Len(s) -> Elements(s)]
  BY DEF Elements
<1>2. s \in Bijection(1..Len(s), Elements(s))
  BY <1>1 DEF Bijection, Injection, Surjection, IsInjective, Distinct, Elements
<1>3. ExistsBijection(1..Len(s), Elements(s))
  BY <1>2 DEF ExistsBijection
<1> QED BY <1>1, <1>3, FS_CountingElements

-----------------------------------------------------------------------------
(* What the actions share.                                                  *)

LEMMA EntryNumbers == Entries \subseteq Nat /\ 0 \notin Entries /\ MaxEntries \in Nat
  BY EntriesAssumption DEF Entries

LEMMA InitIInv == Init => IInv
<1> SUFFICES ASSUME Init PROVE IInv
  OBVIOUS
<1> USE DEF Init
<1>1. /\ buffer = << >> /\ buffer \in Seq(Entries) /\ Len(buffer) = 0 /\ DOMAIN buffer = {}
      /\ out \in Seq(Entries) /\ DOMAIN out = {}
      /\ syncCh \in Seq(Clients) /\ Len(syncCh) = 0 /\ DOMAIN syncCh = {}
  OBVIOUS
<1>2. TypeOK
  <2>1. /\ cpc \in [Clients -> {"idle", "emit", "direct", "syncSend", "syncWait", "synced",
                                "closeCheck", "closeBuffer", "closeWait", "closed", "dead"}]
        /\ mine \in [Clients -> 0..MaxEntries]
        /\ before \in [Clients -> SUBSET Entries]
    BY EntriesAssumption
  <2>2. n \in 0..MaxEntries /\ taken \in 0..MaxEntries /\ Len(buffer) <= BufferSize /\ Len(syncCh) <= 1
    BY <1>1, EntriesAssumption, BufferAssumption
  <2> QED BY <1>1, <2>1, <2>2 DEF TypeOK
<1>3. Written = {} /\ Queued = {} /\ Pending = {}
  BY <1>1 DEF Written, Queued, Pending
<1>4. GivenOut /\ OnePlace /\ Logging /\ ClosedOnce
  BY <1>1, <1>3 DEF GivenOut, OnePlace, Distinct, Logging, ClosedOnce
<1>5. OneWait /\ Kept
  BY <1>3 DEF OneWait, Kept, FlushCompletes
<1> QED BY <1>2, <1>4, <1>5 DEF IInv

\* What one write does to the file.
LEMMA WriteStep ==
  ASSUME TypeOK, NEW e \in Entries, Write(e)
  PROVE  /\ out' \in Seq(Entries)
         /\ fopen => Written' = Written \cup {e}
         /\ ~fopen => Written' = Written
         /\ Distinct(out) /\ e \notin Written => Distinct(out')
<1>1. out \in Seq(Entries)
  BY DEF TypeOK
<1>2. Written = Elements(out) /\ Written' = Elements(out')
  BY DEF Written, Elements
<1>3. CASE fopen
  BY <1>1, <1>2, <1>3, AppendElements DEF Write
<1>4. CASE ~fopen
  BY <1>1, <1>2, <1>4 DEF Write
<1> QED BY <1>3, <1>4 DEF TypeOK

LEMMA SameQueues ==
  ASSUME UNCHANGED <<out, buffer>>
  PROVE  Written' = Written /\ Queued' = Queued
  BY DEF Written, Queued

LEMMA ElementTypes ==
  ASSUME TypeOK
  PROVE  /\ Written \subseteq Entries /\ Queued \subseteq Entries /\ Pending \subseteq Clients
         /\ 0 \notin Written /\ 0 \notin Queued
         /\ n \in Nat /\ taken \in Nat /\ \A c \in Clients : mine[c] \in Nat
  BY EntryNumbers DEF TypeOK, Written, Queued, Pending

\* A log call that returns leaves no entry with its client.
LEMMA ReturnStep ==
  ASSUME TypeOK, NEW c \in Clients, LogReturn(c), mine[c] \in Entries
  PROVE  /\ cpc' \in [Clients -> {"idle", "emit", "direct", "syncSend", "syncWait", "synced",
                                  "closeCheck", "closeBuffer", "closeWait", "closed", "dead"}]
         /\ cpc'[c] \in {"idle", "closeCheck"}
         /\ \A d \in Clients \ {c} : cpc'[d] = cpc[d]
         /\ mine' \in [Clients -> 0..MaxEntries]
         /\ mine'[c] = 0
         /\ \A d \in Clients \ {c} : mine'[d] = mine[d]
         /\ returned' = returned \cup {mine[c]} /\ returned' \subseteq Entries
  BY EntriesAssumption DEF TypeOK, LogReturn, Go

-----------------------------------------------------------------------------
(* The steps of a client that logs.                                         *)

LEMMA LogCheckStep ==
  ASSUME IInv, NEW c \in Clients, NEW f \in BOOLEAN, LogCheck(c, f)
  PROVE  IInv'
<1> USE EntryNumbers DEF IInv, LogCheck, Idle, Go, vars, client, chans, proc, output
<1>1. Written' = Written /\ Queued' = Queued /\ Pending' = Pending
  BY SameQueues DEF Pending
<1>2. TypeOK'
  BY EntriesAssumption DEF TypeOK
<1>3. GivenOut'
  <2>1. \A d \in Clients : mine'[d] = n + 1 \/ mine'[d] = mine[d]
    BY DEF TypeOK
  <2>2. n' = n + 1 /\ taken' = taken /\ n \in Nat /\ \A k \in Nat : k <= n => k <= n + 1
    BY ElementTypes
  <2>3. \A d \in Clients : mine'[d] <= n'
    BY <2>1, <2>2, ElementTypes DEF GivenOut
  <2>4. taken' <= n' /\ \A e \in Written' \cup Queued' : e <= n'
    BY <1>1, <2>2, ElementTypes DEF GivenOut
  <2> QED BY <2>3, <2>4 DEF GivenOut
<1>4. n + 1 \notin Written \cup Queued \cup {taken} /\ \A d \in Clients : mine[d] # n + 1
  BY DEF TypeOK, GivenOut
<1>5. OnePlace'
  BY <1>1, <1>4 DEF TypeOK, OnePlace, Distinct
<1>6. Logging' /\ ClosedOnce' /\ OneWait' /\ Kept'
  BY <1>1 DEF TypeOK, Logging, ClosedOnce, OneWait, Kept, OnTheWay, FlushCompletes
<1> QED BY <1>2, <1>3, <1>5, <1>6

LEMMA LogEmitStep ==
  ASSUME IInv, NEW c \in Clients, LogEmit(c)
  PROVE  IInv'
<1> USE EntryNumbers DEF IInv, LogEmit, At, Go, vars, client, chans, proc, output
<1>1. CASE bclosed /\ crashed' = TRUE /\ UNCHANGED <<cpc, mine, returned, buffer>>
  <2>1. Written' = Written /\ Queued' = Queued /\ Pending' = Pending
    BY <1>1, SameQueues DEF Pending
  <2>2. TypeOK'
    BY <1>1 DEF TypeOK
  <2> QED BY <1>1, <2>1, <2>2 DEF GivenOut, OnePlace, Logging, ClosedOnce, OneWait, Kept, OnTheWay, FlushCompletes
<1>2. CASE ~bclosed /\ Len(buffer) < BufferSize /\ buffer' = Append(buffer, mine[c]) /\ LogReturn(c) /\ UNCHANGED crashed
  <2>1. mine[c] \in Entries
    BY EntriesAssumption DEF TypeOK, Logging, Entries
  <2>2. /\ Written' = Written /\ Pending' = Pending /\ Queued' = Queued \cup {mine[c]} /\ Distinct(buffer')
        /\ buffer' \in Seq(Entries) /\ Len(buffer') <= BufferSize
    <3>1. Written' = Written /\ Pending' = Pending
      BY <1>2 DEF Written, Pending
    <3>2. Queued = Elements(buffer) /\ Queued' = Elements(buffer')
      BY DEF Queued, Elements
    <3>3. buffer \in Seq(Entries) /\ Len(buffer) \in Nat /\ Distinct(buffer) /\ mine[c] \notin Queued
      BY DEF TypeOK, OnePlace
    <3>4. buffer' = Append(buffer, mine[c]) /\ Len(buffer) < BufferSize /\ BufferSize \in Nat
      BY <1>2, BufferAssumption
    <3> QED BY <2>1, <3>1, <3>2, <3>3, <3>4, AppendElements
  <2>3. TypeOK'
    BY <1>2, <2>1, <2>2, ReturnStep DEF TypeOK
  <2>4. GivenOut'
    BY <1>2, <2>1, <2>2 DEF GivenOut, LogReturn, TypeOK
  <2>5. OnePlace'
    <3>1. mine'[c] = 0 /\ (\A d \in Clients \ {c} : mine'[d] = mine[d]) /\ taken' = taken /\ out' = out
      BY <1>2, <2>1, ReturnStep
    <3>2. mine[c] # 0 /\ 0 \notin Written \cup Queued
      BY <2>1, ElementTypes
    <3>3. OnePlace
      OBVIOUS
    <3>4. mine[c] # taken /\ \A d \in Clients \ {c} : mine[d] # mine[c]
      BY <3>2, <3>3 DEF OnePlace
    <3>5. Distinct(out') /\ Distinct(buffer') /\ Written' \cap Queued' = {} /\ taken' \notin Written' \cup Queued'
      BY <2>2, <3>1, <3>3, <3>4 DEF OnePlace
    <3>6. \A d \in Clients : mine'[d] \notin Written' \cup Queued'
      BY <2>2, <3>1, <3>2, <3>3, <3>4 DEF OnePlace
    <3>7. \A d \in Clients : mine'[d] = taken' => taken' = 0
      BY <3>1, <3>3 DEF OnePlace
    <3>8. \A d, e \in Clients : mine'[d] = mine'[e] => d = e \/ mine'[d] = 0
      BY <3>1, <3>3 DEF OnePlace
    <3> QED BY <3>5, <3>6, <3>7, <3>8 DEF OnePlace
  <2>6. Logging' /\ ClosedOnce' /\ OneWait' 
    BY <1>2, <2>2 DEF TypeOK, Logging, ClosedOnce, OneWait, LogReturn
  <2>7. Kept'
    BY <1>2, <2>2 DEF TypeOK, Kept, OnTheWay, FlushCompletes, LogReturn, OneWait
  <2> QED BY <2>3, <2>4, <2>5, <2>6, <2>7
<1>3. CASE ~bclosed /\ Len(buffer) = BufferSize /\ Go(c, "direct") /\ UNCHANGED <<mine, returned, buffer, crashed>>
  <2>1. Written' = Written /\ Queued' = Queued /\ Pending' = Pending
    BY <1>3, SameQueues DEF Pending
  <2>2. TypeOK'
    BY <1>3 DEF TypeOK
  <2>3. GivenOut' /\ OnePlace'
    BY <1>3, <2>1 DEF GivenOut, OnePlace
  <2>4. Logging' /\ ClosedOnce' /\ OneWait' /\ Kept'
    BY <1>3, <2>1 DEF TypeOK, Logging, ClosedOnce, OneWait, Kept, OnTheWay, FlushCompletes
  <2> QED BY <2>2, <2>3, <2>4
<1> QED BY <1>1, <1>2, <1>3

LEMMA LogDirectStep ==
  ASSUME IInv, NEW c \in Clients, LogDirect(c)
  PROVE  IInv'
<1> USE EntryNumbers DEF IInv, LogDirect, LogReturn, At, Go, vars, client, chans, proc, output
<1>1. mine[c] \in Entries
  BY EntriesAssumption DEF TypeOK, Logging, Entries
<1>2. /\ out' \in Seq(Entries) /\ Distinct(out')
      /\ fopen => Written' = Written \cup {mine[c]}
      /\ ~fopen => Written' = Written
  BY <1>1, WriteStep DEF OnePlace
<1>3. Queued' = Queued /\ Pending' = Pending
  BY DEF Queued, Pending
<1>4. TypeOK'
  BY <1>1, <1>2, ReturnStep DEF TypeOK
<1>5. GivenOut'
  BY <1>1, <1>2, <1>3 DEF GivenOut, TypeOK
<1>6. OnePlace'
  <2>1. buffer' = buffer /\ taken' = taken
    OBVIOUS
  <2>2. mine[c] \notin Written \cup Queued \cup {taken, 0}
    BY <1>1 DEF OnePlace
  <2>3. \A d \in Clients : mine'[d] = 0 \/ (d # c /\ mine'[d] = mine[d])
    BY <1>1, ReturnStep
  <2>4. \A d \in Clients : mine'[d] \notin Written' \cup Queued'
    BY <1>2, <1>3, <2>2, <2>3, ElementTypes DEF OnePlace
  <2>5. Written' \cap Queued' = {} /\ taken' \notin Written' \cup Queued'
    BY <1>2, <1>3, <2>1, <2>2 DEF OnePlace
  <2>6. \A d, e \in Clients : mine'[d] = mine'[e] => d = e \/ mine'[d] = 0
    BY <2>3 DEF OnePlace
  <2>7. \A d \in Clients : mine'[d] = taken' => taken' = 0
    BY <2>1, <2>3 DEF OnePlace
  <2> QED BY <1>2, <2>1, <2>4, <2>5, <2>6, <2>7 DEF OnePlace
<1>7. Logging' /\ ClosedOnce' /\ OneWait' 
  BY <1>3 DEF TypeOK, Logging, ClosedOnce, OneWait
<1>8. Kept'
  BY <1>2, <1>3 DEF TypeOK, Kept, OnTheWay, FlushCompletes, OneWait
<1> QED BY <1>4, <1>5, <1>6, <1>7, <1>8

-----------------------------------------------------------------------------
(* The steps of Sync and Close.                                             *)

LEMMA SyncCheckStep ==
  ASSUME IInv, NEW c \in Clients, SyncCheck(c)
  PROVE  IInv'
<1> USE DEF IInv, SyncCheck, Idle, Go, vars, client, chans, proc, output
<1>1. Written' = Written /\ Queued' = Queued /\ Pending' = Pending
  BY SameQueues DEF Pending
<1>2. TypeOK'
  BY DEF TypeOK
<1>3. GivenOut' /\ OnePlace'
  BY <1>1 DEF GivenOut, OnePlace
<1>4. Logging' /\ ClosedOnce' /\ OneWait'
  BY <1>1 DEF TypeOK, Logging, ClosedOnce, OneWait
<1>5. returned \subseteq OnTheWay
  BY DEF ClosedOnce, Kept
<1>6. Kept'
  BY <1>1, <1>5 DEF TypeOK, OneWait, Kept, OnTheWay, FlushCompletes
<1> QED BY <1>2, <1>3, <1>4, <1>6

LEMMA SyncSendStep ==
  ASSUME IInv, NEW c \in Clients, SyncSend(c)
  PROVE  IInv'
<1> USE DEF IInv, SyncSend, At, Go, vars, client, chans, proc, output
<1>1. Written' = Written /\ Queued' = Queued
  BY SameQueues
<1>2. Pending' = Pending \cup {c} /\ syncCh' \in Seq(Clients) /\ Len(syncCh') <= 1
  <2>1. Pending = Elements(syncCh) /\ Pending' = Elements(syncCh')
    BY DEF Pending, Elements
  <2>2. syncCh \in Seq(Clients) /\ Len(syncCh) \in Nat /\ Len(syncCh) < 1 /\ syncCh' = Append(syncCh, c)
    BY DEF TypeOK
  <2> QED BY <2>1, <2>2, AppendElements
<1>3. TypeOK'
  BY <1>2 DEF TypeOK
<1>4. GivenOut' /\ OnePlace'
  BY <1>1 DEF GivenOut, OnePlace
<1>5. Logging' /\ ClosedOnce'
  BY DEF TypeOK, Logging, ClosedOnce
<1>6. OneWait'
  BY <1>2, ElementTypes DEF TypeOK, OneWait
<1>7. Kept'
  BY <1>1 DEF TypeOK, OneWait, Kept, OnTheWay, FlushCompletes
<1> QED BY <1>3, <1>4, <1>5, <1>6, <1>7

LEMMA SyncReturnStep ==
  ASSUME IInv, NEW c \in Clients, SyncReturn(c)
  PROVE  IInv'
<1> USE DEF IInv, SyncReturn, At, Go, vars, client, chans, proc, output
<1>1. Written' = Written /\ Queued' = Queued /\ Pending' = Pending
  BY SameQueues DEF Pending
<1>2. TypeOK'
  BY DEF TypeOK
<1>3. GivenOut' /\ OnePlace'
  BY <1>1 DEF GivenOut, OnePlace
<1>4. Logging' /\ ClosedOnce'
  BY DEF TypeOK, Logging, ClosedOnce
<1>5. OneWait'
  BY <1>1, ElementTypes DEF TypeOK, OneWait
<1>6. Kept'
  BY <1>1 DEF TypeOK, OneWait, Kept, OnTheWay, FlushCompletes
<1> QED BY <1>2, <1>3, <1>4, <1>5, <1>6

\* The steps that move a client on its way to Close and change none of the channels.
LEMMA ClosingStep ==
  ASSUME IInv, NEW c \in Clients, CloseBegin(c) \/ CloseCheck(c) \/ CloseBuffer(c) \/ Continue(c)
  PROVE  IInv'
<1> USE DEF IInv, CloseBegin, CloseCheck, CloseBuffer, Continue, Idle, At, Go, vars, client, chans, proc, output
<1>1. Written' = Written /\ Queued' = Queued /\ Pending' = Pending
  BY SameQueues DEF Pending
<1>2. TypeOK'
  BY DEF TypeOK
<1>3. GivenOut' /\ OnePlace'
  BY <1>1 DEF GivenOut, OnePlace
<1>4. Logging'
  BY DEF TypeOK, Logging
<1>5. ClosedOnce'
  <2>1. CASE CloseBegin(c)
    BY <2>1 DEF TypeOK, ClosedOnce
  <2>2. CASE CloseCheck(c)
    <3>1. CASE stopped
      BY <2>2, <3>1 DEF TypeOK, ClosedOnce
    <3>2. CASE ~stopped
      <4>1. fopen /\ \A d \in Clients : cpc[d] \notin {"closeBuffer", "closeWait"}
        BY <3>2 DEF ClosedOnce
      <4> QED BY <2>2, <3>2, <4>1 DEF TypeOK, ClosedOnce
    <3> QED BY <3>1, <3>2
  <2>3. CASE CloseBuffer(c)
    BY <2>3 DEF TypeOK, ClosedOnce
  <2>4. CASE Continue(c)
    BY <2>4 DEF TypeOK, ClosedOnce
  <2> QED BY <2>1, <2>2, <2>3, <2>4
<1>6. OneWait'
  BY <1>1, ElementTypes DEF TypeOK, OneWait
<1>7. Kept'
  <2>1. /\ UNCHANGED <<fopen, returned, taken, synced>> /\ cpc[c] # "syncWait"
        /\ cpc'[c] \notin {"syncSend", "syncWait", "synced", "closed"}
        /\ \A d \in Clients : d # c => cpc'[d] = cpc[d] /\ before'[d] = before[d]
    BY DEF TypeOK
  <2>2. c \notin synced
    BY <2>1 DEF OneWait
  <2> QED BY <1>1, <2>1, <2>2 DEF TypeOK, Kept, OnTheWay, FlushCompletes
<1> QED BY <1>2, <1>3, <1>4, <1>5, <1>6, <1>7

LEMMA CloseReturnStep ==
  ASSUME IInv, NEW c \in Clients, CloseReturn(c)
  PROVE  IInv'
<1> USE DEF IInv, CloseReturn, At, Go, vars, client, chans, proc, output
<1>1. Written' = Written /\ Queued' = Queued /\ Pending' = Pending
  BY SameQueues DEF Pending
<1>2. TypeOK'
  BY DEF TypeOK
<1>3. GivenOut' /\ OnePlace'
  BY <1>1 DEF GivenOut, OnePlace
<1>4. Logging' /\ ClosedOnce'
  BY DEF TypeOK, Logging, ClosedOnce
<1>5. OneWait'
  BY <1>1, ElementTypes DEF TypeOK, OneWait
<1>6. returned \subseteq Written
  <2>1. fopen /\ buffer = << >> /\ taken = 0
    BY DEF ClosedOnce
  <2>2. Queued = {} /\ returned \subseteq Entries
    BY <2>1 DEF Queued, TypeOK
  <2> QED BY <2>1, <2>2, EntryNumbers DEF Kept, OnTheWay
<1>7. Kept'
  BY <1>1, <1>6 DEF TypeOK, OneWait, Kept, OnTheWay, FlushCompletes
<1> QED BY <1>2, <1>3, <1>4, <1>5, <1>7

-----------------------------------------------------------------------------
(* The steps of the processor.                                              *)

LEMMA ProcTakeStep ==
  ASSUME IInv, ProcTake
  PROVE  IInv'
<1> USE DEF IInv, ProcTake, vars, client, chans, proc, output
<1>1. Written' = Written /\ Pending' = Pending
  BY DEF Written, Pending
<1>2. /\ taken' \in Entries /\ buffer' \in Seq(Entries) /\ Len(buffer') <= BufferSize
      /\ Queued = Queued' \cup {taken'} /\ Distinct(buffer') /\ taken' \notin Queued'
  <2>1. Queued = Elements(buffer) /\ Queued' = Elements(buffer')
    BY DEF Queued, Elements
  <2>2. buffer \in Seq(Entries) /\ buffer # << >> /\ Len(buffer) <= BufferSize /\ Len(buffer) \in Nat /\ Distinct(buffer)
    BY DEF TypeOK, OnePlace
  <2>3. /\ Head(buffer) \in Entries /\ Tail(buffer) \in Seq(Entries) /\ Len(Tail(buffer)) = Len(buffer) - 1
        /\ Elements(buffer) = Elements(Tail(buffer)) \cup {Head(buffer)}
        /\ Distinct(Tail(buffer)) /\ Head(buffer) \notin Elements(Tail(buffer))
    BY <2>2, TakeElements
  <2> QED BY <2>1, <2>2, <2>3, BufferAssumption
<1>3. taken' \in 0..MaxEntries /\ taken' # 0
  BY <1>2, EntryNumbers DEF Entries
<1>4. TypeOK'
  BY <1>2, <1>3 DEF TypeOK
<1>5. GivenOut'
  BY <1>1, <1>2 DEF GivenOut
<1>6. OnePlace'
  <2>1. taken' \notin Written /\ \A c \in Clients : mine[c] # taken'
    BY <1>2 DEF OnePlace
  <2> QED BY <1>1, <1>2, <2>1 DEF OnePlace
<1>7. Logging' /\ OneWait' /\ ClosedOnce'
  BY <1>1 DEF Logging, OneWait, ClosedOnce
<1>8. Kept'
  <2>1. \A e \in OnTheWay : e # 0 => e \in OnTheWay'
    BY <1>1, <1>2 DEF OnTheWay
  <2>2. returned \subseteq Entries /\ \A c \in Clients : before[c] \subseteq Entries
    BY DEF TypeOK
  <2> QED BY <1>1, <2>1, <2>2, EntryNumbers DEF Kept, FlushCompletes
<1> QED BY <1>4, <1>5, <1>6, <1>7, <1>8

LEMMA ProcWriteStep ==
  ASSUME IInv, ProcWrite
  PROVE  IInv'
<1> USE DEF IInv, ProcWrite, vars, client, chans, proc, output
<1>1. taken \in Entries
  BY EntriesAssumption DEF TypeOK, Entries
<1>2. fopen
  BY DEF ClosedOnce
<1>3. out' \in Seq(Entries) /\ Written' = Written \cup {taken} /\ Distinct(out')
  BY <1>1, <1>2, WriteStep DEF OnePlace
<1>4. Queued' = Queued /\ Pending' = Pending
  BY DEF Queued, Pending
<1>5. TypeOK'
  BY <1>3, EntriesAssumption DEF TypeOK
<1>6. GivenOut'
  BY <1>3, <1>4, ElementTypes DEF GivenOut
<1>7. OnePlace'
  <2>1. taken \notin Queued /\ 0 \notin Written' \cup Queued' /\ \A c \in Clients : mine[c] # taken
    BY <1>1, <1>3, <1>4, EntryNumbers, ElementTypes DEF OnePlace
  <2> QED BY <1>3, <1>4, <2>1 DEF OnePlace
<1>8. Logging' /\ OneWait' /\ ClosedOnce'
  BY <1>4 DEF Logging, OneWait, ClosedOnce
<1>9. Kept'
  BY <1>3, <1>4 DEF Kept, OnTheWay, FlushCompletes
<1> QED BY <1>5, <1>6, <1>7, <1>8, <1>9

\* With nothing queued or in its hands, the processor may answer a Sync.
LEMMA DrainedWritten ==
  ASSUME IInv, buffer = << >>, taken = 0, NEW c \in Clients, cpc[c] = "syncWait"
  PROVE  before[c] \subseteq Written
<1>1. Queued = {} /\ before[c] \subseteq Entries
  BY DEF IInv, TypeOK, Queued
<1> QED BY <1>1, EntryNumbers DEF IInv, Kept, OnTheWay

LEMMA ProcExitStep ==
  ASSUME IInv, ProcExit
  PROVE  IInv'
<1> USE DEF IInv, ProcExit, vars, client, chans, proc, output
<1>1. Written' = Written /\ Queued' = Queued
  BY SameQueues
<1>2. Pending' = {} /\ synced' = synced \cup Pending /\ syncCh' \in Seq(Clients) /\ Len(syncCh') <= 1
  BY DEF Pending
<1>3. TypeOK'
  BY <1>2, ElementTypes DEF TypeOK
<1>4. GivenOut' /\ OnePlace' /\ Logging' /\ ClosedOnce'
  BY <1>1 DEF GivenOut, OnePlace, Logging, ClosedOnce
<1>5. OneWait'
  BY <1>2 DEF OneWait
<1>6. \A c \in Pending : before[c] \subseteq Written
  BY DrainedWritten, ElementTypes DEF OneWait
<1>7. Kept'
  BY <1>1, <1>2, <1>6 DEF Kept, OnTheWay, FlushCompletes
<1> QED BY <1>3, <1>4, <1>5, <1>7

LEMMA ProcSyncStep ==
  ASSUME IInv, ProcSync
  PROVE  IInv'
<1> USE DEF IInv, ProcSync, vars, client, chans, proc, output
<1>1. Written' = Written /\ Queued' = Queued
  BY SameQueues
<1>2. /\ Head(syncCh) \in Clients /\ syncCh' \in Seq(Clients) /\ Len(syncCh') <= 1
      /\ Pending = {Head(syncCh)} /\ Pending' = {}
  <2>1. syncCh \in Seq(Clients) /\ syncCh # << >> /\ Len(syncCh) <= 1 /\ syncCh' = Tail(syncCh)
    BY DEF TypeOK
  <2>2. Len(syncCh) \in Nat /\ Len(syncCh) # 0
    BY <2>1
  <2>3. Len(syncCh) = 1
    <3>1. \A l \in Nat : l # 0 /\ l <= 1 => l = 1
      OBVIOUS
    <3> HIDE DEF ProcSync
    <3> QED BY <2>1, <2>2, <3>1
  <2>4. /\ Head(syncCh) \in Clients /\ syncCh' \in Seq(Clients) /\ Len(syncCh') = 0
        /\ Elements(syncCh) = Elements(syncCh') \cup {Head(syncCh)}
    BY <2>1, <2>3, TakeElements
  <2>5. DOMAIN syncCh' = {}
    BY <2>4
  <2>6. Pending = Elements(syncCh) /\ Pending' = {} /\ Elements(syncCh') = {}
    BY <2>5 DEF Pending, Elements
  <2> QED BY <2>4, <2>6
<1>3. TypeOK'
  BY <1>2 DEF TypeOK
<1>4. GivenOut' /\ OnePlace' /\ Logging' /\ ClosedOnce'
  BY <1>1 DEF GivenOut, OnePlace, Logging, ClosedOnce
<1>5. OneWait'
  BY <1>2 DEF OneWait
<1>6. Kept'
  BY <1>1 DEF Kept, OnTheWay, FlushCompletes
<1> QED BY <1>3, <1>4, <1>5, <1>6

LEMMA ProcDrainedStep ==
  ASSUME IInv, ProcDrained \/ ProcDrainClosed
  PROVE  IInv'
<1> USE DEF IInv, ProcDrained, ProcDrainClosed, vars, client, chans, proc, output
<1>1. Written' = Written /\ Queued' = Queued /\ Pending' = Pending
  BY SameQueues DEF Pending
<1>2. (synced' = synced /\ waiter' = waiter) \/ (synced' = synced \cup waiter /\ waiter' = {})
  <2>1. CASE ProcDrained
    BY <2>1
  <2>2. CASE ProcDrainClosed
    BY <2>2
  <2> QED BY <2>1, <2>2
<1>3. TypeOK'
  BY <1>2 DEF TypeOK
<1>4. GivenOut' /\ OnePlace' /\ Logging' /\ ClosedOnce'
  BY <1>1 DEF GivenOut, OnePlace, Logging, ClosedOnce
<1>5. OneWait'
  BY <1>1, <1>2 DEF OneWait
<1>6. \A c \in waiter : before[c] \subseteq Written
  BY DrainedWritten DEF OneWait, TypeOK
<1>7. Kept'
  BY <1>1, <1>2, <1>6 DEF Kept, OnTheWay, FlushCompletes
<1> QED BY <1>3, <1>4, <1>5, <1>7

-----------------------------------------------------------------------------
(* The theorems.                                                            *)

LEMMA StepIInv == IInv /\ [Next]_vars => IInv'
<1> SUFFICES ASSUME IInv, [Next]_vars PROVE IInv'
  OBVIOUS
<1>1. ASSUME NEW c \in Clients, NEW f \in BOOLEAN, LogCheck(c, f) PROVE IInv'
  BY <1>1, LogCheckStep
<1>2. ASSUME NEW c \in Clients, SyncCheck(c) \/ CloseBegin(c) PROVE IInv'
  BY <1>2, SyncCheckStep, ClosingStep
<1>3. ASSUME NEW c \in Clients, ClientStep(c) PROVE IInv'
  BY <1>3, LogEmitStep, LogDirectStep, SyncSendStep, SyncReturnStep, ClosingStep, CloseReturnStep DEF ClientStep
<1>4. CASE Processor
  BY <1>4, ProcTakeStep, ProcWriteStep, ProcExitStep, ProcSyncStep, ProcDrainedStep DEF Processor
<1>5. CASE UNCHANGED vars
  <2>1. UNCHANGED <<cpc, mine, fatal, before, buffer, bclosed, syncCh, ppc, taken, waiter, synced, out, fopen,
                    stopped, returned, n, crashed>>
    BY <1>5 DEF vars, client, chans, proc, output
  <2>2. Written' = Written /\ Queued' = Queued /\ Pending' = Pending
    BY <2>1, SameQueues DEF Pending
  <2> QED BY <2>1, <2>2 DEF IInv, TypeOK, GivenOut, OnePlace, Logging, ClosedOnce, OneWait, Kept, OnTheWay, FlushCompletes
<1> QED BY <1>1, <1>2, <1>3, <1>4, <1>5 DEF Next

\* The invariant holds in every state.
LEMMA Inductive == Spec => []IInv
  BY InitIInv, StepIInv, PTL DEF Spec

\* Every variable of the logger keeps its type, and no channel exceeds its capacity.
THEOREM LoggerTypeCorrect == Spec => []TypeOK
<1>1. IInv => TypeOK
  BY DEF IInv
<1> QED BY <1>1, Inductive, PTL

\* Sync and Close return only when what was logged before is in the file, for any number of goroutines.
THEOREM FlushCorrect == Spec => []FlushCompletes
<1>1. IInv => FlushCompletes
  BY DEF IInv, Kept
<1> QED BY <1>1, Inductive, PTL

\* No entry is written twice or written and queued, whoever writes it, for any number of goroutines.
THEOREM OnceCorrect == Spec => []WrittenOnce
<1>1. IInv => WrittenOnce
  <2> SUFFICES ASSUME IInv PROVE WrittenOnce
    OBVIOUS
  <2>1. out \in Seq(Entries) /\ buffer \in Seq(Entries) /\ Distinct(out) /\ Distinct(buffer)
    BY DEF IInv, TypeOK, OnePlace
  <2>2. Written = Elements(out) /\ Queued = Elements(buffer)
    BY DEF Written, Queued, Elements
  <2>3. Len(out) = Cardinality(Written) /\ Len(buffer) = Cardinality(Queued)
    BY <2>1, <2>2, DistinctCount
  <2> QED BY <2>3 DEF IInv, OnePlace, WrittenOnce
<1> QED BY <1>1, Inductive, PTL
=============================================================================
