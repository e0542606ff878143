----------------------------- MODULE WSHubProofs -----------------------------
(***************************************************************************)
(* What a client of the WebSocket hub sees, for any number of              *)
(* notifications, connections, changes and failures.                       *)
(***************************************************************************)
EXTENDS WSHub, TLAPS

(* Broadcast is under way.                                                 *)
Busy == listener \in {"lookup", "lock", "write"}

Queued(id, n) == \E i \in DOMAIN queue : queue[i] = [id |-> id, n |-> n]

(* What the listener has still to read of a notification is without a gap  *)
(* up to its last change, in order, and follows what it is broadcasting.   *)
QueueInv ==
    /\ \A i \in DOMAIN queue : queue[i].n <= changes[queue[i].id]
    /\ \A i, j \in DOMAIN queue :
          i < j /\ queue[i].id = queue[j].id => queue[i].n < queue[j].n
    /\ \A i \in DOMAIN queue : \A m \in Nat :
          queue[i].n <= m /\ m <= changes[queue[i].id] => Queued(queue[i].id, m)
    /\ Busy =>
          /\ update \in Change /\ update.n <= changes[update.id]
          /\ \A i \in DOMAIN queue : queue[i].id = update.id => update.n < queue[i].n
          /\ \A m \in Nat :
                update.n < m /\ m <= changes[update.id] => Queued(update.id, m)
    /\ Starting \/ listener = "ended" => queue = << >>
    /\ Starting => promised = {} /\ \A c \in Conns : got[c] = << >>

(* The map holds the connections that are served and not closed, and the   *)
(* listener's loop only those of its notification.                         *)
MapSound ==
    \A id \in Ids : \A c \in subscribers[id] :
        IdOf[c] = id /\ conn[c] \in {"open", "leaving"} /\ c \notin closed

MapComplete ==
    \A c \in Conns : conn[c] \in {"open", "leaving"} /\ c \notin closed =>
        c \in subscribers[IdOf[c]]

NewIsQuiet ==
    \A c \in Conns : conn[c] \in {"new", "upgraded"} => c \notin closed /\ got[c] = << >>

EntryKept == \A id \in Ids : subscribers[id] # {} => id \in present

LoopInv ==
    /\ listener = "write" => todo \subseteq subscribers[update.id]
    /\ listener # "write" => todo = {}

HubInv == MapSound /\ MapComplete /\ NewIsQuiet /\ EntryKept /\ LoopInv

(* Who subscribed after the set Broadcast looked up was dropped from the   *)
(* map came after the change that is being broadcast.                      *)
DropInv ==
    listener = "lock" /\ dropped =>
        \A c \in subscribers[update.id] : got[c] = << >> /\ update.n <= since[c]

(* c is about to be written the change that is being broadcast.            *)
Awaits(c) ==
    Busy /\ update.id = IdOf[c] /\ (listener \in {"lookup", "lock"} \/ c \in todo)

Coming(c, n) == Queued(IdOf[c], n) \/ (Awaits(c) /\ update.n = n)

Last(c) == got[c][Len(got[c])]

(* A connection that was written a change is to be written all later ones, *)
(* and no earlier one; one that was not, all that it was promised.         *)
Following(c) ==
    /\ Last(c) <= changes[IdOf[c]]
    /\ \A i \in DOMAIN queue : queue[i].id = IdOf[c] => Last(c) < queue[i].n
    /\ Awaits(c) => Last(c) < update.n
    /\ listener # "ended" =>
          \A m \in Nat : Last(c) < m /\ m <= changes[IdOf[c]] => Coming(c, m)

Expecting(c) ==
    listener # "ended" =>
        \A m \in Nat :
            since[c] < m /\ m <= changes[IdOf[c]] /\ [id |-> IdOf[c], n |-> m] \in promised
                => Coming(c, m)

View(c) ==
    /\ got[c] = << >> => Expecting(c)
    /\ got[c] # << >> => Following(c)

ViewInv == \A c \in Conns : c \in subscribers[IdOf[c]] => View(c)

IInv == TypeOK /\ QueueInv /\ HubInv /\ DropInv /\ ViewInv /\ InOrder /\ NoEntryLeaks

(***************************************************************************)
(* Types                                                                   *)
(***************************************************************************)
HubOK == present \in SUBSET Ids /\ subscribers \in [Ids -> SUBSET Conns]

ClientOK ==
    /\ conn \in [Conns -> {"new", "upgraded", "open", "leaving", "left", "done"}]
    /\ gone \in SUBSET Conns /\ closed \in SUBSET Conns
    /\ since \in [Conns -> Nat] /\ got \in [Conns -> Seq(Nat)]

ListenerOK ==
    /\ listener \in {"acquire", "listen", "wait", "lookup", "lock", "write", "ended"}
    /\ update \in Change \cup {NoUpdate} /\ todo \in SUBSET Conns /\ dropped \in BOOLEAN

DbOK ==
    /\ changes \in [Ids -> Nat] /\ queue \in Seq(Change)
    /\ promised \in SUBSET Change /\ faults \in 0..MaxFaults

LEMMA TypeParts == TypeOK <=> HubOK /\ ClientOK /\ ListenerOK /\ DbOK
BY DEF TypeOK, HubOK, ClientOK, ListenerOK, DbOK

LEMMA TypePartsNext == TypeOK' <=> HubOK' /\ ClientOK' /\ ListenerOK' /\ DbOK'
BY DEF TypeOK, HubOK, ClientOK, ListenerOK, DbOK

LEMMA TypeInit == Init => TypeOK
<1> SUFFICES ASSUME Init PROVE TypeOK
  OBVIOUS
<1>1. HubOK
  BY DEF Init, HubOK
<1>2. ClientOK
  <2>1. << >> \in Seq(Nat)
    OBVIOUS
  <2> QED
    BY <2>1 DEF Init, ClientOK
<1>3. ListenerOK
  BY DEF Init, ListenerOK
<1>4. DbOK
  <2>1. << >> \in Seq(Change) /\ 0 \in 0..MaxFaults
    BY BoundsAssumption
  <2> QED
    BY <2>1 DEF Init, DbOK
<1> QED
  BY <1>1, <1>2, <1>3, <1>4, TypeParts

LEMMA PartsUnchanged ==
    /\ HubOK /\ UNCHANGED hubVars => HubOK'
    /\ ClientOK /\ UNCHANGED clientVars => ClientOK'
    /\ ListenerOK /\ UNCHANGED listenerVars => ListenerOK'
    /\ DbOK /\ UNCHANGED dbVars => DbOK'
<1>1. HubOK /\ UNCHANGED hubVars => HubOK'
  BY DEF HubOK, hubVars
<1>2. ClientOK /\ UNCHANGED clientVars => ClientOK'
  BY DEF ClientOK, clientVars
<1>3. ListenerOK /\ UNCHANGED listenerVars => ListenerOK'
  BY DEF ListenerOK, listenerVars
<1>4. DbOK /\ UNCHANGED dbVars => DbOK'
  BY DEF DbOK, dbVars
<1> QED
  BY <1>1, <1>2, <1>3, <1>4

LEMMA QueueEnds ==
    ASSUME NEW S, NEW s \in Seq(S)
    PROVE  /\ DOMAIN s = 1 .. Len(s) /\ Len(s) \in Nat
           /\ \A x \in S : /\ Append(s, x) \in Seq(S) /\ Len(Append(s, x)) = Len(s) + 1
                           /\ DOMAIN Append(s, x) = 1 .. Len(s) + 1
                           /\ Append(s, x)[Len(s) + 1] = x
                           /\ \A i \in 1 .. Len(s) : Append(s, x)[i] = s[i]
           /\ s # << >> => /\ Tail(s) \in Seq(S) /\ Len(Tail(s)) = Len(s) - 1
                           /\ DOMAIN Tail(s) = 1 .. Len(s) - 1
                           /\ Head(s) = s[1] /\ s[1] \in S /\ 1 \in DOMAIN s
                           /\ \A i \in 1 .. Len(s) - 1 : Tail(s)[i] = s[i + 1]
OBVIOUS

LEMMA FaultType ==
    ASSUME faults \in 0..MaxFaults, Fault \/ UNCHANGED faults
    PROVE  faults' \in 0..MaxFaults
BY BoundsAssumption DEF Fault

(* The listener knows a notification's id while it is broadcasting.        *)
LEMMA TypeStep == TypeOK /\ QueueInv /\ [Next]_vars => TypeOK'
<1> SUFFICES ASSUME QueueInv, HubOK, ClientOK, ListenerOK, DbOK, [Next]_vars
             PROVE  HubOK' /\ ClientOK' /\ ListenerOK' /\ DbOK'
  BY TypeParts, TypePartsNext
<1> USE PartsUnchanged
<1>1. ASSUME NEW id \in Ids, NotifyStatusChange(id)
      PROVE  DbOK' /\ UNCHANGED <<hubVars, clientVars, listenerVars>>
  <2> DEFINE change == [id |-> id, n |-> changes[id] + 1]
  <2>1. changes[id] + 1 \in Nat /\ change \in Change
    BY DEF Change, DbOK
  <2>2. /\ changes' = [changes EXCEPT ![id] = changes[id] + 1] /\ faults' = faults
        /\ queue' = queue \/ queue' = Append(queue, change)
        /\ promised' = promised \/ promised' = promised \cup {change}
        /\ UNCHANGED <<hubVars, clientVars, listenerVars>>
    BY <1>1 DEF NotifyStatusChange
  <2> HIDE DEF change
  <2>3. queue' \in Seq(Change)
    <3>1. queue \in Seq(Change)
      BY DEF DbOK
    <3>2. Append(queue, change) \in Seq(Change)
      BY <2>1, <3>1
    <3> QED
      BY <2>2, <3>1, <3>2
  <2>4. promised' \in SUBSET Change
    BY <2>1, <2>2 DEF DbOK
  <2>5. changes' \in [Ids -> Nat]
    BY <2>1, <2>2 DEF DbOK
  <2> QED
    BY <2>2, <2>3, <2>4, <2>5 DEF DbOK
<1>2. CASE Listen \/ WaitFails
  <2>1. /\ UNCHANGED <<changes, promised, update, todo, dropped, hubVars, clientVars>>
        /\ listener' \in {"listen", "wait", "ended"}
        /\ queue' = queue \/ queue' = << >>
        /\ Fault \/ UNCHANGED faults
    BY <1>2 DEF Listen, WaitFails
  <2>2. faults' \in 0..MaxFaults /\ << >> \in Seq(Change)
    BY <2>1, FaultType DEF DbOK
  <2>3. DbOK'
    BY <2>1, <2>2 DEF DbOK
  <2>4. ListenerOK'
    BY <2>1 DEF ListenerOK
  <2> QED
    BY <2>1, <2>3, <2>4
<1>3. CASE WaitForNotification
  <2>1. /\ UNCHANGED <<changes, promised, faults, todo, dropped, hubVars, clientVars>>
        /\ queue # << >> /\ update' = Head(queue) /\ queue' = Tail(queue)
        /\ listener' = "lookup"
    BY <1>3 DEF WaitForNotification
  <2>2. Head(queue) \in Change /\ Tail(queue) \in Seq(Change)
    BY <2>1, QueueEnds DEF DbOK
  <2>3. DbOK'
    BY <2>1, <2>2 DEF DbOK
  <2>4. ListenerOK'
    BY <2>1, <2>2 DEF ListenerOK
  <2> QED
    BY <2>1, <2>3, <2>4
<1>4. CASE Lookup \/ Unlock
  <2>1. /\ UNCHANGED <<update, todo, hubVars, clientVars, dbVars>>
        /\ listener' \in {"lock", "wait"} /\ dropped' \in {dropped, FALSE}
    BY <1>4 DEF Lookup, Unlock
  <2>2. ListenerOK'
    BY <2>1 DEF ListenerOK
  <2> QED
    BY <2>1, <2>2
<1>5. CASE Lock
  <2>1. /\ UNCHANGED <<update, dropped, hubVars, clientVars, dbVars>>
        /\ listener' = "write"
        /\ todo' = {} \/ todo' = subscribers[update.id]
    BY <1>5 DEF Lock
  <2>2. update.id \in Ids
    BY <1>5 DEF Lock, Busy, QueueInv, Change
  <2>3. todo' \in SUBSET Conns
    BY <2>1, <2>2 DEF HubOK
  <2>4. ListenerOK'
    BY <2>1, <2>3 DEF ListenerOK
  <2> QED
    BY <2>1, <2>4
<1>6. ASSUME NEW c \in Conns, Write(c)
      PROVE  HubOK' /\ ClientOK' /\ ListenerOK' /\ UNCHANGED dbVars
  <2>1. /\ UNCHANGED <<listener, update, dropped, present, conn, gone, since, dbVars>>
        /\ todo' = todo \ {c}
    BY <1>6 DEF Write
  <2>2. ListenerOK'
    BY <2>1 DEF ListenerOK
  <2>3. CASE WriteSucceeds(c)
    <3>1. update.n \in Nat
      BY <1>6 DEF Write, Busy, QueueInv, Change
    <3>2. Append(got[c], update.n) \in Seq(Nat)
      BY <3>1, QueueEnds DEF ClientOK
    <3>3. ClientOK'
      BY <2>1, <2>3, <3>2 DEF WriteSucceeds, ClientOK
    <3>4. HubOK'
      BY <2>1, <2>3 DEF WriteSucceeds, HubOK
    <3> QED
      BY <2>1, <2>2, <3>3, <3>4
  <2>4. CASE WriteFails(c)
    <3>1. ClientOK'
      BY <2>1, <2>4 DEF WriteFails, ClientOK
    <3>2. subscribers' = [subscribers EXCEPT ![update.id] = subscribers[update.id] \ {c}]
      BY <2>4 DEF WriteFails
    <3>3. HubOK'
      BY <2>1, <3>2 DEF HubOK
    <3> QED
      BY <2>1, <2>2, <3>1, <3>3
  <2> QED
    BY <1>6, <2>3, <2>4 DEF Write
<1>7. ASSUME NEW c \in Conns,
             \/ Upgrade(c) \/ ReadMessageFails(c) \/ Close(c) \/ ClientLeaves(c)
      PROVE  ClientOK' /\ UNCHANGED <<hubVars, listenerVars, dbVars>>
  <2>1. CASE Upgrade(c) \/ ReadMessageFails(c)
    BY <2>1 DEF Upgrade, ReadMessageFails, ClientOK
  <2>2. CASE Close(c) \/ ClientLeaves(c)
    BY <2>2 DEF Close, ClientLeaves, ClientOK
  <2> QED
    BY <1>7, <2>1, <2>2
<1>8. ASSUME NEW c \in Conns, Subscribe(c)
      PROVE  HubOK' /\ ClientOK' /\ UNCHANGED <<listenerVars, dbVars>>
  <2>1. IdOf[c] \in Ids /\ changes[IdOf[c]] \in Nat
    BY IdOfAssumption DEF DbOK
  <2>2. ClientOK'
    BY <1>8, <2>1 DEF Subscribe, ClientOK
  <2>3. HubOK'
    BY <1>8, <2>1 DEF Subscribe, HubOK
  <2> QED
    BY <1>8, <2>2, <2>3 DEF Subscribe
<1>9. ASSUME NEW c \in Conns, Unsubscribe(c)
      PROVE  HubOK' /\ ClientOK' /\ ListenerOK' /\ UNCHANGED dbVars
  <2> DEFINE rest == subscribers[IdOf[c]] \ {c}
  <2>1. /\ UNCHANGED <<gone, closed, since, got, listener, update, todo, dbVars>>
        /\ conn' = [conn EXCEPT ![c] = "left"]
        /\ subscribers' = [subscribers EXCEPT ![IdOf[c]] = rest]
        /\ present' = present \/ present' = present \ {IdOf[c]}
        /\ dropped' \in BOOLEAN
    BY <1>9 DEF Unsubscribe
  <2>2. ClientOK'
    BY <2>1 DEF ClientOK
  <2>3. rest \in SUBSET Conns
    BY IdOfAssumption DEF HubOK
  <2> HIDE DEF rest
  <2>4. HubOK'
    BY <2>1, <2>3 DEF HubOK
  <2>5. ListenerOK'
    BY <2>1 DEF ListenerOK
  <2> QED
    BY <2>1, <2>2, <2>4, <2>5
<1>10. CASE UNCHANGED vars
  BY <1>10 DEF vars
<1> QED
  BY <1>1, <1>2, <1>3, <1>4, <1>5, <1>6, <1>7, <1>8, <1>9, <1>10
     DEF Next, ListenerStep, HandlerStep

(***************************************************************************)
(* The queue                                                               *)
(***************************************************************************)
LEMMA QueueFacts ==
    ASSUME TypeOK
    PROVE  /\ queue \in Seq(Change) /\ changes \in [Ids -> Nat]
           /\ DOMAIN queue = 1 .. Len(queue) /\ Len(queue) \in Nat
           /\ \A i \in DOMAIN queue : /\ queue[i] \in Change
                                      /\ queue[i].id \in Ids /\ queue[i].n \in Nat
                                      /\ queue[i] = [id |-> queue[i].id, n |-> queue[i].n]
<1>1. queue \in Seq(Change) /\ changes \in [Ids -> Nat]
  BY DEF TypeOK
<1>2. DOMAIN queue = 1 .. Len(queue) /\ Len(queue) \in Nat
      /\ \A i \in DOMAIN queue : queue[i] \in Change
  BY <1>1
<1>3. \A e \in Change : e.id \in Ids /\ e.n \in Nat /\ e = [id |-> e.id, n |-> e.n]
  BY DEF Change
<1> QED
  BY <1>1, <1>2, <1>3

(* A new change is appended behind all that are queued.                    *)
LEMMA Appended ==
    ASSUME TypeOK, NEW id \in Ids, NotifyStatusChange(id), listener # "ended", ~Starting
    PROVE  /\ DOMAIN queue' = 1 .. Len(queue) + 1
           /\ queue'[Len(queue) + 1] = [id |-> id, n |-> changes[id] + 1]
           /\ \A i \in 1 .. Len(queue) : queue'[i] = queue[i]
           /\ \A o, n : Queued(o, n)' <=> Queued(o, n) \/ (o = id /\ n = changes[id] + 1)
<1> DEFINE change == [id |-> id, n |-> changes[id] + 1]
<1>1. queue' = Append(queue, change) /\ change \in Change
  BY QueueFacts DEF NotifyStatusChange, Change
<1>2. change = [id |-> id, n |-> changes[id] + 1]
  OBVIOUS
<1> HIDE DEF change
<1>3. /\ DOMAIN queue' = 1 .. Len(queue) + 1
      /\ queue'[Len(queue) + 1] = change
      /\ \A i \in 1 .. Len(queue) : queue'[i] = queue[i]
  BY QueueFacts, <1>1, QueueEnds
<1>4. ASSUME NEW o, NEW n
      PROVE  Queued(o, n)' <=> Queued(o, n) \/ (o = id /\ n = changes[id] + 1)
  <2>1. Queued(o, n)' <=> \E i \in 1 .. Len(queue) + 1 : queue'[i] = [id |-> o, n |-> n]
    BY <1>3 DEF Queued
  <2>2. Queued(o, n) <=> \E i \in 1 .. Len(queue) : queue[i] = [id |-> o, n |-> n]
    BY QueueFacts DEF Queued
  <2>3. change = [id |-> o, n |-> n] <=> o = id /\ n = changes[id] + 1
    BY <1>2
  <2>4. \A i \in 1 .. Len(queue) + 1 : i \in 1 .. Len(queue) \/ i = Len(queue) + 1
    BY QueueFacts
  <2>5. 1 .. Len(queue) \subseteq 1 .. Len(queue) + 1 /\ Len(queue) + 1 \in 1 .. Len(queue) + 1
    BY QueueFacts
  <2> HIDE DEF Queued
  <2> QED
    BY <1>3, <2>1, <2>2, <2>3, <2>4, <2>5
<1> QED
  BY <1>2, <1>3, <1>4

(* The first entry of the queue becomes what the listener broadcasts.      *)
LEMMA Taken ==
    ASSUME TypeOK, WaitForNotification
    PROVE  /\ Len(queue) \in Nat /\ 1 \in DOMAIN queue /\ update' = queue[1]
           /\ DOMAIN queue' = 1 .. Len(queue) - 1
           /\ \A i \in 1 .. Len(queue) - 1 : queue'[i] = queue[i + 1]
           /\ \A o, n : Queued(o, n) <=> Queued(o, n)' \/ update' = [id |-> o, n |-> n]
<1>1. /\ Len(queue) \in Nat /\ 1 \in DOMAIN queue /\ update' = queue[1]
      /\ DOMAIN queue' = 1 .. Len(queue) - 1 /\ DOMAIN queue = 1 .. Len(queue)
      /\ \A i \in 1 .. Len(queue) - 1 : queue'[i] = queue[i + 1]
  BY QueueFacts, QueueEnds DEF WaitForNotification
<1>2. ASSUME NEW o, NEW n
      PROVE  Queued(o, n) <=> Queued(o, n)' \/ update' = [id |-> o, n |-> n]
  <2>1. Queued(o, n)' <=> \E i \in 1 .. Len(queue) - 1 : queue'[i] = [id |-> o, n |-> n]
    BY <1>1 DEF Queued
  <2>2. Queued(o, n) <=> \E i \in 1 .. Len(queue) : queue[i] = [id |-> o, n |-> n]
    BY <1>1 DEF Queued
  <2>3. \A i \in 1 .. Len(queue) : i = 1 \/ (i - 1 \in 1 .. Len(queue) - 1 /\ i = (i - 1) + 1)
    BY <1>1
  <2>4. \A i \in 1 .. Len(queue) - 1 : i + 1 \in 1 .. Len(queue)
    BY <1>1
  <2>5. Queued(o, n) => Queued(o, n)' \/ update' = [id |-> o, n |-> n]
    <3> SUFFICES ASSUME NEW i \in 1 .. Len(queue), queue[i] = [id |-> o, n |-> n], i # 1
                 PROVE  \E j \in 1 .. Len(queue) - 1 : queue'[j] = [id |-> o, n |-> n]
      BY <1>1, <2>1, <2>2
    <3>1. i - 1 \in 1 .. Len(queue) - 1 /\ i = (i - 1) + 1
      BY <2>3
    <3>2. queue'[i - 1] = queue[i]
      BY <1>1, <3>1
    <3> QED
      BY <3>1, <3>2
  <2>6. Queued(o, n)' => Queued(o, n)
    <3> SUFFICES ASSUME NEW i \in 1 .. Len(queue) - 1, queue'[i] = [id |-> o, n |-> n]
                 PROVE  \E j \in 1 .. Len(queue) : queue[j] = [id |-> o, n |-> n]
      BY <2>1, <2>2
    <3> QED
      BY <1>1, <2>4
  <2>7. update' = [id |-> o, n |-> n] => Queued(o, n)
    BY <1>1, <2>2
  <2> QED
    BY <2>5, <2>6, <2>7
<1> QED
  BY <1>1, <1>2

LEMMA QueueStep == TypeOK /\ TypeOK' /\ QueueInv /\ [Next]_vars => QueueInv'
<1> SUFFICES ASSUME TypeOK, TypeOK', QueueInv, [Next]_vars PROVE QueueInv'
  OBVIOUS
<1> USE DEF hubVars, clientVars, listenerVars, dbVars
<1>1. ASSUME NEW id \in Ids, NotifyStatusChange(id)
      PROVE  QueueInv'
  <2>1. /\ changes' = [changes EXCEPT ![id] = changes[id] + 1]
        /\ UNCHANGED <<listener, update, got>>
        /\ Starting \/ listener = "ended" => queue' = queue
        /\ Starting => promised' = promised
    BY <1>1 DEF NotifyStatusChange
  <2>2. \A o \in Ids : changes[o] \in Nat
                       /\ changes'[o] = IF o = id THEN changes[id] + 1 ELSE changes[o]
    BY <2>1, QueueFacts
  <2>3. CASE listener # "ended" /\ ~Starting
    <3>1. /\ DOMAIN queue' = 1 .. Len(queue) + 1
          /\ queue'[Len(queue) + 1] = [id |-> id, n |-> changes[id] + 1]
          /\ \A i \in 1 .. Len(queue) : queue'[i] = queue[i]
          /\ \A o, n : Queued(o, n)' <=> Queued(o, n) \/ (o = id /\ n = changes[id] + 1)
      BY <1>1, <2>3, Appended
    <3>2. queue'[Len(queue) + 1].id = id /\ queue'[Len(queue) + 1].n = changes[id] + 1
      BY <3>1
    <3>3. /\ \A i \in 1 .. Len(queue) : i \in DOMAIN queue /\ queue'[i] = queue[i]
          /\ \A i \in DOMAIN queue' : i \in 1 .. Len(queue) \/ i = Len(queue) + 1
          /\ Len(queue) \in Nat
      BY <3>1, QueueFacts
    <3>4. \A i \in DOMAIN queue' : queue'[i].n <= changes'[queue'[i].id]
      BY <2>2, <3>2, <3>3, QueueFacts DEF QueueInv
    <3>5. ASSUME NEW i \in DOMAIN queue', NEW j \in DOMAIN queue',
                 i < j, queue'[i].id = queue'[j].id
          PROVE  queue'[i].n < queue'[j].n
      <4>1. i \in 1 .. Len(queue) /\ i \in DOMAIN queue /\ queue'[i] = queue[i]
        BY <3>3, <3>5
      <4>2. CASE j \in 1 .. Len(queue)
        BY <3>3, <3>5, <4>1, <4>2 DEF QueueInv
      <4>3. CASE j = Len(queue) + 1
        <5>1. queue[i].n <= changes[id] /\ queue[i].n \in Nat
          BY <3>2, <3>5, <4>1, <4>3, QueueFacts DEF QueueInv
        <5> QED
          BY <2>2, <3>2, <4>1, <4>3, <5>1
      <4> QED
        BY <3>3, <4>2, <4>3
    <3>6. ASSUME NEW i \in DOMAIN queue', NEW m \in Nat, NEW o, o = queue'[i].id,
                 queue'[i].n <= m, m <= changes'[o]
          PROVE  Queued(o, m)'
      <4>1. CASE i \in 1 .. Len(queue)
        <5>1. /\ i \in DOMAIN queue /\ queue'[i] = queue[i]
              /\ o = queue[i].id /\ o \in Ids /\ queue[i].n \in Nat
          BY <3>3, <3>6, <4>1, QueueFacts
        <5>2. m <= changes[o] \/ (o = id /\ m = changes[id] + 1)
          BY <2>2, <3>6, <5>1
        <5>3. m <= changes[o] => Queued(o, m)
          BY <3>6, <5>1 DEF QueueInv
        <5> QED
          BY <3>1, <5>2, <5>3
      <4>2. CASE i = Len(queue) + 1
        <5>1. o = id /\ m = changes[id] + 1
          BY <2>2, <3>2, <3>6, <4>2
        <5> QED
          BY <3>1, <5>1
      <4> QED
        BY <3>3, <4>1, <4>2
    <3>7. ASSUME Busy', NEW o, o = update.id
          PROVE  /\ update \in Change /\ update.n <= changes'[o]
                 /\ \A i \in DOMAIN queue' : queue'[i].id = o => update.n < queue'[i].n
                 /\ \A m \in Nat : update.n < m /\ m <= changes'[o] => Queued(o, m)'
      <4>1. /\ Busy /\ update \in Change
            /\ update.n <= changes[o] /\ o \in Ids /\ update.n \in Nat
        BY <2>1, <3>7 DEF Busy, QueueInv, Change
      <4>2. \A i \in DOMAIN queue' : queue'[i].id = o => update.n < queue'[i].n
        BY <2>2, <3>2, <3>3, <3>7, <4>1, QueueFacts DEF QueueInv
      <4>3. \A m \in Nat :
               update.n < m /\ m <= changes'[o] =>
                   Queued(o, m) \/ (o = id /\ m = changes[id] + 1)
        BY <2>2, <3>7, <4>1 DEF QueueInv
      <4>4. \A m \in Nat : update.n < m /\ m <= changes'[o] => Queued(o, m)'
        BY <3>1, <4>3
      <4>5. update.n <= changes'[o]
        BY <2>2, <4>1
      <4> QED
        BY <4>1, <4>2, <4>4, <4>5
    <3> QED
      BY <2>1, <2>3, <3>4, <3>5, <3>6, <3>7 DEF QueueInv, Starting
  <2>4. CASE listener = "ended" \/ Starting
    BY <2>1, <2>4, QueueFacts DEF QueueInv, Starting, Busy
  <2> QED
    BY <2>3, <2>4
<1>2. CASE Listen \/ WaitFails
  BY <1>2 DEF Listen, WaitFails, QueueInv, Starting, Busy, Queued
<1>3. CASE WaitForNotification
  <2>1. /\ listener = "wait" /\ listener' = "lookup" /\ changes' = changes
        /\ UNCHANGED <<promised, got>>
    BY <1>3 DEF WaitForNotification
  <2>2. /\ Len(queue) \in Nat /\ 1 \in DOMAIN queue /\ update' = queue[1]
        /\ DOMAIN queue' = 1 .. Len(queue) - 1
        /\ \A i \in 1 .. Len(queue) - 1 : queue'[i] = queue[i + 1]
        /\ \A o, n : Queued(o, n) <=> Queued(o, n)' \/ update' = [id |-> o, n |-> n]
    BY <1>3, Taken
  <2>3. /\ update' \in Change /\ update'.id \in Ids /\ update'.n \in Nat
        /\ \A n : update' = [id |-> update'.id, n |-> n] => n = update'.n
    BY <2>2, QueueFacts
  <2>4. /\ \A i \in DOMAIN queue' : i + 1 \in DOMAIN queue /\ queue'[i] = queue[i + 1]
                                     /\ 1 < i + 1
        /\ \A i, j \in DOMAIN queue' : i < j => i + 1 < j + 1
    BY <2>2, QueueFacts
  <2>5. \A i \in DOMAIN queue' : /\ queue'[i].n <= changes[queue'[i].id]
                                 /\ queue'[i].id \in Ids /\ queue'[i].n \in Nat
    BY <2>4, QueueFacts DEF QueueInv
  <2>6. /\ \A i, j \in DOMAIN queue' :
              i < j /\ queue'[i].id = queue'[j].id => queue'[i].n < queue'[j].n
        /\ \A i \in DOMAIN queue' : queue'[i].id = update'.id => update'.n < queue'[i].n
    BY <2>2, <2>4 DEF QueueInv
  <2>7. ASSUME NEW i \in DOMAIN queue', NEW m \in Nat, NEW o, o = queue'[i].id,
               queue'[i].n <= m, m <= changes[o]
        PROVE  Queued(o, m)'
    <3>1. Queued(o, m)
      BY <2>4, <2>7 DEF QueueInv
    <3>2. CASE update' = [id |-> o, n |-> m]
      <4>1. update'.id = o /\ update'.n = m
        BY <3>2
      <4>2. update'.n < queue'[i].n /\ queue'[i].n \in Nat
        BY <2>5, <2>6, <2>7, <4>1
      <4> QED
        BY <2>3, <2>7, <4>1, <4>2
    <3> QED
      BY <2>2, <3>1, <3>2
  <2>8. ASSUME NEW m \in Nat, NEW o, o = update'.id, update'.n < m, m <= changes[o]
        PROVE  Queued(o, m)'
    <3>1. Queued(o, m)
      BY <2>2, <2>3, <2>8 DEF QueueInv
    <3>2. CASE update' = [id |-> o, n |-> m]
      <4>1. update'.n = m
        BY <3>2
      <4> QED
        BY <2>3, <2>8, <4>1
    <3> QED
      BY <2>2, <3>1, <3>2
  <2>9. update'.n <= changes[update'.id]
    BY <2>2 DEF QueueInv
  <2> QED
    BY <2>1, <2>3, <2>5, <2>6, <2>7, <2>8, <2>9 DEF QueueInv, Starting
<1>4. CASE Lookup \/ Lock \/ Unlock
  BY <1>4 DEF Lookup, Lock, Unlock, QueueInv, Starting, Busy, Queued
<1>5. ASSUME NEW c \in Conns, Write(c)
      PROVE  QueueInv'
  BY <1>5 DEF Write, QueueInv, Starting, Busy, Queued
<1>6. ASSUME NEW c \in Conns, Upgrade(c) \/ HandlerStep(c) \/ ClientLeaves(c)
      PROVE  QueueInv'
  BY <1>6 DEF Upgrade, HandlerStep, Subscribe, ReadMessageFails, Unsubscribe, Close,
              ClientLeaves, QueueInv, Starting, Busy, Queued
<1>7. CASE UNCHANGED vars
  BY <1>7 DEF vars, QueueInv, Starting, Busy, Queued
<1> QED
  BY <1>1, <1>2, <1>3, <1>4, <1>5, <1>6, <1>7 DEF Next, ListenerStep

(***************************************************************************)
(* The map                                                                 *)
(***************************************************************************)
LEMMA HubTypes ==
    ASSUME TypeOK
    PROVE  /\ subscribers \in [Ids -> SUBSET Conns] /\ todo \in SUBSET Conns
           /\ conn \in [Conns -> {"new", "upgraded", "open", "leaving", "left", "done"}]
           /\ got \in [Conns -> Seq(Nat)] /\ since \in [Conns -> Nat]
           /\ changes \in [Ids -> Nat] /\ \A c \in Conns : IdOf[c] \in Ids
           /\ \A id \in Ids : \A c \in subscribers[id] : c \in Conns
BY IdOfAssumption DEF TypeOK

LEMMA HubStep == TypeOK /\ QueueInv /\ HubInv /\ [Next]_vars => HubInv'
<1> SUFFICES ASSUME TypeOK, QueueInv, HubInv, [Next]_vars PROVE HubInv'
  OBVIOUS
<1> USE HubTypes DEF HubInv, hubVars, clientVars, listenerVars, dbVars
<1>1. ASSUME NEW id \in Ids, NotifyStatusChange(id)
      PROVE  HubInv'
  BY <1>1 DEF NotifyStatusChange, MapSound, MapComplete, NewIsQuiet, EntryKept, LoopInv
<1>2. CASE Listen \/ WaitFails \/ WaitForNotification \/ Lookup \/ Unlock
  BY <1>2 DEF Listen, WaitFails, WaitForNotification, Lookup, Unlock, Starting,
              MapSound, MapComplete, NewIsQuiet, EntryKept, LoopInv
<1>3. CASE Lock
  BY <1>3 DEF Lock, MapSound, MapComplete, NewIsQuiet, EntryKept, LoopInv
<1>4. ASSUME NEW c \in Conns, Write(c)
      PROVE  HubInv'
  <2>1. /\ update.id \in Ids /\ c \in subscribers[update.id] /\ IdOf[c] = update.id
        /\ conn[c] \in {"open", "leaving"} /\ listener = "write"
        /\ UNCHANGED <<listener, update, present, conn>> /\ todo' = todo \ {c}
    BY <1>4 DEF Write, MapSound, LoopInv, Busy, QueueInv, Change
  <2>2. CASE WriteSucceeds(c)
    BY <2>1, <2>2 DEF WriteSucceeds, MapSound, MapComplete, NewIsQuiet, EntryKept, LoopInv
  <2>3. CASE WriteFails(c)
    <3>1. /\ closed' = closed \cup {c} /\ got' = got
          /\ \A id \in Ids : subscribers'[id] = IF id = update.id
                                               THEN subscribers[id] \ {c}
                                               ELSE subscribers[id]
      BY <2>1, <2>3 DEF WriteFails
    <3>10. MapSound'
      <4> SUFFICES ASSUME NEW id \in Ids, NEW d \in subscribers'[id]
                   PROVE  IdOf[d] = id /\ conn'[d] \in {"open", "leaving"} /\ d \notin closed'
        BY DEF MapSound
      <4>1. d \in subscribers[id] /\ (id = update.id => d # c)
        BY <2>1, <3>1
      <4>2. d \in subscribers[id] =>
                 /\ d \in Conns /\ IdOf[d] = id
                 /\ conn[d] \in {"open", "leaving"} /\ d \notin closed
        BY DEF MapSound
      <4> QED
        BY <2>1, <3>1, <4>1, <4>2
    <3>11. MapComplete'
      BY <2>1, <3>1 DEF MapComplete
    <3>12. NewIsQuiet'
      BY <2>1, <3>1 DEF NewIsQuiet
    <3>13. EntryKept'
      BY <2>1, <3>1 DEF EntryKept
    <3>14. LoopInv'
      BY <2>1, <3>1 DEF LoopInv
    <3> QED
      BY <3>10, <3>11, <3>12, <3>13, <3>14
  <2> QED
    BY <1>4, <2>2, <2>3 DEF Write
<1>5. ASSUME NEW c \in Conns, Upgrade(c) \/ ReadMessageFails(c) \/ Close(c) \/ ClientLeaves(c)
      PROVE  HubInv'
  <2>1. CASE Upgrade(c) \/ ReadMessageFails(c)
    <3>1. /\ \A d \in Conns : conn'[d] = IF d = c THEN (IF Upgrade(c) THEN "upgraded" ELSE "leaving")
                                           ELSE conn[d]
          /\ Upgrade(c) => conn[c] = "new"
          /\ ~Upgrade(c) => conn[c] = "open"
          /\ UNCHANGED <<closed, got, subscribers, present, listener, update, todo>>
      BY <2>1 DEF Upgrade, ReadMessageFails
    <3>10. MapSound'
      BY <3>1 DEF MapSound
    <3>11. MapComplete'
      BY <3>1 DEF MapComplete
    <3>12. NewIsQuiet'
      BY <3>1 DEF NewIsQuiet
    <3>13. EntryKept'
      BY <3>1 DEF EntryKept
    <3>14. LoopInv'
      BY <3>1 DEF LoopInv
    <3> QED
      BY <3>10, <3>11, <3>12, <3>13, <3>14
  <2>2. CASE Close(c) \/ ClientLeaves(c)
    BY <2>2 DEF Close, ClientLeaves, MapSound, MapComplete, NewIsQuiet, EntryKept, LoopInv
  <2> QED
    BY <1>5, <2>1, <2>2
<1>6. ASSUME NEW c \in Conns, Subscribe(c)
      PROVE  HubInv'
  <2>1. /\ \A id \in Ids : subscribers'[id] = IF id = IdOf[c] THEN subscribers[id] \cup {c}
                                              ELSE subscribers[id]
        /\ \A d \in Conns : conn'[d] = IF d = c THEN "open" ELSE conn[d]
        /\ present' = present \cup {IdOf[c]} /\ conn[c] = "upgraded" /\ listener # "write"
        /\ UNCHANGED <<closed, got, listener, update, todo>>
    BY <1>6 DEF Subscribe, Locked
  <2>10. MapSound'
    <3> SUFFICES ASSUME NEW id \in Ids, NEW d \in subscribers'[id]
                 PROVE  IdOf[d] = id /\ conn'[d] \in {"open", "leaving"} /\ d \notin closed'
      BY DEF MapSound
    <3>1. d \in subscribers[id] \/ (id = IdOf[c] /\ d = c)
      BY <2>1
    <3>2. d \in subscribers[id] =>
               /\ d \in Conns /\ IdOf[d] = id
               /\ conn[d] \in {"open", "leaving"} /\ d \notin closed
      BY DEF MapSound
    <3> QED
      BY <2>1, <3>1, <3>2 DEF NewIsQuiet
  <2>11. MapComplete'
    BY <2>1 DEF MapComplete
  <2>12. NewIsQuiet'
    BY <2>1 DEF NewIsQuiet
  <2>13. EntryKept'
    BY <2>1 DEF EntryKept
  <2>14. LoopInv'
    BY <2>1 DEF LoopInv
  <2> QED
    BY <2>10, <2>11, <2>12, <2>13, <2>14
<1>7. ASSUME NEW c \in Conns, Unsubscribe(c)
      PROVE  HubInv'
  <2>1. /\ \A id \in Ids : subscribers'[id] = IF id = IdOf[c] THEN subscribers[id] \ {c}
                                              ELSE subscribers[id]
        /\ \A d \in Conns : conn'[d] = IF d = c THEN "left" ELSE conn[d]
        /\ conn[c] = "leaving" /\ listener # "write"
        /\ present' = IF subscribers[IdOf[c]] \ {c} = {} THEN present \ {IdOf[c]} ELSE present
        /\ UNCHANGED <<closed, got, listener, update, todo>>
    BY <1>7 DEF Unsubscribe, Locked
  <2>10. MapSound'
    <3> SUFFICES ASSUME NEW id \in Ids, NEW d \in subscribers'[id]
                 PROVE  IdOf[d] = id /\ conn'[d] \in {"open", "leaving"} /\ d \notin closed'
      BY DEF MapSound
    <3>1. d \in subscribers[id] /\ (id = IdOf[c] => d # c)
      BY <2>1
    <3>2. d \in subscribers[id] =>
               /\ d \in Conns /\ IdOf[d] = id
               /\ conn[d] \in {"open", "leaving"} /\ d \notin closed
      BY DEF MapSound
    <3> QED
      BY <2>1, <3>1, <3>2
  <2>11. MapComplete'
    BY <2>1 DEF MapComplete
  <2>12. NewIsQuiet'
    BY <2>1 DEF NewIsQuiet
  <2>13. EntryKept'
    BY <2>1 DEF EntryKept
  <2>14. LoopInv'
    BY <2>1 DEF LoopInv
  <2> QED
    BY <2>10, <2>11, <2>12, <2>13, <2>14
<1>8. CASE UNCHANGED vars
  BY <1>8 DEF vars, MapSound, MapComplete, NewIsQuiet, EntryKept, LoopInv
<1> QED
  BY <1>1, <1>2, <1>3, <1>4, <1>5, <1>6, <1>7, <1>8 DEF Next, ListenerStep, HandlerStep

(* Only Unsubscribe takes the handler away that NoEntryLeaks relies on, and *)
(* it then drops the entry or leaves another connection in it.             *)
LEMMA EntryStep == TypeOK /\ HubInv /\ NoEntryLeaks /\ [Next]_vars => NoEntryLeaks'
<1> SUFFICES ASSUME TypeOK, HubInv, NoEntryLeaks, [Next]_vars PROVE NoEntryLeaks'
  OBVIOUS
<1> USE HubTypes DEF hubVars, clientVars, listenerVars, dbVars
<1>1. CASE UNCHANGED <<present, conn>>
  BY <1>1 DEF NoEntryLeaks
<1>2. ASSUME NEW c \in Conns, Upgrade(c) \/ ReadMessageFails(c) \/ Close(c)
      PROVE  NoEntryLeaks'
  <2>1. /\ present' = present
        /\ \A d \in Conns : conn[d] \in {"open", "leaving"} => conn'[d] \in {"open", "leaving"}
    BY <1>2 DEF Upgrade, ReadMessageFails, Close
  <2> QED
    BY <2>1 DEF NoEntryLeaks
<1>3. ASSUME NEW c \in Conns, Subscribe(c)
      PROVE  NoEntryLeaks'
  <2>1. /\ present' = present \cup {IdOf[c]}
        /\ \A d \in Conns : conn'[d] = IF d = c THEN "open" ELSE conn[d]
    BY <1>3 DEF Subscribe
  <2> QED
    BY <2>1 DEF NoEntryLeaks
<1>4. ASSUME NEW c \in Conns, Unsubscribe(c)
      PROVE  NoEntryLeaks'
  <2>1. /\ \A d \in Conns : conn'[d] = IF d = c THEN "left" ELSE conn[d]
        /\ present' = IF subscribers[IdOf[c]] \ {c} = {} THEN present \ {IdOf[c]} ELSE present
    BY <1>4 DEF Unsubscribe
  <2>2. ASSUME NEW id \in present', id = IdOf[c]
        PROVE  \E d \in Conns : IdOf[d] = id /\ conn'[d] \in {"open", "leaving"}
    <3>1. id \in Ids /\ subscribers[id] \ {c} # {}
      BY <2>1, <2>2
    <3>2. PICK d \in subscribers[id] \ {c} : TRUE
      BY <3>1
    <3>3. d \in Conns /\ d # c /\ IdOf[d] = id /\ conn[d] \in {"open", "leaving"}
      BY <3>1, <3>2 DEF HubInv, MapSound
    <3> QED
      BY <2>1, <3>3
  <2>3. ASSUME NEW id \in present', id # IdOf[c]
        PROVE  \E d \in Conns : IdOf[d] = id /\ conn'[d] \in {"open", "leaving"}
    BY <2>1, <2>3 DEF NoEntryLeaks
  <2> QED
    BY <2>2, <2>3 DEF NoEntryLeaks
<1> QED
  BY <1>1, <1>2, <1>3, <1>4
     DEF Next, ListenerStep, HandlerStep, NotifyStatusChange, Listen, WaitForNotification,
         WaitFails, Lookup, Lock, Unlock, Write, ClientLeaves, vars

LEMMA DropStep == TypeOK /\ QueueInv /\ HubInv /\ DropInv /\ [Next]_vars => DropInv'
<1> SUFFICES ASSUME TypeOK, QueueInv, HubInv, DropInv, [Next]_vars,
                    listener' = "lock", dropped'
             PROVE  \A c \in subscribers'[update'.id] :
                       got'[c] = << >> /\ update'.n <= since'[c]
  BY DEF DropInv
<1> USE HubTypes DEF hubVars, clientVars, listenerVars, dbVars
<1>1. CASE UNCHANGED <<listener, dropped, update, subscribers, got, since>>
  BY <1>1 DEF DropInv
<1>2. CASE ListenerStep \/ WaitFails
  BY <1>2 DEF ListenerStep, Listen, WaitForNotification, WaitFails, Lookup, Lock, Unlock, Write
<1>3. ASSUME NEW c \in Conns, Subscribe(c)
      PROVE  \A d \in subscribers'[update'.id] :
                got'[d] = << >> /\ update'.n <= since'[d]
  <2>1. /\ \A id \in Ids : subscribers'[id] = IF id = IdOf[c] THEN subscribers[id] \cup {c}
                                              ELSE subscribers[id]
        /\ \A d \in Conns : since'[d] = IF d = c THEN changes[IdOf[c]] ELSE since[d]
        /\ conn[c] = "upgraded"
        /\ UNCHANGED <<got, listener, update, dropped>>
    BY <1>3 DEF Subscribe
  <2>2. update.id \in Ids /\ update.n <= changes[update.id]
    BY <2>1 DEF QueueInv, Busy, Change
  <2>3. got[c] = << >> /\ changes[IdOf[c]] = since'[c]
    BY <2>1 DEF HubInv, NewIsQuiet
  <2>4. ASSUME NEW d \in subscribers[update.id]
        PROVE  got'[d] = << >> /\ update'.n <= since'[d]
    <3>1. d # c /\ d \in Conns
      BY <2>1, <2>2 DEF HubInv, MapSound
    <3>2. got[d] = << >> /\ update.n <= since[d]
      BY <2>1 DEF DropInv
    <3> QED
      BY <2>1, <3>1, <3>2
  <2>5. \A d \in subscribers'[update.id] :
           d \in subscribers[update.id] \/ (d = c /\ update.id = IdOf[c])
    BY <2>1, <2>2
  <2> QED
    BY <2>1, <2>2, <2>3, <2>4, <2>5
<1>4. ASSUME NEW c \in Conns, Unsubscribe(c)
      PROVE  \A d \in subscribers'[update'.id] :
                got'[d] = << >> /\ update'.n <= since'[d]
  <2>1. /\ \A id \in Ids : subscribers'[id] = IF id = IdOf[c] THEN subscribers[id] \ {c}
                                              ELSE subscribers[id]
        /\ dropped \/ (update.id = IdOf[c] /\ subscribers[IdOf[c]] \ {c} = {})
        /\ UNCHANGED <<got, since, listener, update>>
    BY <1>4 DEF Unsubscribe
  <2>2. update.id \in Ids
    BY <2>1 DEF QueueInv, Busy, Change
  <2> QED
    BY <2>1, <2>2 DEF DropInv
<1> QED
  BY <1>1, <1>2, <1>3, <1>4
     DEF Next, HandlerStep, NotifyStatusChange, Upgrade, ReadMessageFails, Close,
         ClientLeaves, vars

(***************************************************************************)
(* What a connection in the map has seen and is to see                     *)
(***************************************************************************)
LEMMA ConnFacts ==
    ASSUME TypeOK, NEW c \in Conns
    PROVE  /\ IdOf[c] \in Ids /\ changes[IdOf[c]] \in Nat /\ since[c] \in Nat
           /\ got[c] \in Seq(Nat)
           /\ got[c] # << >> => Last(c) \in Nat
<1>1. IdOf[c] \in Ids /\ changes[IdOf[c]] \in Nat /\ since[c] \in Nat /\ got[c] \in Seq(Nat)
  BY HubTypes
<1>2. got[c] # << >> => Len(got[c]) \in DOMAIN got[c]
  BY <1>1
<1> QED
  BY <1>1, <1>2 DEF Last

(* A step that is none of c's business.                                    *)
LEMMA CalmStep ==
    ASSUME NEW c \in Conns, View(c),
           UNCHANGED <<changes, queue, promised>>,
           got'[c] = got[c], since'[c] = since[c],
           Awaits(c)' <=> Awaits(c), Awaits(c) => update' = update,
           listener' # "ended" => listener # "ended"
    PROVE  View(c)'
<1>1. /\ \A n : Queued(IdOf[c], n)' <=> Queued(IdOf[c], n)
      /\ Last(c)' = Last(c)
  BY DEF Queued, Last
<1>2. \A n : Coming(c, n) => Coming(c, n)'
  BY <1>1 DEF Coming
<1> QED
  BY <1>1, <1>2 DEF View, Expecting, Following

(* A connection that has just entered the map is owed nothing yet.         *)
LEMMA Entered ==
    ASSUME NEW c \in Conns, got'[c] = << >>, since'[c] \in Nat, changes'[IdOf[c]] = since'[c]
    PROVE  View(c)'
BY DEF View, Expecting

(* The number the listener writes is the one that c waits for.             *)
LEMMA NextNumber ==
    ASSUME TypeOK, QueueInv, NEW c \in Conns, View(c), got[c] # << >>,
           Awaits(c), listener # "ended"
    PROVE  update.n = Last(c) + 1
<1>1. /\ update.id = IdOf[c] /\ update.n \in Nat /\ Last(c) \in Nat
      /\ changes[IdOf[c]] \in Nat
      /\ update.n <= changes[IdOf[c]] /\ Last(c) < update.n
  BY ConnFacts DEF Awaits, QueueInv, Change, View, Following
<1>2. Coming(c, Last(c) + 1)
  BY <1>1 DEF View, Following
<1>3. CASE Queued(IdOf[c], Last(c) + 1)
  <2>1. PICK i \in DOMAIN queue : queue[i] = [id |-> IdOf[c], n |-> Last(c) + 1]
    BY <1>3 DEF Queued
  <2>2. update.n < Last(c) + 1
    BY <1>1, <2>1 DEF QueueInv, Awaits
  <2> QED
    BY <1>1, <2>2
<1> QED
  BY <1>2, <1>3 DEF Coming

LEMMA OrderStep ==
    TypeOK /\ QueueInv /\ HubInv /\ ViewInv /\ InOrder /\ [Next]_vars => InOrder'
<1> SUFFICES ASSUME TypeOK, QueueInv, HubInv, ViewInv, InOrder, [Next]_vars PROVE InOrder'
  OBVIOUS
<1>1. CASE got' = got
  BY <1>1 DEF InOrder
<1>2. ASSUME NEW c \in Conns, Write(c), WriteSucceeds(c)
      PROVE  InOrder'
  <2>1. /\ update.id \in Ids /\ c \in subscribers[update.id] /\ listener = "write"
        /\ c \in todo /\ IdOf[c] = update.id /\ update.n \in Nat
    BY <1>2 DEF Write, HubInv, LoopInv, MapSound, QueueInv, Busy, Change
  <2>2. Awaits(c) /\ View(c)
    BY <2>1 DEF Awaits, Busy, ViewInv
  <2>3. /\ got[c] \in Seq(Nat) /\ Len(got[c]) \in Nat
        /\ got'[c] = Append(got[c], update.n)
        /\ \A d \in Conns : d # c => got'[d] = got[d]
    BY <1>2, ConnFacts, HubTypes DEF WriteSucceeds
  <2>4. /\ Len(got'[c]) = Len(got[c]) + 1 /\ got'[c][Len(got[c]) + 1] = update.n
        /\ \A i \in 1 .. Len(got[c]) : got'[c][i] = got[c][i]
    BY <2>1, <2>3
  <2>5. got[c] # << >> => update.n = got[c][Len(got[c])] + 1
    BY <2>1, <2>2, NextNumber DEF Last
  <2>6. ASSUME NEW i \in 1 .. Len(got[c])
        PROVE  got'[c][i + 1] = got'[c][i] + 1
    <3>1. CASE i = Len(got[c])
      BY <2>3, <2>4, <2>5, <3>1
    <3>2. CASE i \in 1 .. Len(got[c]) - 1
      <4>1. got[c][i + 1] = got[c][i] + 1 /\ i + 1 \in 1 .. Len(got[c])
        BY <2>3, <3>2 DEF InOrder
      <4> QED
        BY <2>4, <4>1
    <3> QED
      BY <2>3, <3>1, <3>2
  <2>7. \A i \in 1 .. Len(got'[c]) - 1 : got'[c][i + 1] = got'[c][i] + 1
    <3>1. Len(got'[c]) - 1 = Len(got[c])
      BY <2>3, <2>4
    <3> QED
      BY <2>6, <3>1
  <2>8. \A d \in Conns : d # c =>
           \A i \in 1 .. Len(got'[d]) - 1 : got'[d][i + 1] = got'[d][i] + 1
    BY <2>3 DEF InOrder
  <2> QED
    BY <2>7, <2>8 DEF InOrder
<1> QED
  BY <1>1, <1>2
     DEF Next, ListenerStep, HandlerStep, NotifyStatusChange, Listen, WaitForNotification,
         WaitFails, Lookup, Lock, Unlock, Write, WriteFails, Upgrade, Subscribe,
         ReadMessageFails, Unsubscribe, Close, ClientLeaves, vars, clientVars

LEMMA ViewStep ==
    TypeOK /\ TypeOK' /\ QueueInv /\ QueueInv' /\ HubInv /\ HubInv' /\ DropInv /\ ViewInv
        /\ [Next]_vars => ViewInv'
<1> SUFFICES ASSUME TypeOK, TypeOK', QueueInv, QueueInv', HubInv, HubInv', DropInv, ViewInv,
                    [Next]_vars,
                    NEW c \in Conns, c \in subscribers'[IdOf[c]]
             PROVE  View(c)'
  BY DEF ViewInv
<1> USE DEF hubVars, clientVars, listenerVars, dbVars
<1>1. /\ c \in subscribers[IdOf[c]] => View(c)
      /\ IdOf[c] \in Ids /\ changes[IdOf[c]] \in Nat /\ since[c] \in Nat
      /\ got[c] \in Seq(Nat) /\ (got[c] # << >> => Last(c) \in Nat)
  BY ConnFacts DEF ViewInv
<1>2. ASSUME NEW id \in Ids, NotifyStatusChange(id)
      PROVE  View(c)'
  <2>1. /\ UNCHANGED <<listener, update, todo, got, since, subscribers>>
        /\ changes' = [changes EXCEPT ![id] = changes[id] + 1]
        /\ listener = "ended" \/ Starting => queue' = queue
        /\ Starting => promised' = promised
        /\ \A o, n : [id |-> o, n |-> n] \in promised' =>
                 [id |-> o, n |-> n] \in promised \/ (o = id /\ n = changes[id] + 1)
    BY <1>2 DEF NotifyStatusChange
  <2>2. /\ View(c) /\ (Awaits(c)' <=> Awaits(c)) /\ Last(c)' = Last(c)
        /\ changes[id] \in Nat
        /\ changes'[IdOf[c]] = IF IdOf[c] = id THEN changes[id] + 1 ELSE changes[IdOf[c]]
    BY <1>1, <2>1, HubTypes DEF Awaits, Busy, Last
  <2>3. CASE listener # "ended" /\ ~Starting
    <3>1. /\ DOMAIN queue' = 1 .. Len(queue) + 1
          /\ queue'[Len(queue) + 1] = [id |-> id, n |-> changes[id] + 1]
          /\ \A i \in 1 .. Len(queue) : queue'[i] = queue[i]
          /\ \A o, n : Queued(o, n)' <=> Queued(o, n) \/ (o = id /\ n = changes[id] + 1)
      BY <1>2, <2>3, Appended
    <3>2. ASSUME NEW n, Coming(c, n) \/ (IdOf[c] = id /\ n = changes[id] + 1)
          PROVE  Coming(c, n)'
      <4>1. Queued(IdOf[c], n)' <=> Queued(IdOf[c], n) \/ (IdOf[c] = id /\ n = changes[id] + 1)
        BY <3>1 DEF Queued
      <4> QED
        BY <2>1, <2>2, <3>2, <4>1 DEF Coming
    <3>3. ASSUME got[c] = << >>
          PROVE  Expecting(c)'
      <4> SUFFICES ASSUME NEW m \in Nat, since[c] < m, m <= changes'[IdOf[c]],
                          [id |-> IdOf[c], n |-> m] \in promised'
                   PROVE  Coming(c, m)'
        BY <2>1 DEF Expecting
      <4>1. CASE IdOf[c] = id /\ m = changes[id] + 1
        BY <3>2, <4>1
      <4>2. CASE ~(IdOf[c] = id /\ m = changes[id] + 1)
        <5>1. m <= changes[IdOf[c]] /\ [id |-> IdOf[c], n |-> m] \in promised
          BY <1>1, <2>1, <2>2, <4>2
        <5>2. Coming(c, m)
          BY <2>2, <2>3, <3>3, <5>1 DEF View, Expecting
        <5> QED
          BY <3>2, <5>2
      <4> QED
        BY <4>1, <4>2
    <3>4. ASSUME got[c] # << >>
          PROVE  Following(c)'
      <4>1. Following(c) /\ Last(c) \in Nat
        BY <1>1, <2>2, <3>4 DEF View
      <4>2. Last(c) <= changes'[IdOf[c]]
        BY <1>1, <2>2, <4>1 DEF Following
      <4>3. ASSUME NEW i \in DOMAIN queue', queue'[i].id = IdOf[c]
            PROVE  Last(c) < queue'[i].n
        <5>1. CASE i \in 1 .. Len(queue)
          BY <3>1, <4>1, <4>3, <5>1, QueueFacts DEF Following
        <5>2. CASE i = Len(queue) + 1
          <6>1. queue'[i].id = id /\ queue'[i].n = changes[id] + 1
            BY <3>1, <5>2
          <6> QED
            BY <1>1, <4>1, <4>3, <6>1 DEF Following
        <5> QED
          BY <3>1, <5>1, <5>2, QueueFacts
      <4>4. Awaits(c)' => Last(c) < update.n
        BY <2>2, <4>1 DEF Following
      <4>5. \A m \in Nat : Last(c) < m /\ m <= changes'[IdOf[c]] => Coming(c, m)'
        <5> SUFFICES ASSUME NEW m \in Nat, Last(c) < m, m <= changes'[IdOf[c]]
                     PROVE  Coming(c, m)'
          OBVIOUS
        <5>1. m <= changes[IdOf[c]] \/ (IdOf[c] = id /\ m = changes[id] + 1)
          BY <1>1, <2>2
        <5>2. m <= changes[IdOf[c]] => Coming(c, m)
          BY <2>3, <4>1 DEF Following
        <5> QED
          BY <3>2, <5>1, <5>2
      <4> QED
        BY <2>1, <2>2, <4>2, <4>3, <4>4, <4>5 DEF Following
    <3> QED
      BY <2>1, <3>3, <3>4 DEF View
  <2>4. CASE Starting
    BY <2>1, <2>4 DEF QueueInv, View, Expecting
  <2>5. CASE listener = "ended"
    <3>1. /\ queue = << >> /\ queue' = << >> /\ ~Awaits(c)'
      BY <2>1, <2>2, <2>5 DEF QueueInv, Awaits, Busy
    <3> QED
      BY <1>1, <2>1, <2>2, <2>5, <3>1 DEF View, Expecting, Following
  <2> QED
    BY <2>3, <2>4, <2>5
<1>3. CASE Listen
  BY <1>3 DEF Listen, QueueInv, View, Expecting
<1>4. CASE WaitFails
  <2>1. /\ UNCHANGED <<changes, got, since, subscribers>> /\ queue' = << >>
        /\ listener' = "ended" /\ ~Awaits(c)' /\ Last(c)' = Last(c) /\ View(c)
    BY <1>1, <1>4 DEF WaitFails, Awaits, Busy, Last
  <2> QED
    BY <2>1 DEF View, Expecting, Following
<1>5. CASE WaitForNotification
  <2>1. /\ UNCHANGED <<changes, got, since, subscribers, promised>>
        /\ listener = "wait" /\ listener' = "lookup"
        /\ ~Awaits(c) /\ (Awaits(c)' <=> update'.id = IdOf[c])
        /\ Last(c)' = Last(c) /\ View(c)
    BY <1>1, <1>5 DEF WaitForNotification, Awaits, Busy, Last
  <2>2. /\ Len(queue) \in Nat /\ 1 \in DOMAIN queue /\ update' = queue[1]
        /\ DOMAIN queue' = 1 .. Len(queue) - 1
        /\ \A i \in 1 .. Len(queue) - 1 : queue'[i] = queue[i + 1]
        /\ \A o, n : Queued(o, n) <=> Queued(o, n)' \/ update' = [id |-> o, n |-> n]
    BY <1>5, Taken
  <2>3. ASSUME NEW n, Coming(c, n)
        PROVE  Coming(c, n)'
    <3>1. Queued(IdOf[c], n)' \/ update' = [id |-> IdOf[c], n |-> n]
      BY <2>1, <2>2, <2>3 DEF Coming
    <3>2. update' = [id |-> IdOf[c], n |-> n] => Awaits(c)' /\ update'.n = n
      BY <2>1
    <3> QED
      BY <3>1, <3>2 DEF Coming
  <2>4. ASSUME got[c] # << >>
        PROVE  Following(c)'
    <3>1. Following(c)
      BY <2>1, <2>4 DEF View
    <3>2. Awaits(c)' => Last(c) < update'.n
      BY <2>1, <2>2, <3>1 DEF Following
    <3>3. ASSUME NEW i \in DOMAIN queue', queue'[i].id = IdOf[c]
          PROVE  Last(c) < queue'[i].n
      <4>1. i + 1 \in DOMAIN queue /\ queue'[i] = queue[i + 1]
        BY <2>2, QueueFacts
      <4> QED
        BY <3>1, <3>3, <4>1 DEF Following
    <3> QED
      BY <2>1, <2>3, <3>1, <3>2, <3>3 DEF Following
  <2> QED
    BY <2>1, <2>3, <2>4 DEF View, Expecting
<1>6. CASE Lookup
  <2>1. /\ UNCHANGED <<update, todo, hubVars, clientVars, dbVars>> /\ listener = "lookup"
        /\ listener' = IF update.id \in present THEN "lock" ELSE "wait"
    BY <1>6 DEF Lookup
  <2>2. update.id = IdOf[c] => update.id \in present
    BY <1>1, <2>1 DEF HubInv, EntryKept
  <2>3. Awaits(c)' <=> Awaits(c)
    BY <2>1, <2>2 DEF Awaits, Busy
  <2> QED
    BY <1>1, <2>1, <2>3, CalmStep
<1>7. CASE Lock
  <2>1. /\ UNCHANGED <<update, dropped, hubVars, clientVars, dbVars>>
        /\ listener = "lock" /\ listener' = "write"
        /\ todo' = IF dropped THEN {} ELSE subscribers[update.id]
        /\ View(c)
    BY <1>1, <1>7 DEF Lock
  <2>2. CASE ~dropped \/ update.id # IdOf[c]
    <3>1. update.id \in Ids
      BY <2>1 DEF QueueInv, Busy, Change
    <3>2. c \in todo' <=> ~dropped /\ update.id = IdOf[c]
      BY <1>1, <2>1, <3>1 DEF HubInv, MapSound
    <3>3. Awaits(c)' <=> Awaits(c)
      BY <2>1, <2>2, <3>2 DEF Awaits, Busy
    <3> QED
      BY <2>1, <3>3, CalmStep
  <2>3. CASE dropped /\ update.id = IdOf[c]
    <3>1. got[c] = << >> /\ update.n <= since[c] /\ update.n \in Nat
      BY <1>1, <2>1, <2>3 DEF DropInv, QueueInv, Busy, Change
    <3>2. ASSUME NEW m \in Nat, since[c] < m, Coming(c, m)
          PROVE  Coming(c, m)'
      <4>1. Queued(IdOf[c], m)
        BY <1>1, <3>1, <3>2 DEF Coming
      <4> QED
        BY <2>1, <4>1 DEF Coming, Queued
    <3> QED
      BY <2>1, <3>1, <3>2 DEF View, Expecting
  <2> QED
    BY <2>2, <2>3
<1>8. ASSUME NEW d \in Conns, Write(d)
      PROVE  View(c)'
  <2>1. /\ listener = "write" /\ update.id \in Ids /\ update.n \in Nat
        /\ d \in subscribers[update.id] /\ IdOf[d] = update.id
        /\ todo' = todo \ {d} /\ d \in todo
        /\ UNCHANGED <<listener, update, since, dbVars>>
    BY <1>8 DEF Write, HubInv, LoopInv, MapSound, QueueInv, Busy, Change
  <2>2. CASE d = c /\ WriteFails(d)
    BY <1>1, <2>1, <2>2, HubTypes DEF WriteFails
  <2>3. CASE d = c /\ WriteSucceeds(d)
    <3>1. got'[c] = Append(got[c], update.n)
      BY <2>3, HubTypes DEF WriteSucceeds
    <3>2. got'[c] # << >> /\ Last(c)' = update.n
      BY <1>1, <2>1, <3>1 DEF Last
    <3>3. /\ update.n <= changes[IdOf[c]]
          /\ \A i \in DOMAIN queue : queue[i].id = IdOf[c] => update.n < queue[i].n
          /\ \A m \in Nat : update.n < m /\ m <= changes[IdOf[c]] => Queued(IdOf[c], m)
      BY <2>1, <2>3 DEF QueueInv, Busy
    <3>4. ~Awaits(c)' /\ \A m : Queued(IdOf[c], m) => Coming(c, m)'
      BY <2>1, <2>3 DEF Awaits, Coming, Queued
    <3> QED
      BY <2>1, <3>2, <3>3, <3>4 DEF View, Following
  <2>4. CASE d # c
    <3>1. got'[c] = got[c] /\ (c \in subscribers'[IdOf[c]] => c \in subscribers[IdOf[c]])
      <4>1. CASE WriteSucceeds(d)
        BY <2>4, <4>1, HubTypes DEF WriteSucceeds
      <4>2. CASE WriteFails(d)
        BY <1>1, <2>1, <2>4, <4>2, HubTypes DEF WriteFails
      <4> QED
        BY <1>8, <4>1, <4>2 DEF Write
    <3>2. Awaits(c)' <=> Awaits(c)
      BY <2>1, <2>4 DEF Awaits, Busy
    <3> QED
      BY <1>1, <2>1, <3>1, <3>2, CalmStep
  <2> QED
    BY <1>8, <2>2, <2>3, <2>4 DEF Write
<1>9. CASE Unlock
  <2>1. Awaits(c)' <=> Awaits(c)
    BY <1>9 DEF Unlock, Awaits, Busy
  <2> QED
    BY <1>1, <1>9, <2>1, CalmStep DEF Unlock
<1>10. ASSUME NEW d \in Conns, Subscribe(d)
       PROVE  View(c)'
  <2>1. /\ UNCHANGED <<got, listenerVars, dbVars>> /\ conn[d] = "upgraded"
        /\ subscribers'[IdOf[c]] \subseteq subscribers[IdOf[c]] \cup {d}
        /\ since'[c] = IF c = d THEN changes[IdOf[c]] ELSE since[c]
    BY <1>1, <1>10, HubTypes DEF Subscribe
  <2>2. CASE c = d
    BY <1>1, <2>1, <2>2, Entered DEF HubInv, NewIsQuiet
  <2>3. CASE c # d
    <3>1. Awaits(c)' <=> Awaits(c)
      BY <2>1 DEF Awaits, Busy
    <3> QED
      BY <1>1, <2>1, <2>3, <3>1, CalmStep
  <2> QED
    BY <2>2, <2>3
<1>11. ASSUME NEW d \in Conns, Unsubscribe(d)
       PROVE  View(c)'
  <2>1. /\ UNCHANGED <<got, since, listener, update, todo, dbVars>>
        /\ subscribers'[IdOf[c]] \subseteq subscribers[IdOf[c]]
    BY <1>1, <1>11, HubTypes DEF Unsubscribe
  <2>2. Awaits(c)' <=> Awaits(c)
    BY <2>1 DEF Awaits, Busy
  <2> QED
    BY <1>1, <2>1, <2>2, CalmStep
<1>12. ASSUME UNCHANGED <<got, since, subscribers, listenerVars, dbVars>>
       PROVE  View(c)'
  <2>1. Awaits(c)' <=> Awaits(c)
    BY <1>12 DEF Awaits, Busy
  <2> QED
    BY <1>1, <1>12, <2>1, CalmStep
<1>13. ASSUME NEW d \in Conns,
              Upgrade(d) \/ ReadMessageFails(d) \/ Close(d) \/ ClientLeaves(d)
       PROVE  View(c)'
  BY <1>12, <1>13 DEF Upgrade, ReadMessageFails, Close, ClientLeaves
<1>14. CASE UNCHANGED vars
  BY <1>12, <1>14 DEF vars
<1> QED
  BY <1>2, <1>3, <1>4, <1>5, <1>6, <1>7, <1>8, <1>9, <1>10, <1>11, <1>13, <1>14
     DEF Next, ListenerStep, HandlerStep

(***************************************************************************)
(* Theorems                                                                *)
(***************************************************************************)
LEMMA Invariant == Spec => []IInv
<1>1. Init => IInv
  <2> SUFFICES ASSUME Init PROVE IInv
    OBVIOUS
  <2>1. TypeOK
    BY TypeInit
  <2>2. QueueInv
    BY DEF Init, QueueInv, Starting, Busy
  <2>3. HubInv
    BY DEF Init, HubInv, MapSound, MapComplete, NewIsQuiet, EntryKept, LoopInv
  <2>4. DropInv /\ ViewInv /\ NoEntryLeaks
    BY IdOfAssumption DEF Init, DropInv, ViewInv, NoEntryLeaks
  <2>5. InOrder
    BY DEF Init, InOrder
  <2> QED
    BY <2>1, <2>2, <2>3, <2>4, <2>5 DEF IInv
<1>2. IInv /\ [Next]_vars => IInv'
  BY TypeStep, QueueStep, HubStep, DropStep, ViewStep, OrderStep, EntryStep DEF IInv
<1> QED
  BY <1>1, <1>2, PTL DEF Spec

(* Broadcast writes to open connections only: a handler leaves the map,    *)
(* under the lock the write loop holds, before it closes.                  *)
THEOREM NoWriteAfterClose == Spec => []WritesToOpen
<1>1. IInv => WritesToOpen
  BY HubTypes DEF IInv, HubInv, MapSound, LoopInv, QueueInv, Busy, Change, WritesToOpen
<1> QED
  BY Invariant, <1>1, PTL

(* The map has an entry only for notifications somebody's handler serves.  *)
THEOREM EntriesAreServed == Spec => []NoEntryLeaks
<1>1. IInv => NoEntryLeaks
  BY DEF IInv
<1> QED
  BY Invariant, <1>1, PTL

(* The updates a connection is sent have no gap and no repetition, though  *)
(* Broadcast reads the map, releases the lock and takes it again.          *)
THEOREM UpdatesInOrder == Spec => []InOrder
<1>1. IInv => InOrder
  BY DEF IInv
<1> QED
  BY Invariant, <1>1, PTL

(* A client that is still connected when the listener has caught up has    *)
(* seen the last change: none is missed between its subscription and the   *)
(* broadcasts that are under way.                                          *)
THEOREM ClientsCatchUp == Spec => []ViewCurrent
<1>1. IInv => ViewCurrent
  <2> SUFFICES ASSUME IInv, listener = "wait", queue = << >>, NEW c \in Conns,
                      Connected(c), Owed(c, changes[IdOf[c]])
               PROVE  got[c] # << >> /\ got[c][Len(got[c])] = changes[IdOf[c]]
    BY DEF ViewCurrent
  <2>1. View(c)
    BY DEF IInv, HubInv, MapComplete, ViewInv, Connected
  <2>2. \A n : ~Coming(c, n)
    BY DEF Coming, Queued, Awaits, Busy
  <2>3. /\ changes[IdOf[c]] \in Nat /\ since[c] \in Nat
        /\ got[c] # << >> => Last(c) \in Nat
    BY ConnFacts DEF IInv
  <2>4. got[c] # << >>
    BY <2>1, <2>2, <2>3 DEF View, Expecting, Owed
  <2>5. Last(c) = changes[IdOf[c]]
    BY <2>1, <2>2, <2>3, <2>4 DEF View, Following
  <2> QED
    BY <2>4, <2>5 DEF Last
<1> QED
  BY Invariant, <1>1, PTL
=============================================================================
