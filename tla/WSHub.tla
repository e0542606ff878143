-------------------------------- MODULE WSHub --------------------------------
(***************************************************************************)
(* The WebSocket hub of one API replica: status changes reach the listener *)
(* through PostgreSQL's NOTIFY, and the hub writes each to the connections *)
(* subscribed to its notification.                                         *)
(*                                                                         *)
(* The hub's read-write lock is held across steps only by the listener's   *)
(* write loop; whoever needs it for writing waits for that loop.  A change *)
(* is its number among the changes of its notification.  A write takes a   *)
(* bounded time: a notification has a handful of small updates, and what a *)
(* client has not read yet waits in its socket's buffer.                   *)
(***************************************************************************)
EXTENDS Naturals, Sequences, FiniteSets

CONSTANTS Ids,          \* notifications
          Conns,        \* WebSocket connections
          IdOf,         \* IdOf[c]: the notification in the URL of c
          MaxChanges,   \* bounds the status changes of a notification
          MaxFaults     \* bounds the failures of the listener's calls

ASSUME IdOfAssumption == IdOf \in [Conns -> Ids]
ASSUME BoundsAssumption == MaxChanges \in Nat /\ MaxFaults \in Nat

VARIABLES
    changes,            \* changes[id]: status changes committed so far
    queue,              \* what the database sent and the listener has not read
    listener,           \* where ListenPostgres is
    update,             \* the change it is broadcasting
    todo,               \* the connections its loop has still to write to
    dropped,            \* the set Broadcast looked up left the map meanwhile
    present,            \* the ids that have an entry in the map subscribers
    subscribers,        \* subscribers[id]: the connections in that entry
    conn,               \* conn[c]: how far the handler of c has come
    gone,               \* connections whose client, or the path to it, is gone
    closed,             \* connections the server has closed
    since,              \* since[c]: changes committed when c was subscribed
    got,                \* got[c]: the changes written to c, in order
    promised,           \* changes committed after the listener had started
    faults

hubVars == <<present, subscribers>>
clientVars == <<conn, gone, closed, since, got>>
listenerVars == <<listener, update, todo, dropped>>
dbVars == <<changes, queue, promised, faults>>
vars == <<hubVars, clientVars, listenerVars, dbVars>>

Change == [id : Ids, n : Nat]
NoUpdate == [id |-> "none", n |-> 0]

TypeOK ==
    /\ changes \in [Ids -> Nat] /\ queue \in Seq(Change)
    /\ listener \in {"acquire", "listen", "wait", "lookup", "lock", "write", "ended"}
    /\ update \in Change \cup {NoUpdate} /\ todo \in SUBSET Conns /\ dropped \in BOOLEAN
    /\ present \in SUBSET Ids /\ subscribers \in [Ids -> SUBSET Conns]
    /\ conn \in [Conns -> {"new", "upgraded", "open", "leaving", "left", "done"}]
    /\ gone \in SUBSET Conns /\ closed \in SUBSET Conns
    /\ since \in [Conns -> Nat] /\ got \in [Conns -> Seq(Nat)]
    /\ promised \in SUBSET Change /\ faults \in 0..MaxFaults

Init ==
    /\ changes = [id \in Ids |-> 0] /\ queue = << >>
    /\ listener = "acquire" /\ update = NoUpdate /\ todo = {} /\ dropped = FALSE
    /\ present = {} /\ subscribers = [id \in Ids |-> {}]
    /\ conn = [c \in Conns |-> "new"] /\ gone = {} /\ closed = {}
    /\ since = [c \in Conns |-> 0] /\ got = [c \in Conns |-> << >>]
    /\ promised = {} /\ faults = 0

Fault == faults < MaxFaults /\ faults' = faults + 1

(***************************************************************************)
(* The trigger on the table: an UPDATE that changes the status notifies,   *)
(* in commit order, whoever listens.                                       *)
(***************************************************************************)
Starting == listener \in {"acquire", "listen"}

NotifyStatusChange(id) ==
    LET change == [id |-> id, n |-> changes[id] + 1] IN
    /\ changes[id] < MaxChanges
    /\ changes' = [changes EXCEPT ![id] = @ + 1]
    /\ queue' = IF Starting \/ listener = "ended" THEN queue ELSE Append(queue, change)
    /\ promised' = IF Starting THEN promised ELSE promised \cup {change}
    /\ UNCHANGED <<hubVars, clientVars, listenerVars, faults>>

(***************************************************************************)
(* ListenPostgres                                                          *)
(***************************************************************************)
Listen ==
    /\ Starting
    /\ \/ /\ listener' = IF listener = "acquire" THEN "listen" ELSE "wait"
          /\ UNCHANGED faults
       \/ listener' = "ended" /\ Fault
    /\ UNCHANGED <<changes, queue, promised, update, todo, dropped, hubVars, clientVars>>

(* A slip to detect: some updates are skipped.                             *)
WaitAndSkip ==
    /\ listener = "wait"
    /\ queue # << >>
    /\ update' = Head(queue)
    /\ queue' = Tail(queue)
    /\ listener' \in {"lookup", "wait"}
    /\ UNCHANGED <<changes, promised, faults, todo, dropped, hubVars, clientVars>>

WaitForNotification ==
    /\ listener = "wait"
    /\ queue # << >>
    /\ update' = Head(queue)
    /\ queue' = Tail(queue)
    /\ listener' = "lookup"
    /\ UNCHANGED <<changes, promised, faults, todo, dropped, hubVars, clientVars>>

(* Any error ends the goroutine: the connection is released, with whatever *)
(* the database had sent on it.                                            *)
WaitFails ==
    /\ listener = "wait"
    /\ listener' = "ended"
    /\ queue' = << >>
    /\ Fault
    /\ UNCHANGED <<changes, promised, update, todo, dropped, hubVars, clientVars>>

(***************************************************************************)
(* Broadcast                                                               *)
(***************************************************************************)

Lookup ==
    /\ listener = "lookup"
    /\ listener' = IF update.id \in present THEN "lock" ELSE "wait"
    /\ dropped' = FALSE
    /\ UNCHANGED <<update, todo, hubVars, clientVars, dbVars>>

(* The set is shared with the map, so it has gained and lost what the map  *)
(* has; a set that was dropped from the map was empty and stays so.        *)
Lock ==
    /\ listener = "lock"
    /\ listener' = "write"
    /\ todo' = IF dropped THEN {} ELSE subscribers[update.id]
    /\ UNCHANGED <<update, dropped, hubVars, clientVars, dbVars>>

WriteSucceeds(c) ==
    /\ c \notin closed
    /\ got' = [got EXCEPT ![c] = Append(@, update.n)]
    /\ UNCHANGED <<closed, subscribers>>

(* The entry keeps its place in the map, empty or not.                     *)
WriteFails(c) ==
    /\ c \in gone \cup closed
    /\ closed' = closed \cup {c}
    /\ subscribers' = [subscribers EXCEPT ![update.id] = @ \ {c}]
    /\ UNCHANGED got

Write(c) ==
    /\ listener = "write"
    /\ c \in todo
    /\ WriteSucceeds(c) \/ WriteFails(c)
    /\ todo' = todo \ {c}
    /\ UNCHANGED <<listener, update, dropped, present, conn, gone, since, dbVars>>

Unlock ==
    /\ listener = "write"
    /\ todo = {}
    /\ listener' = "wait"
    /\ UNCHANGED <<update, todo, dropped, hubVars, clientVars, dbVars>>

(***************************************************************************)
(* HandleWebSocket and its reader goroutine                                *)
(***************************************************************************)
Locked == listener = "write"

Upgrade(c) ==
    /\ conn[c] = "new"
    /\ conn' = [conn EXCEPT ![c] = "upgraded"]
    /\ UNCHANGED <<gone, closed, since, got, hubVars, listenerVars, dbVars>>

(* A slip to detect: the entry is made anew for every subscriber.          *)
SubscribeAlone(c) ==
    /\ conn[c] = "upgraded" /\ ~Locked
    /\ present' = present \cup {IdOf[c]}
    /\ subscribers' = [subscribers EXCEPT ![IdOf[c]] = {c}]
    /\ conn' = [conn EXCEPT ![c] = "open"]
    /\ since' = [since EXCEPT ![c] = changes[IdOf[c]]]
    /\ UNCHANGED <<gone, closed, got, listenerVars, dbVars>>

Subscribe(c) ==
    /\ conn[c] = "upgraded" /\ ~Locked
    /\ present' = present \cup {IdOf[c]}
    /\ subscribers' = [subscribers EXCEPT ![IdOf[c]] = @ \cup {c}]
    /\ conn' = [conn EXCEPT ![c] = "open"]
    /\ since' = [since EXCEPT ![c] = changes[IdOf[c]]]
    /\ UNCHANGED <<gone, closed, got, listenerVars, dbVars>>

(* Slips to detect: the connection is closed before it is unsubscribed; a  *)
(* client that hangs up is not noticed.                                    *)
ReadMessageCloses(c) ==
    /\ conn[c] = "open"
    /\ c \in gone \cup closed
    /\ conn' = [conn EXCEPT ![c] = "leaving"]
    /\ closed' = closed \cup {c}
    /\ UNCHANGED <<gone, since, got, hubVars, listenerVars, dbVars>>

ReadUntilClosed(c) ==
    /\ conn[c] = "open"
    /\ c \in closed
    /\ conn' = [conn EXCEPT ![c] = "leaving"]
    /\ UNCHANGED <<gone, closed, since, got, hubVars, listenerVars, dbVars>>

ReadMessageFails(c) ==
    /\ conn[c] = "open"
    /\ c \in gone \cup closed
    /\ conn' = [conn EXCEPT ![c] = "leaving"]
    /\ UNCHANGED <<gone, closed, since, got, hubVars, listenerVars, dbVars>>

(* A slip to detect: an entry that is left empty is kept.                  *)
UnsubscribeOnly(c) ==
    /\ conn[c] = "leaving" /\ ~Locked
    /\ conn' = [conn EXCEPT ![c] = "left"]
    /\ subscribers' = [subscribers EXCEPT ![IdOf[c]] = @ \ {c}]
    /\ UNCHANGED <<present, dropped, gone, closed, since, got, listener, update, todo, dbVars>>

Unsubscribe(c) ==
    LET id == IdOf[c]  rest == subscribers[id] \ {c} IN
    /\ conn[c] = "leaving" /\ ~Locked
    /\ conn' = [conn EXCEPT ![c] = "left"]
    /\ subscribers' = [subscribers EXCEPT ![id] = rest]
    /\ present' = IF rest = {} THEN present \ {id} ELSE present
    /\ dropped' = (dropped \/ (listener = "lock" /\ update.id = id /\ rest = {}))
    /\ UNCHANGED <<gone, closed, since, got, listener, update, todo, dbVars>>

Close(c) ==
    /\ conn[c] = "left"
    /\ conn' = [conn EXCEPT ![c] = "done"]
    /\ closed' = closed \cup {c}
    /\ UNCHANGED <<gone, since, got, hubVars, listenerVars, dbVars>>

(* The client hangs up, or the network loses it.                           *)
ClientLeaves(c) ==
    /\ conn[c] \in {"upgraded", "open"}
    /\ c \notin gone
    /\ gone' = gone \cup {c}
    /\ UNCHANGED <<conn, closed, since, got, hubVars, listenerVars, dbVars>>

ListenerStep ==
    \/ Listen \/ WaitForNotification \/ Lookup \/ Lock \/ Unlock
    \/ \E c \in Conns : Write(c)

HandlerStep(c) == Subscribe(c) \/ ReadMessageFails(c) \/ Unsubscribe(c) \/ Close(c)

Next ==
    \/ \E id \in Ids : NotifyStatusChange(id)
    \/ ListenerStep \/ WaitFails
    \/ \E c \in Conns : Upgrade(c) \/ HandlerStep(c) \/ ClientLeaves(c)

Spec == Init /\ [][Next]_vars

(* Goroutines that can go on do, and the lock starves no writer.           *)
FairSpec ==
    /\ Spec
    /\ WF_vars(ListenerStep)
    /\ \A c \in Conns : SF_vars(HandlerStep(c))

(***************************************************************************)
(* Properties                                                              *)
(***************************************************************************)

Connected(c) == conn[c] = "open" /\ c \notin gone \cup closed

(* c is owed change n: it was subscribed when n was committed.             *)
Owed(c, n) ==
    /\ Connected(c) /\ n > since[c]
    /\ [id |-> IdOf[c], n |-> n] \in promised

(* A connection is sent the changes of its notification one after the      *)
(* other, none twice and none left out, whoever else comes and goes while  *)
(* Broadcast releases the lock and takes it again.                         *)
InOrder ==
    \A c \in Conns : \A i \in 1 .. Len(got[c]) - 1 : got[c][i + 1] = got[c][i] + 1

(* When the listener has nothing left to do, every connected client has    *)
(* seen the last change that was committed since it subscribed.            *)
ViewCurrent ==
    listener = "wait" /\ queue = << >> =>
        \A c \in Conns : Connected(c) /\ Owed(c, changes[IdOf[c]]) =>
            got[c] # << >> /\ got[c][Len(got[c])] = changes[IdOf[c]]

(* Broadcast never writes to a connection its own handler has closed: a    *)
(* handler leaves the map, under the lock, before it closes.               *)
WritesToOpen == \A c \in todo : conn[c] \in {"open", "leaving"} /\ c \notin closed

(* Entries do not pile up: an empty one, which a failed write may leave,   *)
(* has a handler that is still to remove it.                               *)
NoEntryLeaks ==
    \A id \in present : \E c \in Conns : IdOf[c] = id /\ conn[c] \in {"open", "leaving"}

(* A change is in the end written to whoever was subscribed and stays      *)
(* connected, as long as the listener runs.                                *)
PushedWhileListening ==
    \A c \in Conns : \A n \in 1 .. MaxChanges :
        Owed(c, n) ~> ~Connected(c) \/ listener = "ended" \/ \E i \in DOMAIN got[c] : got[c][i] = n

(* A connection whose client is gone is in the end removed and closed.     *)
GoneIsClosed == \A c \in Conns : c \in gone ~> conn[c] = "done" /\ c \in closed
=============================================================================
