------------------------------ MODULE SSHPool ------------------------------
(***************************************************************************)
(* The SSH connection pool of internal/filemanager/pool.go as it stands    *)
(* for ONE server, with the handlers that share its connection: metrics    *)
(* streams, which invalidate the entry and get a new connection when a     *)
(* sample fails, and log tails, which get the connection anew on every     *)
(* poll.  Servers do not interact: the pool is keyed by server.            *)
(*                                                                         *)
(* Get and Invalidate are split where another goroutine can come between:  *)
(* the map operation, and what is done to the entry under its mutex.       *)
(***************************************************************************)
EXTENDS Naturals, FiniteSets

CONSTANTS
  Stream,            \* metrics streams (GET /servers/:id/metrics/stream)
  Tail,              \* log streams (GET /servers/:id/logs/stream)
  Entry,             \* names for poolEntry objects, and for connections;
  Conn,              \*   a name is used again once nothing refers to it
  None,              \* no entry, no connection, nobody
  maxMetricRetries,  \* failures in a row after which a stream ends
  OutagesHappen,     \* may the server be out of reach for a while?
  MaxTrouble         \* bound: connections cut, samples spoilt, outages

Client == Stream \cup Tail

ASSUME PoolAssumption ==
  /\ IsFiniteSet(Client)
  /\ Cardinality(Entry) > Cardinality(Client)
  /\ Cardinality(Conn) > 2 * Cardinality(Client) + 1
  /\ None \notin Entry \cup Conn \cup Client
  /\ Stream \cap Tail = {}
  /\ maxMetricRetries \in Nat \ {0} /\ MaxTrouble \in Nat /\ OutagesHappen \in BOOLEAN

VARIABLES
  slot,     \* what the map holds for the server: an entry or None
  holder,   \* who holds each entry's mutex
  conn,     \* the connection stored in each entry
  state,    \* of a connection: "unused", "live", "cut" (by the peer), "closed"
  pc,       \* where each client stands
  entry,    \* the entry its Get or Invalidate works on
  using,    \* the connection the client last got
  errors,   \* consecutiveErrors
  misses,   \* failed samples since the last good one (the frontend's view)
  up,       \* can the server be dialled?
  trouble

vars == <<slot, holder, conn, state, pc, entry, using, errors, misses, up, trouble>>
-----------------------------------------------------------------------------
Place == {"idle", "lookup", "get", "use", "invalidate", "close"}

Init ==
  /\ slot = None
  /\ holder = [e \in Entry |-> None]
  /\ conn = [e \in Entry |-> None]
  /\ state = [k \in Conn |-> "unused"]
  /\ pc = [c \in Client |-> "idle"]
  /\ entry = [c \in Client |-> None]
  /\ using = [c \in Client |-> None]
  /\ errors = [c \in Stream |-> 0]
  /\ misses = [c \in Stream |-> 0]
  /\ up = TRUE /\ trouble = 0

Goto(c, place) == pc' = [pc EXCEPT ![c] = place]

\* What neither the map nor a client refers to is garbage; a connection in a
\* garbage entry is too, but if it was live it stays open: a leak.
InUse(e) == e = slot \/ \E c \in Client : entry[c] = e
FreshEntry == CHOOSE e \in Entry : ~InUse(e)
FreshConn == CHOOSE k \in Conn : /\ \A c \in Client : using[c] # k
                                 /\ \A e \in Entry : InUse(e) => conn[e] # k

Open(c) ==
  /\ pc[c] = "idle"
  /\ Goto(c, "lookup")
  /\ UNCHANGED <<slot, holder, conn, state, entry, using, errors, misses, up, trouble>>

\* LoadOrStore.  (A fresh entry is empty.)
Lookup(c) ==
  /\ pc[c] = "lookup" /\ entry[c] = None
  /\ \/ /\ slot # None
        /\ entry' = [entry EXCEPT ![c] = slot]
        /\ UNCHANGED <<slot, conn>>
     \/ /\ slot = None
        /\ slot' = FreshEntry
        /\ conn' = [conn EXCEPT ![FreshEntry] = None]
        /\ entry' = [entry EXCEPT ![c] = FreshEntry]
  /\ UNCHANGED <<holder, state, pc, using, errors, misses, up, trouble>>

LockEntry(c) ==
  /\ pc[c] = "lookup" /\ entry[c] # None
  /\ holder[entry[c]] = None
  /\ holder' = [holder EXCEPT ![entry[c]] = c]
  /\ Goto(c, "get")
  /\ UNCHANGED <<slot, conn, state, entry, using, errors, misses, up, trouble>>

IsAlive(e) == conn[e] # None /\ state[conn[e]] = "live"

\* The deferred Unlock; the caller has no further use for the entry.
Unlock(c) ==
  /\ holder' = [holder EXCEPT ![entry[c]] = None]
  /\ entry' = [entry EXCEPT ![c] = None]

\* Mutant: the stream keeps the client it had.
Got_KeepOld(c, k) ==
  /\ using' = [using EXCEPT ![c] = IF @ = None THEN k ELSE @]
  /\ errors' = [s \in Stream |-> IF s = c THEN 0 ELSE errors[s]]
  /\ Goto(c, "use")

\* The handler takes the new client, and a stream starts counting again.
Got(c, k) ==
  /\ using' = [using EXCEPT ![c] = k]
  /\ errors' = [s \in Stream |-> IF s = c THEN 0 ELSE errors[s]]
  /\ Goto(c, "use")

Reuse(c) ==
  /\ pc[c] = "get" /\ IsAlive(entry[c])
  /\ Got(c, conn[entry[c]])
  /\ Unlock(c)
  /\ UNCHANGED <<slot, conn, state, misses, up, trouble>>

\* The entry's old connection is closed before a new one is dialled.
CloseOld(e) == [k \in Conn |-> IF k = conn[e] THEN "closed" ELSE state[k]]

Dial(c) ==
  /\ pc[c] = "get" /\ ~IsAlive(entry[c]) /\ up
  /\ state' = [CloseOld(entry[c]) EXCEPT ![FreshConn] = "live"]
  /\ conn' = [conn EXCEPT ![entry[c]] = FreshConn]
  /\ Got(c, FreshConn)
  /\ Unlock(c)
  /\ UNCHANGED <<slot, misses, up, trouble>>

\* Mutant: a stream that cannot reconnect tries for ever.
AfterFailure_Never(c) == IF using[c] = None THEN "idle" ELSE "use"

\* Where a failed Get leaves a client: a handler that has no connection yet
\* answers with the error, a tail carries on, a stream ends after too many.
AfterFailure(c) ==
  IF using[c] = None \/ (c \in Stream /\ errors[c] >= maxMetricRetries) THEN "idle" ELSE "use"

\* Mutant: the error return leaves the mutex locked.
DialFails_Locked(c) ==
  /\ pc[c] = "get" /\ ~IsAlive(entry[c]) /\ ~up
  /\ state' = CloseOld(entry[c])
  /\ conn' = [conn EXCEPT ![entry[c]] = None]
  /\ Goto(c, AfterFailure(c))
  /\ using' = [using EXCEPT ![c] = IF AfterFailure(c) = "idle" THEN None ELSE @]
  /\ errors' = [s \in Stream |-> IF s = c /\ AfterFailure(c) = "idle" THEN 0 ELSE errors[s]]
  /\ misses' = [s \in Stream |-> IF s = c /\ AfterFailure(c) = "idle" THEN 0 ELSE misses[s]]
  /\ entry' = [entry EXCEPT ![c] = None]
  /\ UNCHANGED <<slot, holder, up, trouble>>

DialFails(c) ==
  /\ pc[c] = "get" /\ ~IsAlive(entry[c]) /\ ~up
  /\ state' = CloseOld(entry[c])
  /\ conn' = [conn EXCEPT ![entry[c]] = None]
  /\ Goto(c, AfterFailure(c))
  /\ using' = [using EXCEPT ![c] = IF AfterFailure(c) = "idle" THEN None ELSE @]
  /\ errors' = [s \in Stream |-> IF s = c /\ AfterFailure(c) = "idle" THEN 0 ELSE errors[s]]
  /\ misses' = [s \in Stream |-> IF s = c /\ AfterFailure(c) = "idle" THEN 0 ELSE misses[s]]
  /\ Unlock(c)
  /\ UNCHANGED <<slot, up, trouble>>

\* One tick of a metrics stream.  A sample fails on a connection that is not
\* live, and now and then (trouble) on one that is.
Sample(c) ==
  /\ c \in Stream /\ pc[c] = "use" /\ state[using[c]] = "live"
  /\ errors' = [errors EXCEPT ![c] = 0]
  /\ misses' = [misses EXCEPT ![c] = 0]
  /\ UNCHANGED <<slot, holder, conn, state, pc, entry, using, up, trouble>>

\* Mutant: a failed sample is not counted.
SampleFails_Uncounted(c) ==
  /\ c \in Stream /\ pc[c] = "use"
  /\ \/ state[using[c]] # "live" /\ UNCHANGED trouble
     \/ state[using[c]] = "live" /\ trouble < MaxTrouble /\ trouble' = trouble + 1
  /\ misses' = [misses EXCEPT ![c] = IF @ > maxMetricRetries THEN @ ELSE @ + 1]
  /\ Goto(c, "invalidate")
  /\ UNCHANGED <<slot, holder, conn, state, entry, using, errors, up>>

SampleFails(c) ==
  /\ c \in Stream /\ pc[c] = "use"
  /\ \/ state[using[c]] # "live" /\ UNCHANGED trouble
     \/ state[using[c]] = "live" /\ trouble < MaxTrouble /\ trouble' = trouble + 1
  /\ errors' = [errors EXCEPT ![c] = @ + 1]
  /\ misses' = [misses EXCEPT ![c] = IF @ > maxMetricRetries THEN @ ELSE @ + 1]
  /\ Goto(c, "invalidate")
  /\ UNCHANGED <<slot, holder, conn, state, entry, using, up>>

\* LoadAndDelete, then close under the mutex of the entry that was removed.
Invalidate(c) ==
  /\ pc[c] = "invalidate"
  /\ entry' = [entry EXCEPT ![c] = slot]
  /\ slot' = None
  /\ Goto(c, IF slot = None THEN "lookup" ELSE "close")
  /\ UNCHANGED <<holder, conn, state, using, errors, misses, up, trouble>>

\* Mutant: Invalidate closes the entry without its mutex.
CloseEntry_Unlocked(c) ==
  /\ pc[c] = "close"
  /\ state' = CloseOld(entry[c])
  /\ conn' = [conn EXCEPT ![entry[c]] = None]
  /\ entry' = [entry EXCEPT ![c] = None]
  /\ Goto(c, "lookup")
  /\ UNCHANGED <<slot, holder, using, errors, misses, up, trouble>>

CloseEntry(c) ==
  /\ pc[c] = "close" /\ holder[entry[c]] = None
  /\ state' = CloseOld(entry[c])
  /\ conn' = [conn EXCEPT ![entry[c]] = None]
  /\ entry' = [entry EXCEPT ![c] = None]
  /\ Goto(c, "lookup")
  /\ UNCHANGED <<slot, holder, using, errors, misses, up, trouble>>

\* A log tail polls with the client it has and then asks the pool for one.
Poll(c) ==
  /\ c \in Tail /\ pc[c] = "use"
  /\ Goto(c, "lookup")
  /\ UNCHANGED <<slot, holder, conn, state, entry, using, errors, misses, up, trouble>>

\* The browser goes away.
Leave(c) ==
  /\ pc[c] = "use"
  /\ Goto(c, "idle")
  /\ using' = [using EXCEPT ![c] = None]
  /\ errors' = [s \in Stream |-> IF s = c THEN 0 ELSE errors[s]]
  /\ misses' = [s \in Stream |-> IF s = c THEN 0 ELSE misses[s]]
  /\ UNCHANGED <<slot, holder, conn, state, entry, up, trouble>>

\* The network: a connection dies, the server cannot be reached, or can again.
Cut(k) ==
  /\ state[k] = "live" /\ trouble < MaxTrouble
  /\ state' = [state EXCEPT ![k] = "cut"] /\ trouble' = trouble + 1
  /\ UNCHANGED <<slot, holder, conn, pc, entry, using, errors, misses, up>>

Outage ==
  /\ OutagesHappen /\ up /\ trouble < MaxTrouble
  /\ up' = FALSE /\ trouble' = trouble + 1
  /\ state' = [k \in Conn |-> IF state[k] = "live" THEN "cut" ELSE state[k]]
  /\ UNCHANGED <<slot, holder, conn, pc, entry, using, errors, misses>>

Recover ==
  /\ ~up /\ up' = TRUE
  /\ UNCHANGED <<slot, holder, conn, state, pc, entry, using, errors, misses, trouble>>

Work(c) ==
  \/ Lookup(c) \/ LockEntry(c) \/ Reuse(c) \/ Dial(c) \/ DialFails(c)
  \/ Sample(c) \/ SampleFails(c) \/ Invalidate(c) \/ CloseEntry(c) \/ Poll(c)

Next ==
  \/ \E c \in Client : Open(c) \/ Work(c) \/ Leave(c)
  \/ (\E k \in Conn : Cut(k)) \/ Outage \/ Recover

Spec == Init /\ [][Next]_vars

\* A handler's goroutine goes on (its ticker fires, a dial times out); Go's mutex
\* does not starve a waiter.
FairSpec ==
  Spec /\ \A c \in Client : WF_vars(Work(c)) /\ SF_vars(LockEntry(c)) /\ SF_vars(CloseEntry(c))
-----------------------------------------------------------------------------
(* Properties *)

\* Every variable stays in its range.
TypeOK ==
  /\ slot \in Entry \cup {None}
  /\ holder \in [Entry -> Client \cup {None}]
  /\ conn \in [Entry -> Conn \cup {None}]
  /\ state \in [Conn -> {"unused", "live", "cut", "closed"}]
  /\ pc \in [Client -> Place]
  /\ entry \in [Client -> Entry \cup {None}]
  /\ using \in [Client -> Conn \cup {None}]
  /\ errors \in [Stream -> 0..maxMetricRetries]
  /\ misses \in [Stream -> 0..maxMetricRetries + 1]
  /\ up \in BOOLEAN /\ trouble \in 0..MaxTrouble

\* What Get found or made under an entry's mutex stands until it returns: nobody
\* else touches that entry's connection meanwhile, Invalidate included.
LockedEntryIsMine ==
  [][\A c \in Client : pc[c] = "get" /\ pc'[c] = "get" =>
       LET k == conn[entry[c]] IN
       /\ conn'[entry[c]] = k
       /\ k # None => (state'[k] = "closed" <=> state[k] = "closed")]_vars

\* No client waits for ever on a mutex or on a map entry another one replaced.
CallsReturn ==
  \A c \in Client :
    pc[c] \in {"lookup", "get", "invalidate", "close"} ~> pc[c] \in {"use", "idle"}

\* Once the server stays reachable and a metrics stream is the only one left, its
\* samples arrive again (or it ends): a broken connection is replaced for good.
LoneStreamRecovers ==
  \A c \in Stream :
    <>[](up /\ \A d \in Stream \ {c} : pc[d] = "idle") => []<>(misses[c] = 0)

\* While a server stays unreachable, no metrics stream goes on without end.
StreamsEndWhenDown == \A c \in Stream : <>[](~up) => []<>(pc[c] = "idle")

\* "On SSH errors it transparently reconnects up to maxMetricRetries times before
\* forwarding an SSE error event" (metrics_handler.go): a stream that goes on has
\* not reconnected more often than that since its last good sample.
GivesUpInTime ==
  \A c \in Stream : pc[c] = "use" => misses[c] <= maxMetricRetries
=============================================================================
