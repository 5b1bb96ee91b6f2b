-------------------------- MODULE LiveStreams_proofs --------------------------
(***************************************************************************)
(* For any set of servers and connections and any bounds: the variables of *)
(* the live pages keep their ranges, a page never has two streams, and a   *)
(* light that promises a stream has something behind it.                   *)
(*                                                                         *)
(* Every handler that opens a stream closes the referenced one first, so   *)
(* OneStream is inductive by itself.  LiveHasASource needs the ranges: a   *)
(* reconnect is for a server, so the timer is set.                         *)
(***************************************************************************)
EXTENDS LiveStreams, TLAPS

\* StreamsTypeOK but for the flag that leaving a page clears.
RestTypeOK ==
  /\ view \in View /\ server \in Server \cup {NoServer}
  /\ light \in {"off", "on", "connecting", "live", "error"}
  /\ pre \in [Server -> Nat]
  /\ open \subseteq Conn /\ dest \in [Conn -> Server \cup {NoServer}]
  /\ \A c \in open : dest[c] \in Server
  /\ ref \in Conn \cup {NoConn}
  /\ retry \in 0 .. MaxRetries /\ timer \in Server \cup {NoServer}
  /\ lost \in [Server -> Nat] /\ rejected \in BOOLEAN
  /\ world \in {"ok", "ssh", "net"} /\ acts \in 0 .. MaxActs /\ outages \in 0 .. MaxOutages

StreamsInv == StreamsTypeOK /\ OneStream /\ LiveHasASource

USE StreamsAssumption DEF StreamsAssumption

LEMMA StreamsInitially == StreamsInit => StreamsInv
<1> SUFFICES ASSUME StreamsInit PROVE StreamsInv
  OBVIOUS
<1>1. StreamsTypeOK
  <2>1. mounted \in BOOLEAN /\ rejected \in BOOLEAN
    BY Zenon DEF StreamsInit
  <2>2. RestTypeOK
    BY <2>1 DEF StreamsInit, RestTypeOK
  <2>. QED
    BY <2>1, <2>2, Zenon DEF StreamsTypeOK, RestTypeOK
<1>2. OneStream
  BY DEF StreamsInit, OneStream
<1>3. light \notin Busy
  BY DEF StreamsInit, Busy
<1>. QED
  BY <1>1, <1>2, <1>3 DEF StreamsInv, LiveHasASource

LEMMA LogsStep ==
  ASSUME StreamsInv, Logs
  PROVE  StreamsInv'
<1> USE DEF StreamsInv, StreamsTypeOK, OneStream, LiveHasASource, Busy,
            Act, lpage, conns, retries, counters
<1>1. ASSUME NEW s \in Server \cup {NoServer}, LogsSelect(s) PROVE StreamsInv'
  BY <1>1 DEF LogsSelect, LogsStop, ClearTimer, CloseRef
<1>2. CASE LogsStopButton
  BY <1>2 DEF LogsStopButton, LogsStop, ClearTimer, CloseRef
<1>3. CASE LogsStart
  BY <1>3 DEF LogsStart, ClearTimer, CloseRef
<1>4. CASE LogsUnmount
  <2>1. RestTypeOK' /\ OneStream'
    BY <1>4 DEF RestTypeOK, LogsUnmount, LogsStop, ClearTimer, CloseRef
  <2>2. mounted' = FALSE
    BY <1>4, Zenon DEF LogsUnmount
  <2>3. StreamsTypeOK'
    BY <2>1, <2>2, Zenon DEF RestTypeOK
  <2>. QED
    BY <2>1, <2>2, <2>3
<1>5. ASSUME NEW s \in Server, LogsPreflight(s) PROVE StreamsInv'
  BY <1>5 DEF LogsPreflight, Connect, CloseRef
<1>6. ASSUME NEW s \in Server, LogsReconnect(s) PROVE StreamsInv'
  BY <1>6 DEF LogsReconnect, Connect, CloseRef
<1>7. ASSUME NEW c \in Conn, LogsLine(c) PROVE StreamsInv'
  BY <1>7 DEF LogsLine
<1>8. ASSUME NEW c \in Conn, LogsTransportError(c) PROVE StreamsInv'
  BY <1>8 DEF LogsTransportError, LogsOnError, SetTimer
<1>9. ASSUME NEW c \in Conn, LogsServerError(c) PROVE StreamsInv'
  BY <1>9 DEF LogsServerError, LogsOnError, SetTimer
<1>. QED
  BY <1>1, <1>2, <1>3, <1>4, <1>5, <1>6, <1>7, <1>8, <1>9 DEF Logs

LEMMA MonitorStep ==
  ASSUME StreamsInv, Monitor
  PROVE  StreamsInv'
<1> USE DEF StreamsInv, StreamsTypeOK, OneStream, LiveHasASource, Busy,
            Act, lpage, conns, retries, counters
<1>1. ASSUME NEW s \in Server \cup {NoServer}, MonitorSelect(s) PROVE StreamsInv'
  BY <1>1 DEF MonitorSelect, MonitorStart, MonitorStop, ClearTimer, CloseRef
<1>2. CASE MonitorRetryButton
  BY <1>2 DEF MonitorRetryButton, MonitorStart, MonitorStop, ClearTimer, CloseRef
<1>3. CASE MonitorUnmount
  <2>1. RestTypeOK' /\ OneStream'
    BY <1>3 DEF RestTypeOK, MonitorUnmount, MonitorStop, ClearTimer, CloseRef
  <2>2. mounted' = FALSE
    BY <1>3, Zenon DEF MonitorUnmount
  <2>3. StreamsTypeOK'
    BY <2>1, <2>2, Zenon DEF RestTypeOK
  <2>. QED
    BY <2>1, <2>2, <2>3
<1>4. ASSUME NEW s \in Server, MonitorPreflight(s) PROVE StreamsInv'
  BY <1>4 DEF MonitorPreflight, Connect, CloseRef
<1>5. ASSUME NEW s \in Server, MonitorReconnect(s) PROVE StreamsInv'
  BY <1>5 DEF MonitorReconnect, Connect, CloseRef
<1>6. ASSUME NEW c \in Conn, MonitorMetrics(c) PROVE StreamsInv'
  BY <1>6 DEF MonitorMetrics
<1>7. ASSUME NEW c \in Conn, MonitorError(c) PROVE StreamsInv'
  BY <1>7 DEF MonitorError, SetTimer
<1>. QED
  BY <1>1, <1>2, <1>3, <1>4, <1>5, <1>6, <1>7 DEF Monitor

LEMMA SiteAndTerminalStep ==
  ASSUME StreamsInv, SiteLog \/ WebTerminal
  PROVE  StreamsInv'
<1> USE DEF StreamsInv, StreamsTypeOK, OneStream, LiveHasASource, Busy,
            Act, lpage, conns, retries, counters
<1>1. ASSUME NEW s \in Server, SiteStart(s) PROVE StreamsInv'
  BY <1>1 DEF SiteStart, Connect, CloseRef
<1>2. CASE SiteHide
  BY <1>2 DEF SiteHide, CloseRef
<1>3. CASE SiteRejected
  BY <1>3 DEF SiteRejected
<1>4. CASE SiteUnmount
  <2>1. RestTypeOK' /\ OneStream'
    BY <1>4 DEF RestTypeOK, SiteUnmount
  <2>2. mounted' = FALSE
    BY <1>4, Zenon DEF SiteUnmount
  <2>3. StreamsTypeOK'
    BY <2>1, <2>2, Zenon DEF RestTypeOK
  <2>. QED
    BY <2>1, <2>2, <2>3
<1>5. ASSUME NEW c \in Conn, SiteStreamEnds(c) \/ SiteCloseEvent(c) PROVE StreamsInv'
  BY <1>5 DEF SiteStreamEnds, SiteCloseEvent
<1>6. ASSUME NEW s \in Server \cup {NoServer}, TerminalSelect(s) PROVE StreamsInv'
  BY <1>6 DEF TerminalSelect, Connect, CloseRef
<1>7. CASE TerminalKey
  BY <1>7 DEF TerminalKey, Connect, CloseRef
<1>8. CASE TerminalUnmount
  <2>1. RestTypeOK' /\ OneStream'
    BY <1>8 DEF RestTypeOK, TerminalUnmount, CloseRef
  <2>2. mounted' = FALSE
    BY <1>8, Zenon DEF TerminalUnmount
  <2>3. StreamsTypeOK'
    BY <2>1, <2>2, Zenon DEF RestTypeOK
  <2>. QED
    BY <2>1, <2>2, <2>3
<1>9. ASSUME NEW c \in Conn, TerminalCloses(c) PROVE StreamsInv'
  BY <1>9 DEF TerminalCloses
<1>. QED
  BY <1>1, <1>2, <1>3, <1>4, <1>5, <1>6, <1>7, <1>8, <1>9 DEF SiteLog, WebTerminal

\* The invariant behind the theorems below: no handler of any page breaks it.
LEMMA StreamsInvariant == StreamsSpec => []StreamsInv
<1>1. ASSUME StreamsInv, [StreamsNext]_lvars PROVE StreamsInv'
  <2>1. CASE WorldChanges
    BY <1>1, <2>1 DEF WorldChanges, StreamsInv, StreamsTypeOK, OneStream, LiveHasASource,
                      Busy, lpage, conns, retries
  <2>2. CASE UNCHANGED lvars
    BY <1>1, <2>2 DEF lvars, lpage, conns, retries, counters, StreamsInv, StreamsTypeOK,
                      OneStream, LiveHasASource, Busy
  <2>. QED
    BY <1>1, <2>1, <2>2, LogsStep, MonitorStep, SiteAndTerminalStep DEF StreamsNext
<1>. QED
  BY <1>1, StreamsInitially, PTL DEF StreamsSpec

\* Every variable of the live pages stays in its range.
THEOREM StreamsTypeCorrect == StreamsSpec => []StreamsTypeOK
  BY StreamsInvariant, PTL DEF StreamsInv

\* No page ever has two streams open, or one that it can no longer close: for the log
\* viewer, the monitor, the container log and the terminal alike.
THEOREM NeverTwoStreams == StreamsSpec => []OneStream
  BY StreamsInvariant, PTL DEF StreamsInv

\* A light that promises a stream is backed by a request, a reconnect or a connection,
\* on every page but the terminal, whose badge only says that a server is selected.
THEOREM NoDeadLight == StreamsSpec => []LiveHasASource
  BY StreamsInvariant, PTL DEF StreamsInv

HIDE StreamsAssumption DEF StreamsAssumption
===============================================================================
