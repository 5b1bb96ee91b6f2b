----------------------------- MODULE LiveStreams -----------------------------
(***************************************************************************)
(* The pages of the frontend that hold a live connection: the log viewer   *)
(* and the monitor (an EventSource, with a preflight request before it and *)
(* a reconnect timer behind it), the container log of a site (a fetch that *)
(* is read piece by piece) and the web terminal (a WebSocket).  `view' is  *)
(* the page that is open.  Handlers run one at a time, as in any browser   *)
(* tab; what interleaves is the order in which requests answer, timers     *)
(* fire, connections fail and the user acts.  A page that was left can     *)
(* still be called back: nothing but the code cancels a pending request.   *)
(***************************************************************************)
EXTENDS Naturals, FiniteSets

CONSTANTS
  View,        \* pages considered: a subset of {"logs", "monitor", "site", "terminal"}
  Server,      \* servers that can be selected
  NoServer,    \* the empty selection
  Conn,        \* connections, reused once closed
  NoConn,      \* a reference that is null
  MaxRetries,  \* reconnects before giving up (5 in the code)
  MaxActs,     \* bound: what the user does
  MaxOutages   \* bound: changes of the world

ASSUME StreamsAssumption ==
  /\ View \subseteq {"logs", "monitor", "site", "terminal"} /\ View # {}
  /\ Server # {} /\ NoServer \notin Server /\ NoConn \notin Conn
  /\ MaxRetries \in Nat /\ MaxActs \in Nat /\ MaxOutages \in Nat

VARIABLES
  view,      \* the page that is open
  mounted,   \* FALSE once the user has left it
  server,    \* the selected server
  light,     \* what the page says of its stream
  pre,       \* pre[s]: preflight requests for s not answered yet
  open,      \* connections that are connecting or open
  dest,      \* dest[c]: the server of connection c
  ref,       \* esRef, abortRef or wsRef
  retry,     \* retryRef
  timer,     \* retryTimer: the server of its pending reconnect, or NoServer
  lost,      \* lost[s]: pending reconnects that retryTimer no longer refers to
  rejected,  \* site: the catch of an aborted fetch has not run yet
  world,     \* "ok"; "ssh": the panel answers, the server does not; "net": nothing answers
  acts, outages

lpage == <<view, mounted, server, light>>
conns == <<open, dest, ref>>
retries == <<retry, timer, lost>>
counters == <<world, acts, outages>>
lvars == <<lpage, pre, conns, retries, rejected, counters>>

\* Lights behind which the user expects a stream at work.
Busy == {"on", "connecting", "live"}

StreamsInit ==
  /\ view \in View /\ mounted = TRUE /\ server = NoServer
  /\ light = "off"
  /\ pre = [s \in Server |-> 0]
  /\ open = {} /\ dest = [c \in Conn |-> NoServer] /\ ref = NoConn
  /\ retry = 0 /\ timer = NoServer /\ lost = [s \in Server |-> 0]
  /\ rejected = FALSE
  /\ world = "ok" /\ acts = 0 /\ outages = 0

\* The user does something: bounded by MaxActs.
Act == mounted /\ acts < MaxActs /\ acts' = acts + 1 /\ UNCHANGED <<view, world, outages>>

\* Mutant: what was open is forgotten instead of closed.
CloseRef_Forget == open

CloseRef == open \ {ref}

\* A new connection to s takes the place of the referenced one.
Connect(s) ==
  \E c \in Conn \ (open \cup {ref}) :
    /\ open' = CloseRef \cup {c}
    /\ dest' = [dest EXCEPT ![c] = s]
    /\ ref' = c

ClearTimer == timer' = NoServer /\ retry' = 0 /\ UNCHANGED lost

\* onerror sets the timer whatever it referred to before: a reconnect that was
\* pending then can no longer be cancelled.
SetTimer(s) ==
  /\ timer' = s
  /\ lost' = IF timer = NoServer THEN lost ELSE [lost EXCEPT ![timer] = @ + 1]
-----------------------------------------------------------------------------
(* The log viewer. *)

LogsStop ==
  /\ ClearTimer
  /\ open' = CloseRef /\ ref' = NoConn /\ UNCHANGED dest
  /\ light' = "off"

\* Another server or another source stops the stream; so does the Stop button,
\* which is there while the light is on.
LogsSelect(s) ==
  /\ view = "logs" /\ Act /\ LogsStop
  /\ server' = s
  /\ UNCHANGED <<mounted, pre, rejected>>

LogsStopButton ==
  /\ view = "logs" /\ light = "on" /\ Act /\ LogsStop
  /\ UNCHANGED <<mounted, server, pre, rejected>>

\* startStream up to its await.  The closed EventSource stays referenced.
LogsStart ==
  /\ view = "logs" /\ server # NoServer /\ Act
  /\ ClearTimer
  /\ open' = CloseRef /\ UNCHANGED <<dest, ref>>
  /\ light' = "on"
  /\ pre' = [pre EXCEPT ![server] = @ + 1]
  /\ UNCHANGED <<mounted, server, rejected>>

\* ...and after it: a refusal ends it, an answer or a network error (or the
\* eight seconds) goes on to openEs, for the server of the click.
LogsPreflight(s) ==
  /\ view = "logs" /\ pre[s] > 0
  /\ pre' = [pre EXCEPT ![s] = @ - 1]
  /\ \/ world # "net" /\ light' = "off" /\ UNCHANGED conns
     \/ Connect(s) /\ UNCHANGED light
  /\ UNCHANGED <<view, mounted, server, retries, rejected, counters>>

\* The handler greets before it reaches for the server, so there is a line even
\* when the server is out of reach.
LogsLine(c) ==
  /\ view = "logs" /\ c \in open /\ world # "net"
  /\ retry' = 0
  /\ UNCHANGED <<lpage, pre, conns, timer, lost, rejected, counters>>

\* Mutant: giving up says nothing.
LogsOnError_Silent(c, l) ==
  /\ open' = open \ {c} /\ ref' = NoConn /\ UNCHANGED dest
  /\ light' = l
  /\ IF retry < MaxRetries THEN retry' = retry + 1 /\ SetTimer(dest[c]) ELSE UNCHANGED retries
  /\ UNCHANGED <<view, mounted, server, pre, rejected, counters>>

\* Mutant: reconnects are not counted.
LogsOnError_Uncounted(c, l) ==
  /\ open' = open \ {c} /\ ref' = NoConn /\ UNCHANGED dest
  /\ SetTimer(dest[c]) /\ light' = l /\ UNCHANGED retry
  /\ UNCHANGED <<view, mounted, server, pre, rejected, counters>>

\* onerror of the log viewer; `l' is the light before it runs.
LogsOnError(c, l) ==
  /\ open' = open \ {c} /\ ref' = NoConn /\ UNCHANGED dest
  /\ IF retry < MaxRetries
     THEN retry' = retry + 1 /\ SetTimer(dest[c]) /\ light' = l
     ELSE light' = "off" /\ UNCHANGED retries
  /\ UNCHANGED <<view, mounted, server, pre, rejected, counters>>

LogsTransportError(c) == view = "logs" /\ c \in open /\ LogsOnError(c, light)

\* An event the server names "error" reaches the listener of that name, which
\* closes the stream, and onerror as well, which plans a reconnect.
LogsServerError(c) ==
  view = "logs" /\ c \in open /\ world = "ssh" /\ LogsOnError(c, "off")

LogsReconnect(s) ==
  /\ view = "logs"
  /\ \/ timer = s /\ timer' = NoServer /\ UNCHANGED lost
     \/ lost[s] > 0 /\ lost' = [lost EXCEPT ![s] = @ - 1] /\ UNCHANGED timer
  /\ Connect(s)
  /\ UNCHANGED <<lpage, pre, retry, rejected, counters>>

LogsUnmount ==
  /\ view = "logs" /\ Act /\ LogsStop
  /\ mounted' = FALSE
  /\ UNCHANGED <<server, pre, rejected>>
-----------------------------------------------------------------------------
(* The monitor. *)

\* stop and start, both of which close what is open; start then asks first.
MonitorStop == ClearTimer /\ open' = CloseRef /\ ref' = NoConn /\ UNCHANGED dest

MonitorStart(s) ==
  /\ MonitorStop
  /\ light' = "connecting"
  /\ pre' = [pre EXCEPT ![s] = @ + 1]

\* The effect on serverId: clean up, then start or stop.
MonitorSelect(s) ==
  /\ view = "monitor" /\ s # server /\ Act
  /\ server' = s
  /\ IF s = NoServer THEN MonitorStop /\ light' = "off" /\ UNCHANGED pre ELSE MonitorStart(s)
  /\ UNCHANGED <<mounted, rejected>>

MonitorRetryButton ==
  /\ view = "monitor" /\ server # NoServer /\ light = "error" /\ Act
  /\ MonitorStart(server)
  /\ UNCHANGED <<mounted, server, rejected>>

\* The preflight goes to the handler that dials first: no server, no stream.
MonitorPreflight(s) ==
  /\ view = "monitor" /\ pre[s] > 0
  /\ pre' = [pre EXCEPT ![s] = @ - 1]
  /\ \/ world # "net" /\ light' = "error" /\ UNCHANGED conns
     \/ world # "ssh" /\ Connect(s) /\ UNCHANGED light
  /\ UNCHANGED <<view, mounted, server, retries, rejected, counters>>

MonitorMetrics(c) ==
  /\ view = "monitor" /\ c \in open /\ world = "ok"
  /\ light' = "live" /\ retry' = 0
  /\ UNCHANGED <<view, mounted, server, pre, conns, timer, lost, rejected, counters>>

\* Mutant: one reconnect too many.
MonitorError_OneTooMany(c) ==
  /\ view = "monitor" /\ c \in open
  /\ open' = open \ {c} /\ ref' = NoConn /\ UNCHANGED dest
  /\ IF retry <= MaxRetries
     THEN retry' = retry + 1 /\ SetTimer(dest[c]) /\ light' = "connecting"
     ELSE light' = "error" /\ UNCHANGED retries
  /\ UNCHANGED <<view, mounted, server, pre, rejected, counters>>

\* onerror of the monitor.  An event the server names "error" comes here too,
\* after its own listener, and what it shows is overwritten.
MonitorError(c) ==
  /\ view = "monitor" /\ c \in open
  /\ open' = open \ {c} /\ ref' = NoConn /\ UNCHANGED dest
  /\ IF retry < MaxRetries
     THEN retry' = retry + 1 /\ SetTimer(dest[c]) /\ light' = "connecting"
     ELSE light' = "error" /\ UNCHANGED retries
  /\ UNCHANGED <<view, mounted, server, pre, rejected, counters>>

\* The timer opens the server of serverIdRef, which stop has emptied.
MonitorReconnect(s) ==
  /\ view = "monitor"
  /\ \/ timer = s /\ timer' = NoServer /\ UNCHANGED lost
     \/ lost[s] > 0 /\ lost' = [lost EXCEPT ![s] = @ - 1] /\ UNCHANGED timer
  /\ IF mounted /\ server # NoServer THEN Connect(server) ELSE UNCHANGED conns
  /\ UNCHANGED <<lpage, pre, retry, rejected, counters>>

MonitorUnmount ==
  /\ view = "monitor" /\ Act
  /\ MonitorStop /\ light' = "off" /\ mounted' = FALSE
  /\ UNCHANGED <<server, pre, rejected>>
-----------------------------------------------------------------------------
(* The container log of a site: `server' is the site's, or NoServer while the
   panel is hidden. *)

\* startStream: the previous fetch is aborted; its catch runs after this handler.
SiteStart(s) ==
  /\ view = "site" /\ s # NoServer /\ Act
  /\ server = NoServer \/ server = s
  /\ server' = s
  /\ Connect(s)
  /\ rejected' = (rejected \/ ref \in open)
  /\ light' = "on"
  /\ UNCHANGED <<mounted, pre, retries>>

SiteHide ==
  /\ view = "site" /\ server # NoServer /\ Act
  /\ server' = NoServer
  /\ open' = CloseRef /\ ref' = NoConn /\ UNCHANGED dest
  /\ rejected' = (rejected \/ ref \in open)
  /\ light' = "off"
  /\ UNCHANGED <<mounted, pre, retries>>

\* The catch does not look whose fetch was aborted.
SiteRejected ==
  /\ view = "site" /\ rejected
  /\ rejected' = FALSE /\ light' = "off"
  /\ UNCHANGED <<view, mounted, server, pre, conns, retries, counters>>

\* A refusal, the end of the body, or a failed read.
SiteStreamEnds(c) ==
  /\ view = "site" /\ c \in open
  /\ open' = open \ {c} /\ light' = "off"
  /\ UNCHANGED <<view, mounted, server, pre, dest, ref, retries, rejected, counters>>

\* The event "close" puts the light out; the body ends on its own.
SiteCloseEvent(c) ==
  /\ view = "site" /\ c \in open /\ light = "on" /\ world # "net"
  /\ light' = "off"
  /\ UNCHANGED <<view, mounted, server, pre, conns, retries, rejected, counters>>

\* Leaving the page stops nothing: the stream is stopped when the panel is hidden.
SiteUnmount ==
  /\ view = "site" /\ Act /\ mounted' = FALSE
  /\ UNCHANGED <<server, light, pre, conns, retries, rejected>>
-----------------------------------------------------------------------------
(* The terminal. *)

\* Another server, or the reconnect button: the terminal is built anew under
\* another key, its predecessor closes its socket.  The badge says "connected" of any
\* server that is selected, whatever becomes of the socket.
TerminalSelect(s) ==
  /\ view = "terminal" /\ Act
  /\ server' = s /\ light' = IF s = NoServer THEN "off" ELSE "on"
  /\ IF s = NoServer THEN open' = CloseRef /\ UNCHANGED <<dest, ref>> ELSE Connect(s)
  /\ UNCHANGED <<mounted, pre, retries, rejected>>

\* A key pressed on a closed socket connects again.
TerminalKey ==
  /\ view = "terminal" /\ server # NoServer /\ ref \notin open /\ Act
  /\ Connect(server)
  /\ UNCHANGED <<mounted, server, light, pre, retries, rejected>>

TerminalCloses(c) ==
  /\ view = "terminal" /\ c \in open
  /\ open' = open \ {c}
  /\ UNCHANGED <<lpage, pre, dest, ref, retries, rejected, counters>>

TerminalUnmount ==
  /\ view = "terminal" /\ Act
  /\ open' = CloseRef /\ mounted' = FALSE
  /\ UNCHANGED <<server, light, pre, dest, ref, retries, rejected>>
-----------------------------------------------------------------------------
WorldChanges ==
  /\ outages < MaxOutages /\ outages' = outages + 1
  /\ world' \in {"ok", "ssh", "net"} \ {world}
  /\ UNCHANGED <<lpage, pre, conns, retries, rejected, acts>>

Logs ==
  \/ \E s \in Server \cup {NoServer} : LogsSelect(s)
  \/ LogsStopButton \/ LogsStart \/ LogsUnmount
  \/ \E s \in Server : LogsPreflight(s) \/ LogsReconnect(s)
  \/ \E c \in Conn : LogsLine(c) \/ LogsTransportError(c) \/ LogsServerError(c)

Monitor ==
  \/ \E s \in Server \cup {NoServer} : MonitorSelect(s)
  \/ MonitorRetryButton \/ MonitorUnmount
  \/ \E s \in Server : MonitorPreflight(s) \/ MonitorReconnect(s)
  \/ \E c \in Conn : MonitorMetrics(c) \/ MonitorError(c)

SiteLog ==
  \/ \E s \in Server : SiteStart(s)
  \/ SiteHide \/ SiteRejected \/ SiteUnmount
  \/ \E c \in Conn : SiteStreamEnds(c) \/ SiteCloseEvent(c)

WebTerminal ==
  \/ \E s \in Server \cup {NoServer} : TerminalSelect(s)
  \/ TerminalKey \/ TerminalUnmount
  \/ \E c \in Conn : TerminalCloses(c)

StreamsNext == Logs \/ Monitor \/ SiteLog \/ WebTerminal \/ WorldChanges

StreamsSpec == StreamsInit /\ [][StreamsNext]_lvars

\* What the browser does of itself: a request is answered or fails, a timer
\* fires, a connection to what does not answer fails.
Answered == \E s \in Server : LogsPreflight(s) \/ MonitorPreflight(s)
Fires == \E s \in Server : LogsReconnect(s) \/ MonitorReconnect(s)
Fails ==
  /\ world # "ok"
  /\ \E c \in Conn :
       \/ world = "net" /\ LogsTransportError(c)
       \/ LogsServerError(c) \/ MonitorError(c) \/ SiteStreamEnds(c) \/ TerminalCloses(c)

StreamsFairSpec ==
  StreamsSpec /\ WF_lvars(Answered) /\ WF_lvars(Fires) /\ WF_lvars(Fails)
-----------------------------------------------------------------------------
StreamsTypeOK ==
  /\ view \in View /\ mounted \in BOOLEAN
  /\ server \in Server \cup {NoServer}
  /\ light \in {"off", "on", "connecting", "live", "error"}
  /\ pre \in [Server -> Nat]
  /\ open \subseteq Conn /\ dest \in [Conn -> Server \cup {NoServer}]
  /\ \A c \in open : dest[c] \in Server
  /\ ref \in Conn \cup {NoConn}
  /\ retry \in 0 .. MaxRetries /\ timer \in Server \cup {NoServer}
  /\ lost \in [Server -> Nat] /\ rejected \in BOOLEAN
  /\ world \in {"ok", "ssh", "net"} /\ acts \in 0 .. MaxActs /\ outages \in 0 .. MaxOutages

\* A page never holds two streams, and the one it holds is the one its reference
\* can close, whatever preflights, lost timers and clicks overlap.  (The answer of a
\* preflight is a stream too; that one is not counted here.)
OneStream == open \subseteq {ref}

\* While a server is selected, a light that promises a stream has something
\* behind it that will change it: a request, a reconnect or a connection.  The
\* light is set in one handler, its source ends in another.  Not so the badge of
\* the terminal: it follows the selection, stays "connected" when the socket has
\* closed, and is left out by name.
LiveHasASource ==
  (mounted /\ view # "terminal" /\ server # NoServer /\ light \in Busy) =>
    \/ open # {} \/ timer # NoServer
    \/ \E s \in Server : pre[s] > 0 \/ lost[s] > 0

\* When what the stream needs stays away for good, the page comes to rest: no
\* request, no reconnect and no connection is left, because the retry counter
\* is only reset by data.  Not so for the log viewer of a server that is out of
\* reach, where the handler's greeting is data.
StreamsGiveUp ==
  <>[](world = "net" \/ (world = "ssh" /\ view # "logs"))
    => <>[](/\ open = {} /\ timer = NoServer
            /\ \A s \in Server : pre[s] = 0 /\ lost[s] = 0)

\* The log viewer says "Stop stream on unmount.": once it has been left, and
\* what it started has been heard of, nothing is open.
StopsOnUnmount == ~mounted => open = {}
=============================================================================
