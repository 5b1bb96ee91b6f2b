------------------------------ MODULE QueryCache ------------------------------
(***************************************************************************)
(* What the pages rely on of the query library (components/providers.tsx   *)
(* configures it), as operators on the entry of one query.  Answers are    *)
(* numbered by the writes they contain: an entry holds the number `data',  *)
(* or Nothing before the first answer.  The library is modelled from how   *)
(* the pages use it:                                                       *)
(*   - at most one request per query counts; what an earlier, cancelled    *)
(*     request answers is dropped;                                         *)
(*   - a poll, a mount or a focus joins a request in flight;               *)
(*   - an invalidation or a refetch() replaces it, unless there is no data *)
(*     yet: then it joins the first load;                                  *)
(*   - an answer makes the entry fresh, whatever was invalidated while it  *)
(*     was under way;                                                      *)
(*   - after a failure with data the entry is in error until an answer     *)
(*     comes, also while it is asked again; one without data is loading.   *)
(***************************************************************************)
EXTENDS Integers

Nothing == -1

Entries(Version) ==
  [data : Version \cup {Nothing},
   flight : {"idle", "asked", "answered"},
   got : Version \cup {Nothing},      \* what a request that was answered read
   fresh : BOOLEAN,                   \* answered and not invalidated since
   failed : BOOLEAN]                  \* the last request failed, retry included

Empty ==
  [data |-> Nothing, flight |-> "idle", got |-> Nothing, fresh |-> FALSE, failed |-> FALSE]

Ask(e) ==
  [e EXCEPT !.flight = "asked", !.got = Nothing, !.failed = e.failed /\ e.data # Nothing]

Fetch(e) == IF e.flight = "idle" THEN Ask(e) ELSE e

Refetch(e) == IF e.flight # "idle" /\ e.data = Nothing THEN e ELSE Ask(e)

\* Entries nobody looks at are only marked.
Invalidate(e, active) ==
  LET marked == [e EXCEPT !.fresh = FALSE]
  IN  IF active THEN Refetch(marked) ELSE marked

\* The mount of a component that shows the query: fresh answers are taken as they
\* are until staleTime is over, which may be at any moment.
Mounted(e) == {IF e.fresh THEN e ELSE Fetch(e), Fetch(e)}

Answer(e, version) == [e EXCEPT !.flight = "answered", !.got = version]

Deliver(e) ==
  [data |-> e.got, flight |-> "idle", got |-> Nothing, fresh |-> TRUE, failed |-> FALSE]

Fail(e) == [e EXCEPT !.flight = "idle", !.got = Nothing, !.failed = TRUE]

AtRest(e) == e.flight = "idle" /\ ~e.failed
=============================================================================
