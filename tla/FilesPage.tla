------------------------------- MODULE FilesPage -------------------------------
(***************************************************************************)
(* The file manager page.  The directory and the server are in the URL,    *)
(* the listing is a query keyed by both; ticks, dialogs and pending        *)
(* requests are state of the page, which outlives a change of the URL.     *)
(* Items are named relative to their directory.                            *)
(***************************************************************************)
EXTENDS FiniteSets, Sequences, QueryCache

CONSTANTS
  Dir,        \* [path, server] pairs
  Name,       \* names of items
  Files,      \* Files[d]: what directory d holds at first
  Kind,       \* kinds of requests considered
  MaxReqs,    \* bound: requests that change something
  MaxMoves    \* bound: changes of the URL, and requests that fail

ASSUME FilesAssumption ==
  /\ IsFiniteSet(Name)
  /\ Dir # {} /\ \A d \in Dir : d = [path |-> d.path, server |-> d.server]
  /\ Files \in [Dir -> SUBSET Name]
  /\ Kind \subseteq {"rename", "mkdir", "compress", "delete", "extract", "upload"}
  /\ MaxReqs \in Nat /\ MaxMoves \in Nat

VARIABLES
  here,      \* the directory in the URL
  holds,     \* holds[d]: what d has held, oldest first; an answer is an index
  listing,   \* listing[d]: the query of d in the cache
  ticked,    \* selected
  dialog,    \* the dialog that is open, NoDialog if there is none
  captured,  \* the directory that handleFiles captured
  reqs,      \* requests under way
  told,      \* history: the newest change of `here' the user was told of
  sent, moves

urls == <<here, captured>>
fbounds == <<sent, moves>>
fvars == <<urls, holds, listing, ticked, dialog, reqs, told, fbounds>>

\* What is asked before it is sent.
Asking == Kind \cap {"rename", "mkdir", "compress", "delete"}

Nowhere == [path |-> "none", server |-> "none"]
NoDialog == [kind |-> "none", names |-> {}, of |-> Nowhere]

FilesInit ==
  /\ here \in Dir
  /\ captured = here
  /\ holds = [d \in Dir |-> <<Files[d]>>]
  /\ listing = [d \in Dir |-> IF d = here THEN Ask(Empty) ELSE Empty]
  /\ ticked = {} /\ dialog = NoDialog
  /\ reqs = {} /\ told = 0
  /\ sent = 0 /\ moves = 0

Current(d) == holds[d][Len(holds[d])]

\* items: what is listed on the screen.
Items == IF listing[here].data = Nothing THEN {} ELSE holds[here][listing[here].data]

\* Dialogs cover the page.
Free == dialog.kind = "none"
-----------------------------------------------------------------------------
(* Moving around *)

\* The page at another URL.  Ticks, and what handleFiles captured, are renewed when
\* the path differs, not when only the server does.  A dialog stays.
MoveTo(d) ==
  /\ d # here /\ moves < MaxMoves /\ moves' = moves + 1
  /\ here' = d
  /\ IF d.path = here.path THEN UNCHANGED <<ticked, captured>>
     ELSE ticked' = {} /\ captured' = d
  /\ \E e \in Mounted(listing[d]) : listing' = [listing EXCEPT ![d] = e]
  /\ told' = 0
  /\ UNCHANGED <<holds, dialog, reqs, sent>>

\* A folder, a breadcrumb or the arrow.
navigate(d) == Free /\ d.server = here.server /\ MoveTo(d)

handleServerChange(d) == Free /\ d.path = "/" /\ d.server # here.server /\ MoveTo(d)

\* Back and Forward lead to any URL of the browser's history, also behind a dialog.
BackOrForward(d) == MoveTo(d)
-----------------------------------------------------------------------------
(* Ticking *)

\* With shift, what lies between this item and the last one follows it.
toggleItem(item, range) ==
  /\ Free /\ item \in range /\ range \subseteq Items
  /\ ticked' = IF item \in ticked THEN ticked \ range ELSE ticked \cup range
  /\ UNCHANGED <<urls, holds, listing, dialog, reqs, told, fbounds>>

\* It compares sizes: ticks on names that are no longer listed count.
toggleAll ==
  /\ Free /\ Items # {}
  /\ ticked' = IF Cardinality(ticked) = Cardinality(Items) THEN {} ELSE Items
  /\ UNCHANGED <<urls, holds, listing, dialog, reqs, told, fbounds>>

\* Mutant: ticks are not compared with what is listed.
selectedItems_Unlisted == ticked

\* The ticks that mean something.
selectedItems == ticked \cap Items
-----------------------------------------------------------------------------
(* Dialogs and requests *)

OpenAsk(kind, names) ==
  /\ Free /\ kind \in Kind
  /\ dialog' = [kind |-> kind, names |-> names, of |-> here]
  /\ UNCHANGED <<urls, holds, listing, ticked, reqs, told, fbounds>>

NewFolderButton == OpenAsk("mkdir", {})
ContextMenuItem(kind, n) ==
  kind \in {"rename", "compress", "delete"} /\ n \in Items /\ OpenAsk(kind, {n})
FloatingBarButton(kind) ==
  kind \in {"compress", "delete"} /\ selectedItems # {} /\ OpenAsk(kind, selectedItems)

Cancel ==
  /\ ~Free /\ dialog' = NoDialog
  /\ UNCHANGED <<urls, holds, listing, ticked, reqs, told, fbounds>>

\* Items of `dir' are named, something in `into' is written.
Request(kind, names, dir, into, moved) ==
  /\ kind \in Kind /\ sent < MaxReqs /\ sent' = sent + 1
  /\ reqs' = reqs \cup {[no |-> sent, kind |-> kind, names |-> names, dir |-> dir, into |-> into,
                         moved |-> moved, left |-> names, failed |-> FALSE, wrote |-> 0]}
  /\ UNCHANGED <<urls, holds, listing, ticked, dialog, told, moves>>

Unanswered(kind) == \E r \in reqs : r.kind = kind /\ ~r.failed

\* The button of the dialog is disabled while a request of its kind is pending; the
\* Enter key is not, which only the confirmation of a delete does without.  Paths
\* are absolute, the server is that of the URL: what a dialog that was opened
\* elsewhere sends names the directory it was opened in, on the server shown now.  A new
\* folder, and an archive wherever its items are, goes into the directory shown now.
Confirm ==
  /\ ~Free
  /\ dialog.kind = "delete" => ~Unanswered("delete")
  /\ \E d \in Dir, names \in SUBSET Name :
       /\ d.server = here.server
       /\ d.path = IF dialog.kind = "mkdir" THEN here.path ELSE dialog.of.path
       /\ IF dialog.kind = "mkdir" THEN Cardinality(names) = 1 ELSE names = dialog.names
       /\ Request(dialog.kind, names, d, IF dialog.kind = "compress" THEN here ELSE d,
                  dialog.of # here)

\* An archive of the listing, extracted beside itself at once.
Extract(n) == Free /\ n \in Items /\ Request("extract", {n}, here, here, FALSE)

\* handleFiles, by the button (disabled while uploading) or by a drop (never).
handleFiles(n) == Free /\ Request("upload", {n}, captured, captured, captured # here)
-----------------------------------------------------------------------------
(* Answers *)

Write(d, names) == holds' = [holds EXCEPT ![d] = Append(@, names)]

\* What is still to be done when item n is.
Others(r, n) == IF r.kind = "delete" THEN r.left \ {n} ELSE {}

\* One item is dealt with: a delete is a request for each of its items, and they
\* run side by side.  What a rename or an archive is called is up to the user.
Works(r, n) ==
  LET now == Current(r.dir)
  IN  /\ n \in r.left
      /\ \/ r.kind = "delete" /\ Write(r.dir, now \ {n})
         \/ r.kind \in {"mkdir", "upload"} /\ Write(r.dir, now \cup {n})
         \/ r.kind = "rename" /\ n \in now
              /\ \E m \in Name \ {n} : Write(r.dir, (now \ {n}) \cup {m})
         \/ r.kind \in {"compress", "extract"} /\ r.names \subseteq now
              /\ \E m \in Name : Write(r.into, Current(r.into) \cup {m})
      /\ reqs' = (reqs \ {r}) \cup
                   {[r EXCEPT !.left = Others(r, n), !.wrote = Len(holds'[r.into])]}
      /\ UNCHANGED <<urls, listing, ticked, dialog, told, fbounds>>

\* One item fails, or an answer is lost, and the promise of all of them is
\* rejected; the others go on.  A failed delete closes its dialog; nothing is
\* listed again.
RequestFails(r) ==
  /\ ~r.failed /\ moves < MaxMoves /\ moves' = moves + 1
  /\ \E n \in r.names :
       reqs' = (reqs \ {r}) \cup
               {f \in {[r EXCEPT !.failed = TRUE, !.left = Others(r, n)]} : f.left # {}}
  /\ dialog' = IF r.kind = "delete" /\ dialog.kind = "delete" THEN NoDialog ELSE dialog
  /\ UNCHANGED <<urls, holds, listing, ticked, told, sent>>

\* Mutant: a rename is not followed by another listing.
RequestTold_RenameUnlisted(r) ==
  LET asked == IF r.kind = "upload" THEN r.into ELSE here
  IN  /\ ~r.failed /\ r.left = {}
      /\ reqs' = reqs \ {r}
      /\ listing' = IF r.kind = "rename" THEN listing
                    ELSE [listing EXCEPT ![asked] = Invalidate(@, asked = here)]
      /\ dialog' = IF r.kind = dialog.kind THEN NoDialog ELSE dialog
      /\ ticked' = IF r.kind \in {"delete", "compress"} THEN {} ELSE ticked
      /\ told' = IF r.into = here /\ listing[here].data # Nothing /\ r.wrote > told
                 THEN r.wrote ELSE told
      /\ UNCHANGED <<urls, holds, fbounds>>

\* onSuccess: the callbacks of a mutation are those of the latest render, so the
\* listing on the screen is asked again; handleFiles asks for the one it captured.
\* A dialog of that kind closes, whatever it was opened for since.
RequestTold(r) ==
  LET asked == IF r.kind = "upload" THEN r.into ELSE here
  IN  /\ ~r.failed /\ r.left = {}
      /\ reqs' = reqs \ {r}
      /\ listing' = [listing EXCEPT ![asked] = Invalidate(@, asked = here)]
      /\ dialog' = IF r.kind = dialog.kind THEN NoDialog ELSE dialog
      /\ ticked' = IF r.kind \in {"delete", "compress"} THEN {} ELSE ticked
      /\ told' = IF r.into = here /\ listing[here].data # Nothing /\ r.wrote > told
                 THEN r.wrote ELSE told
      /\ UNCHANGED <<urls, holds, fbounds>>

\* The window gets the focus.
ListAgain ==
  /\ listing' = [listing EXCEPT ![here] = Fetch(@)]
  /\ UNCHANGED <<urls, holds, ticked, dialog, reqs, told, fbounds>>

ListAnswered(d) ==
  /\ listing[d].flight = "asked"
  /\ listing' = [listing EXCEPT ![d] = Answer(@, Len(holds[d]))]
  /\ UNCHANGED <<urls, holds, ticked, dialog, reqs, told, fbounds>>

ListDelivered(d) ==
  /\ listing[d].flight = "answered"
  /\ listing' = [listing EXCEPT ![d] = Deliver(@)]
  /\ UNCHANGED <<urls, holds, ticked, dialog, reqs, told, fbounds>>

ListFails(d) ==
  /\ listing[d].flight # "idle" /\ moves < MaxMoves /\ moves' = moves + 1
  /\ listing' = [listing EXCEPT ![d] = Fail(@)]
  /\ UNCHANGED <<urls, holds, ticked, dialog, reqs, told, sent>>

FilesNext ==
  \/ \E d \in Dir : navigate(d) \/ handleServerChange(d) \/ BackOrForward(d)
  \/ \E item \in Name, range \in SUBSET Name : toggleItem(item, range)
  \/ toggleAll \/ NewFolderButton
  \/ \E kind \in Asking : FloatingBarButton(kind) \/ \E n \in Name : ContextMenuItem(kind, n)
  \/ Cancel \/ Confirm
  \/ \E n \in Name : Extract(n) \/ handleFiles(n)
  \/ \E r \in reqs : RequestFails(r) \/ RequestTold(r) \/ \E n \in Name : Works(r, n)
  \/ ListAgain
  \/ \E d \in Dir : ListAnswered(d) \/ ListDelivered(d) \/ ListFails(d)

FilesSpec == FilesInit /\ [][FilesNext]_fvars
-----------------------------------------------------------------------------
Index == 1 .. 1 + MaxReqs * Cardinality(Name)

FilesTypeOK ==
  /\ here \in Dir
  /\ captured \in Dir /\ captured.path = here.path
  /\ \A d \in Dir : Len(holds[d]) \in Index
                    /\ \A v \in DOMAIN holds[d] : holds[d][v] \subseteq Name
  /\ listing \in [Dir -> Entries(Index)]
  /\ ticked \subseteq Name
  /\ dialog \in [kind : Asking \cup {"none"}, names : SUBSET Name, of : Dir \cup {Nowhere}]
  /\ sent \in 0 .. MaxReqs
  /\ \A r \in reqs :
       r \in [no : 0 .. MaxReqs - 1, kind : Kind, names : SUBSET Name, dir : Dir,
              into : Dir, moved : BOOLEAN, left : SUBSET Name, failed : BOOLEAN, wrote : Index \cup {0}]
  /\ told \in Index \cup {0}
  /\ moves \in 0 .. MaxMoves

\* What is renamed, packed, extracted or deleted was once in the directory it is
\* looked for in, unless the URL changed behind the dialog: ticks, which survive a
\* change of server and the end of the file they were put on, do not get through.
OnlyListedItems ==
  \A r \in reqs :
    r.kind \notin {"mkdir", "upload"} /\ ~r.moved =>
      \E v \in DOMAIN holds[r.dir] : r.names \subseteq holds[r.dir][v]

\* A listing at rest shows every change of its directory the user was told of while
\* looking at it, however requests, moves and listings overlapped.
ListingUpToDate == AtRest(listing[here]) => listing[here].data >= told
=============================================================================
