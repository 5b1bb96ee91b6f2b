-------------------------------- MODULE Drafts --------------------------------
(***************************************************************************)
(* The forms and editors of the frontend: what a form holds while the user *)
(* types, the query behind it delivers, and saves are under way.  One form *)
(* is looked at, with one row behind it.  Texts are numbers: each thing    *)
(* typed, by this user or by another, is a new one; the text of an empty   *)
(* form is Blank.                                                          *)
(*   settings  the notification settings                                   *)
(*   backup    the schedule panel of the backups page                      *)
(*   sitePage  the edit dialog on the page of a site: its row is the query *)
(*   siteTable the edit dialog of the list of sites: its row is the one    *)
(*             that was clicked                                            *)
(*   server    the edit dialog of the list of servers, likewise            *)
(*   nginx     the editor of a vhost                                       *)
(*   file      the editor of a file, which loads once and has no query     *)
(***************************************************************************)
EXTENDS Naturals, Sequences, QueryCache

CONSTANTS
  Form,       \* the forms considered
  MaxTexts,   \* bound: texts written by anybody
  MaxSaves,   \* bound: saves
  MaxOpens,   \* bound: times the form is opened
  MaxMishaps  \* bound: requests that fail, and changes of the list of servers

AllForms == {"settings", "backup", "sitePage", "siteTable", "server", "nginx", "file"}

ASSUME DraftsAssumption ==
  /\ Form \subseteq AllForms /\ Form # {}
  /\ MaxTexts \in Nat \ {0} /\ MaxSaves \in Nat /\ MaxOpens \in Nat /\ MaxMishaps \in Nat

\* Forms that follow what their query delivers while they are open.
Live == {"settings", "backup", "sitePage", "nginx"}
\* Dialogs that stay mounted while closed, and fill themselves when they open.
SiteForms == {"sitePage", "siteTable"}
Dialogs == SiteForms \cup {"server"}
\* Dialogs that belong to a table, which is not rendered while its query is in error.
Tables == {"siteTable", "server"}
\* Forms that are unmounted when they are closed.
Editors == {"nginx", "file"}
-----------------------------------------------------------------------------
VARIABLES
  form,    \* the form
  formOpen,
  stored,  \* the text in the database, or on the server
  query,   \* the query behind the form; for "file" its load
  clicked, \* the row a dialog of a table was opened with
  draft,   \* the text in the form
  typed,   \* it is the user's, typed since the form was last filled
  based,   \* history: the form was filled from a row since it was opened
  saves,   \* saves[i]: the i-th save
  dirty,   \* file: unsaved changes
  lists,   \* history: how often the list of servers has changed under the form
  texts, opens, mishaps

fill == <<draft, typed, based, dirty>>
dbounds == <<lists, texts, opens, mishaps>>
dvars == <<form, formOpen, stored, query, clicked, fill, saves, dbounds>>

Text == 0 .. MaxTexts
Blank == 0

\* What the effect of the form puts into it.
Row == IF form \in Tables THEN clicked ELSE query.data

Fill(text) == draft' = text /\ typed' = FALSE /\ based' = TRUE /\ dirty' = FALSE
Clear == draft' = Blank /\ typed' = FALSE /\ based' = FALSE /\ dirty' = FALSE

\* The table is gone for an error message, and its dialog with it.
TableGone == form \in Tables /\ query.failed

\* The settings and the schedule start with a page whose query is under way, the
\* others with a list that was loaded.
DraftsInit ==
  /\ form \in Form
  /\ formOpen = (form = "settings")
  /\ stored = 1 /\ clicked = Blank
  /\ query = IF form \in Dialogs THEN Deliver(Answer(Ask(Empty), 1))
             ELSE IF form \in Editors THEN Empty ELSE Ask(Empty)
  /\ draft = Blank /\ typed = FALSE /\ based = FALSE /\ dirty = FALSE
  /\ saves = <<>>
  /\ lists = 0 /\ texts = 1 /\ opens = 0 /\ mishaps = 0

Opening ==
  /\ ~formOpen /\ ~TableGone /\ formOpen' = TRUE
  /\ opens < MaxOpens /\ opens' = opens + 1
  /\ UNCHANGED <<form, stored, saves, lists, texts, mishaps>>

\* The panel is only shown: its state is the page's.
OpenPanel ==
  /\ form = "backup" /\ Opening
  /\ UNCHANGED <<query, clicked, fill>>

OpenDialog ==
  /\ form \in Dialogs /\ Opening
  /\ clicked' = query.data
  /\ Fill(query.data)
  /\ UNCHANGED query

\* The modal mounts with what the cache has of the file.
OpenVhost ==
  /\ form = "nginx" /\ Opening
  /\ query' \in Mounted(query)
  /\ IF query.data # Nothing THEN Fill(query.data)
     ELSE Clear
  /\ UNCHANGED clicked

OpenFile ==
  /\ form = "file" /\ Opening
  /\ query' = Ask(Empty) /\ Clear
  /\ UNCHANGED clicked

\* The close button, Escape or a click beside the dialog; saves go on.
CloseForm ==
  /\ formOpen /\ ~TableGone /\ form # "settings" /\ formOpen' = FALSE
  /\ UNCHANGED <<form, stored, query, clicked, fill, saves, dbounds>>

\* isLoading of the query, loading of the file.
Loading == query.data = Nothing /\ query.flight # "idle"

NewText == texts < MaxTexts /\ texts' = texts + 1

\* The editors are only there once loading is over.
TypeText ==
  /\ formOpen /\ ~TableGone /\ (form \in Editors => ~Loading)
  /\ NewText /\ draft' = texts'
  /\ typed' = TRUE /\ dirty' = TRUE
  /\ UNCHANGED <<form, formOpen, stored, query, clicked, based, saves,
                 lists, opens, mishaps>>

\* isPending or saving: state of the component, which an editor loses when closed and a
\* dialog when its table goes.
Unmounted == 0
Saving ==
  \E i \in DOMAIN saves :
    /\ saves[i].state \in {"sent", "done"}
    /\ form \in Editors => saves[i].mount = opens
    /\ form \in Tables => saves[i].mount # Unmounted

Send ==
  /\ formOpen /\ ~TableGone /\ Len(saves) < MaxSaves
  /\ saves' = Append(saves, [text |-> draft, state |-> "sent", mount |-> opens,
                             blind |-> ~based /\ ~query.failed])
  /\ UNCHANGED <<form, formOpen, stored, query, clicked, fill, dbounds>>

\* Mutant: the button is not disabled while the form is loading.
Save_WhileLoading == ~Saving /\ Send

\* The save button.
Save ==
  /\ ~Saving
  /\ form \in {"settings", "nginx", "file"} => ~Loading
  /\ Send

\* The editor's own Ctrl+S asks for neither.
SaveByKey == form = "file" /\ ~Loading /\ Send

SaveApplied(i) ==
  /\ saves[i].state = "sent"
  /\ saves' = [saves EXCEPT ![i].state = "done"]
  /\ stored' = saves[i].text
  /\ UNCHANGED <<form, formOpen, query, clicked, fill, dbounds>>

Mishap == mishaps < MaxMishaps /\ mishaps' = mishaps + 1

\* Refused, or its answer is lost: the form says so and stays as it is.
SaveFails(i) ==
  /\ saves[i].state \in {"sent", "done"} /\ Mishap
  /\ saves' = [saves EXCEPT ![i].state = "failed"]
  /\ UNCHANGED <<form, formOpen, stored, query, clicked, fill, lists, texts, opens>>

\* The answer.  It closes the panel and the dialogs, whatever they were opened for
\* since; it clears the editor's mark, whatever was typed since.  The lists and
\* the settings are invalidated, the query of a site's page and the content of a
\* vhost are not.
SaveTold(i) ==
  /\ saves[i].state = "done"
  /\ saves' = [saves EXCEPT ![i].state = "told"]
  /\ formOpen' = (formOpen /\ form \in {"settings"} \cup Editors)
  /\ query' = IF form \in {"settings", "backup", "siteTable", "server"}
              THEN Invalidate(query, TRUE) ELSE query
  /\ dirty' = (dirty /\ ~(form = "file" /\ saves[i].mount = opens))
  /\ UNCHANGED <<form, stored, clicked, draft, typed, based, dbounds>>

\* Another user, or the worker, which writes columns of the same row.
OthersWrite ==
  /\ NewText /\ stored' = texts'
  /\ UNCHANGED <<form, formOpen, query, clicked, fill, saves, lists, opens, mishaps>>

IsMounted == form \in Editors => formOpen

\* A poll, where there is one, or a focus of the window.
AskAgain ==
  /\ form # "file" /\ IsMounted
  /\ query' = Fetch(query)
  /\ UNCHANGED <<form, formOpen, stored, clicked, fill, saves, dbounds>>

RowAnswered ==
  /\ query.flight = "asked"
  /\ query' = Answer(query, stored)
  /\ UNCHANGED <<form, formOpen, stored, clicked, fill, saves, dbounds>>

\* Mutant: every answer counts as a new one.
RowDelivered_Always ==
  /\ query.flight = "answered"
  /\ query' = Deliver(query)
  /\ IF IsMounted /\ form \in Live \cup {"file"} THEN Fill(query.got) ELSE UNCHANGED fill
  /\ UNCHANGED <<form, formOpen, stored, clicked, saves, dbounds>>

\* An answer equal to the one before keeps its identity, and effects do not run.  With a
\* table its dialog comes back, still open, and fills itself from the row that was clicked.
RowDelivered ==
  /\ query.flight = "answered"
  /\ query' = Deliver(query)
  /\ IF IsMounted /\ query.got # query.data /\ form \in Live \cup {"file"} THEN Fill(query.got)
     ELSE IF TableGone /\ formOpen THEN Fill(clicked) ELSE UNCHANGED fill
  /\ UNCHANGED <<form, formOpen, stored, clicked, saves, dbounds>>

\* A table goes with what was typed into its dialog; other forms stay as they are.
RowFails ==
  /\ query.flight # "idle" /\ Mishap
  /\ query' = Fail(query)
  /\ IF form \in Tables
     THEN /\ Clear
          /\ saves' = [i \in DOMAIN saves |-> [saves[i] EXCEPT !.mount = Unmounted]]
     ELSE UNCHANGED <<fill, saves>>
  /\ UNCHANGED <<form, formOpen, stored, clicked, lists, texts, opens>>

\* The effect of the site form also depends on the list of servers.
ServersChange ==
  /\ form \in SiteForms /\ formOpen /\ ~TableGone
  /\ Mishap /\ lists' = lists + 1
  /\ Fill(Row)
  /\ UNCHANGED <<form, formOpen, stored, query, clicked, saves, texts, opens>>

DraftsNext ==
  \/ OpenPanel \/ OpenDialog \/ OpenVhost \/ OpenFile \/ CloseForm
  \/ TypeText \/ Save \/ SaveByKey
  \/ \E i \in DOMAIN saves : SaveApplied(i) \/ SaveFails(i) \/ SaveTold(i)
  \/ OthersWrite \/ ServersChange
  \/ AskAgain \/ RowAnswered \/ RowDelivered \/ RowFails

DraftsSpec == DraftsInit /\ [][DraftsNext]_dvars
-----------------------------------------------------------------------------
DraftsTypeOK ==
  /\ form \in Form /\ formOpen \in BOOLEAN
  /\ stored \in Text /\ clicked \in Text /\ draft \in Text
  /\ query \in Entries(Text)
  /\ typed \in BOOLEAN /\ based \in BOOLEAN /\ dirty \in BOOLEAN
  /\ Len(saves) \in 0 .. MaxSaves
  /\ \A i \in DOMAIN saves :
       saves[i] \in [text : Text, state : {"sent", "done", "told", "failed"},
                     mount : 0 .. MaxOpens, blind : BOOLEAN]
  /\ lists \in 0 .. MaxMishaps /\ texts \in 0 .. MaxTexts
  /\ opens \in 0 .. MaxOpens /\ mishaps \in 0 .. MaxMishaps

\* What the user has typed into a form that stays open is not replaced by a poll or a focus
\* that brings the row the form has, nor by the user's own save.  It is when the form follows
\* its query and the query brings another row, be it another's or the one that the refetch
\* after a save brings; when the list of servers under a site's form changes; and when the
\* query of a table fails, which takes its open dialog from the screen.  The code loses what
\* was typed in these three cases.
TypedTextStands ==
  [][formOpen /\ formOpen' /\ typed /\ ~typed' =>
       \/ form \in Live /\ query'.data # query.data
       \/ form \in SiteForms /\ lists' # lists
       \/ TableGone']_dvars

\* Nothing is saved over a row that the form was never filled from, unless the row
\* could not be loaded.  The schedule of the backups does without this care.
NoBlindSave == form # "backup" => \A i \in DOMAIN saves : ~saves[i].blind
=============================================================================
