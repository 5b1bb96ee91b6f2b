-------------------------------- MODULE Panels --------------------------------
(***************************************************************************)
(* The pages of the frontend that show the answer of a query and offer     *)
(* operations that change it: lists, cards and tables.  A panel is a query *)
(* that a page shows, with the operations the page has for it.  For an     *)
(* operation the code decides whether the query is invalidated once it has *)
(* succeeded, and whether it can be started again while it is pending.     *)
(* What can go wrong is that the user is told of a success and goes on     *)
(* looking at an answer from before it.                                    *)
(***************************************************************************)
EXTENDS Naturals, Sequences, QueryCache

CONSTANTS
  Panel,      \* the panels considered
  MaxWrites,  \* bound: operations started
  MaxUpsets   \* bound: requests that fail, changes made by workers or by others,
              \* and times the page is left

\* An operation: whether it changes the answer of the panel's query, whether it
\* invalidates the query when it has succeeded, and whether its button is
\* disabled while it is pending.
Op(name, writes, refreshes, guarded) ==
  [name |-> name, writes |-> writes, refreshes |-> refreshes, guarded |-> guarded]
-----------------------------------------------------------------------------
(* The operations.  A request that is only accepted (a deploy, a renewal, a
   provisioning run) writes nothing itself: what its worker does later is
   WorkerWrites. *)

CreateServer == Op("CreateServer", TRUE, TRUE, TRUE)
UpdateServer == Op("UpdateServer", TRUE, TRUE, TRUE)
DeleteServer == Op("DeleteServer", TRUE, TRUE, TRUE)
ConnectServer == Op("ConnectServer", TRUE, TRUE, TRUE)
ProvisionServer == Op("ProvisionServer", FALSE, TRUE, TRUE)

CreateSite == Op("CreateSite", TRUE, TRUE, TRUE)
UpdateSite == Op("UpdateSite", TRUE, TRUE, TRUE)
DeleteSite == Op("DeleteSite", TRUE, TRUE, TRUE)
DeploySite == Op("DeploySite", FALSE, TRUE, TRUE)

\* The page of one site uses the same hooks, which invalidate the list of sites
\* and leave the page's own query ["site", id] alone.
EditOnSitePage == Op("EditOnSitePage", TRUE, FALSE, TRUE)
DeployOnSitePage == Op("DeployOnSitePage", FALSE, FALSE, TRUE)

RenewSSL == Op("RenewSSL", FALSE, TRUE, TRUE)
RollbackSite == Op("RollbackSite", TRUE, TRUE, TRUE)

\* The query is asked again two seconds after the answer, which is one more Poll.
RestartContainer == Op("RestartContainer", TRUE, FALSE, TRUE)

\* Mutant: a saved variable is not listed again.
UpsertEnv_NotListed == Op("UpsertEnv", TRUE, FALSE, FALSE)

\* The forms and buttons of these two cards are never disabled.
UpsertEnv == Op("UpsertEnv", TRUE, TRUE, FALSE)
DeleteEnv == Op("DeleteEnv", TRUE, TRUE, FALSE)
AddAlias == Op("AddAlias", TRUE, TRUE, FALSE)
RemoveAlias == Op("RemoveAlias", TRUE, TRUE, FALSE)

InviteUser == Op("InviteUser", TRUE, TRUE, TRUE)
UpdateUserRole == Op("UpdateUserRole", TRUE, TRUE, TRUE)
DeleteUser == Op("DeleteUser", TRUE, TRUE, TRUE)

\* The Enter key starts another one whatever is pending.
CreateToken == Op("CreateToken", TRUE, TRUE, FALSE)
RevokeToken == Op("RevokeToken", TRUE, TRUE, TRUE)

TriggerBackup == Op("TriggerBackup", TRUE, TRUE, TRUE)

\* The wizard creates and connects a server without the hooks.
WizardAddServer == Op("WizardAddServer", TRUE, FALSE, TRUE)
WizardConnect == Op("WizardConnect", TRUE, FALSE, TRUE)

\* Closing it sends nothing; what it does is what an answer does elsewhere.
WizardDone == Op("WizardDone", FALSE, TRUE, FALSE)

\* Here too the Enter key asks for nothing.  A certificate is not followed by another
\* list, which says nothing of certificates.
CreateVhost == Op("CreateVhost", TRUE, TRUE, FALSE)
EnableVhost == Op("EnableVhost", TRUE, TRUE, TRUE)
DisableVhost == Op("DisableVhost", TRUE, TRUE, TRUE)
DeleteVhost == Op("DeleteVhost", TRUE, TRUE, TRUE)
IssueCert == Op("IssueCert", FALSE, FALSE, TRUE)
-----------------------------------------------------------------------------
(* The panels: the query, whether it is polled, whether a button of the page
   asks for it again, and the operations. *)

Show(query, polled, button, ops) ==
  [query |-> query, polled |-> polled, button |-> button, ops |-> ops]

ServersPage == Show("servers", TRUE, TRUE, {CreateServer})
ServersTable ==
  Show("servers", TRUE, FALSE, {ConnectServer, ProvisionServer, UpdateServer, DeleteServer})
SitesPage == Show("sites", TRUE, TRUE, {CreateSite})
SitesTable == Show("sites", TRUE, FALSE, {DeploySite, UpdateSite, DeleteSite})

\* The page of one server asks for the list of servers and does not poll it.
ServerHeader == Show("servers", FALSE, FALSE, {ConnectServer, ProvisionServer})
ServerStats == Show("server-stats", TRUE, TRUE, {})

SiteHeader == Show("site", TRUE, TRUE, {EditOnSitePage, DeployOnSitePage})
SSLCard == Show("site-ssl", TRUE, FALSE, {RenewSSL})
\* Mutant: the container's status is not polled.
ContainerCard_Unpolled == Show("container", FALSE, FALSE, {RestartContainer})
ContainerCard == Show("container", TRUE, FALSE, {RestartContainer})
DeploysTab == Show("container", TRUE, FALSE, {RollbackSite})
EnvCard == Show("env", FALSE, FALSE, {UpsertEnv, DeleteEnv})
AliasCard == Show("site-domains", FALSE, FALSE, {AddAlias, RemoveAlias})

UsersPage == Show("users", FALSE, FALSE, {InviteUser, UpdateUserRole, DeleteUser})
TokensSection == Show("api-tokens", FALSE, FALSE, {CreateToken, RevokeToken})
BackupsPage == Show("backups", TRUE, FALSE, {TriggerBackup})
Dashboard == Show("servers", TRUE, TRUE, {WizardAddServer, WizardConnect, WizardDone})
NginxPage ==
  Show("nginx-vhosts", FALSE, TRUE, {CreateVhost, EnableVhost, DisableVhost, DeleteVhost, IssueCert})

AllPanels ==
  {ServersPage, ServersTable, SitesPage, SitesTable, ServerHeader, ServerStats, SiteHeader,
   SSLCard, ContainerCard, DeploysTab, EnvCard, AliasCard, UsersPage, TokensSection,
   BackupsPage, Dashboard, NginxPage}

ASSUME PanelsAssumption ==
  /\ Panel \subseteq AllPanels /\ Panel # {}
  /\ MaxWrites \in Nat /\ MaxUpsets \in Nat
-----------------------------------------------------------------------------
VARIABLES
  panel,    \* the panel that is looked at
  shown,    \* FALSE while another page is open
  entry,    \* its query in the cache
  version,  \* how many writes were made to what the query answers
  muts,     \* muts[i]: the i-th operation that was started
  owed,     \* history: the newest write the user was told of, of those on the screen
  upsets

pvars == <<panel, shown, entry, version, muts, owed, upsets>>

Version == 0 .. MaxWrites + MaxUpsets

Upset == upsets < MaxUpsets /\ upsets' = upsets + 1

\* "sent", then "done" by the server, then "told" to the page.
Mutations ==
  [op : panel.ops, state : {"sent", "done", "told", "refused"}, wrote : Version]

PanelsInit ==
  /\ panel \in Panel /\ shown = TRUE
  /\ entry = Ask(Empty) /\ version = 0
  /\ muts = <<>> /\ owed = 0
  /\ upsets = 0

Pending(o) == \E i \in DOMAIN muts : muts[i].op = o /\ muts[i].state \in {"sent", "done"}

\* The user starts an operation of the panel.
Start(o) ==
  /\ shown /\ o \in panel.ops /\ Len(muts) < MaxWrites
  /\ o.guarded => ~Pending(o)
  /\ muts' = Append(muts, [op |-> o, state |-> "sent", wrote |-> 0])
  /\ UNCHANGED <<panel, shown, entry, version, owed, upsets>>

Applied(i) ==
  /\ muts[i].state = "sent"
  /\ version' = IF muts[i].op.writes THEN version + 1 ELSE version
  /\ muts' = [muts EXCEPT ![i].state = "done", ![i].wrote = version']
  /\ UNCHANGED <<panel, shown, entry, owed, upsets>>

\* The request is refused, or its answer is lost: onError only says so.
Refused(i) ==
  /\ muts[i].state \in {"sent", "done"} /\ Upset
  /\ muts' = [muts EXCEPT ![i].state = "refused"]
  /\ UNCHANGED <<panel, shown, entry, version, owed>>

\* The answer arrives: onSuccess, or what follows the await.
Told(i) ==
  LET m == muts[i]
  IN  /\ m.state = "done"
      /\ muts' = [muts EXCEPT ![i].state = "told"]
      /\ entry' = IF m.op.refreshes THEN Invalidate(entry, shown) ELSE entry
      /\ owed' = IF m.op.writes /\ shown /\ entry.data # Nothing /\ m.wrote > owed
                 THEN m.wrote ELSE owed
      /\ UNCHANGED <<panel, shown, version, upsets>>

\* A worker, or another user, changes what the query answers.
WorkerWrites ==
  /\ Upset
  /\ version' = version + 1
  /\ UNCHANGED <<panel, shown, entry, muts, owed>>

Poll ==
  /\ shown /\ panel.polled
  /\ entry' = Fetch(entry)
  /\ UNCHANGED <<panel, shown, version, muts, owed, upsets>>

\* Disabled while the query is being asked.
RefreshButton ==
  /\ shown /\ panel.button /\ entry.flight = "idle"
  /\ entry' = Invalidate(entry, TRUE)
  /\ UNCHANGED <<panel, shown, version, muts, owed, upsets>>

ServerAnswers ==
  /\ entry.flight = "asked"
  /\ entry' = Answer(entry, version)
  /\ UNCHANGED <<panel, shown, version, muts, owed, upsets>>

Delivered ==
  /\ entry.flight = "answered"
  /\ entry' = Deliver(entry)
  /\ UNCHANGED <<panel, shown, version, muts, owed, upsets>>

QueryFails ==
  /\ entry.flight # "idle" /\ Upset
  /\ entry' = Fail(entry)
  /\ UNCHANGED <<panel, shown, version, muts, owed>>

\* The window gets the focus; whether staleTime is over is left open.
Focus ==
  /\ shown
  /\ entry' = Fetch(entry)
  /\ UNCHANGED <<panel, shown, version, muts, owed, upsets>>

\* Another page: what was asked is still answered, and kept.
Leave ==
  /\ shown /\ Upset
  /\ shown' = FALSE
  /\ owed' = 0
  /\ UNCHANGED <<panel, entry, version, muts>>

Return ==
  /\ ~shown /\ shown' = TRUE
  /\ entry' \in Mounted(entry)
  /\ UNCHANGED <<panel, version, muts, owed, upsets>>

PanelsNext ==
  \/ \E o \in panel.ops : Start(o)
  \/ \E i \in DOMAIN muts : Applied(i) \/ Refused(i) \/ Told(i)
  \/ WorkerWrites \/ Poll \/ RefreshButton
  \/ ServerAnswers \/ Delivered \/ QueryFails
  \/ Focus \/ Leave \/ Return

PanelsSpec == PanelsInit /\ [][PanelsNext]_pvars

\* Requests are answered, answers are handled, and polls go on.
PanelsFairSpec ==
  PanelsSpec /\ WF_pvars(ServerAnswers) /\ WF_pvars(Delivered) /\ WF_pvars(Poll)
-----------------------------------------------------------------------------
PanelsTypeOK ==
  /\ panel \in Panel /\ shown \in BOOLEAN
  /\ entry \in Entries(Version)
  /\ version \in Version /\ owed \in Version
  /\ Len(muts) \in 0 .. MaxWrites /\ \A i \in DOMAIN muts : muts[i] \in Mutations
  /\ upsets \in 0 .. MaxUpsets

\* A query that is not polled and at rest shows every write the user was told of
\* while looking at it: the invalidation after a success replaces a request that
\* may have read before the write.
AtRestUpToDate ==
  shown /\ ~panel.polled /\ AtRest(entry) => entry.data >= owed

\* Whatever the user was told of is shown in the end while the page stays open,
\* unless a request failed: by the invalidation, or by a poll where the code
\* invalidates another query than the one on the screen.
Behind == shown /\ entry.data \in 0 .. owed - 1 /\ ~entry.failed
ReadYourWrites == Behind ~> ~Behind
=============================================================================
