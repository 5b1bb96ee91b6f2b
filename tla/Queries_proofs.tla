---------------------------- MODULE Queries_proofs ----------------------------
(***************************************************************************)
(* Theorems about the pages that show the answer of a query: the panels,   *)
(* the forms and editors, and the file manager.                            *)
(***************************************************************************)
EXTENDS Panels, Drafts, FilesPage, FiniteSetTheorems, TLAPS
-----------------------------------------------------------------------------
(* Panels.  For any choice of panels and any number of operations, polls,
   failures and visits: a query that is not polled and at rest shows every
   write the user was told of while looking at it.

   AtRestUpToDate is not inductive by itself.  It becomes so with three more
   parts: an answer that is on its way was read after the newest write the
   user was told of (AnswerIsNew), nothing is owed while there is nothing to
   look at (OwedIsSeen), and a query at rest has an answer (RestHasData).  The
   one fact about the pages it rests on is UnpolledRefresh, which a page that
   forgot to invalidate would break. *)

MutationsAnyBound ==
  [op : panel.ops, state : {"sent", "done", "told", "refused"}, wrote : Nat]

PanelRangesOK ==
  /\ panel \in Panel /\ entry \in Entries(Nat)
  /\ version \in Nat /\ owed \in 0 .. version
  /\ muts \in Seq(MutationsAnyBound)
  /\ \A i \in DOMAIN muts : muts[i].wrote <= version

OwedIsSeen == ~shown \/ entry.data = Nothing => owed = 0
RestHasData == AtRest(entry) => entry.data # Nothing
AnsweredHasRead == entry.flight = "answered" => entry.got # Nothing
FreshHasData == entry.fresh => entry.data # Nothing
AnswerIsNew == entry.flight = "answered" /\ ~panel.polled => entry.got >= owed

EntryInv ==
  OwedIsSeen /\ RestHasData /\ AnsweredHasRead /\ FreshHasData /\ AnswerIsNew

PanelsInv == PanelRangesOK /\ EntryInv /\ AtRestUpToDate

\* On a page that does not poll, an operation that changes the answer also
\* invalidates the query.
LEMMA UnpolledRefresh ==
  ASSUME NEW p \in AllPanels, ~p.polled, NEW o \in p.ops, o.writes
  PROVE  o.refreshes
<1>1. p \in {ServerHeader, EnvCard, AliasCard, UsersPage, TokensSection, NginxPage}
  BY DEF AllPanels, Show, ServersPage, ServersTable, SitesPage, SitesTable, ServerStats,
         SiteHeader, SSLCard, ContainerCard, DeploysTab, BackupsPage, Dashboard
<1>2. CASE p = ServerHeader
  BY <1>2 DEF ServerHeader, Show, ConnectServer, ProvisionServer, Op
<1>3. CASE p = EnvCard
  BY <1>3 DEF EnvCard, Show, UpsertEnv, DeleteEnv, Op
<1>4. CASE p = AliasCard
  BY <1>4 DEF AliasCard, Show, AddAlias, RemoveAlias, Op
<1>5. CASE p = UsersPage
  BY <1>5 DEF UsersPage, Show, InviteUser, UpdateUserRole, DeleteUser, Op
<1>6. CASE p = TokensSection
  BY <1>6 DEF TokensSection, Show, CreateToken, RevokeToken, Op
<1>7. CASE p = NginxPage
  BY <1>7 DEF NginxPage, Show, CreateVhost, EnableVhost, DisableVhost, DeleteVhost, IssueCert, Op
<1>. QED
  BY <1>1, <1>2, <1>3, <1>4, <1>5, <1>6, <1>7

LEMMA PanelsInitially == PanelsInit => PanelsInv
<1> SUFFICES ASSUME PanelsInit PROVE PanelsInv
  OBVIOUS
<1>1. entry = [data |-> Nothing, flight |-> "asked", got |-> Nothing,
               fresh |-> FALSE, failed |-> FALSE]
  BY DEF PanelsInit, Ask, Empty
<1>2. PanelRangesOK
  BY <1>1 DEF PanelsInit, PanelRangesOK, MutationsAnyBound, Entries
<1>3. EntryInv
  BY <1>1 DEF PanelsInit, EntryInv, OwedIsSeen, RestHasData, AnsweredHasRead, FreshHasData,
              AnswerIsNew, AtRest
<1>4. AtRestUpToDate
  BY <1>1 DEF AtRestUpToDate, AtRest
<1>. QED
  BY <1>2, <1>3, <1>4 DEF PanelsInv

\* The steps of the query and of the visits, which leave the operations alone.
LEMMA QueryStep ==
  ASSUME PanelsInv,
         Poll \/ RefreshButton \/ ServerAnswers \/ Delivered \/ QueryFails \/ Focus \/ Leave \/ Return
  PROVE  PanelsInv'
<1> USE DEF PanelsInv, PanelRangesOK, MutationsAnyBound, EntryInv, OwedIsSeen, RestHasData,
            AnsweredHasRead, FreshHasData, AnswerIsNew, AtRestUpToDate, Entries, AtRest, Nothing, Upset
<1>1. CASE Poll
  BY <1>1 DEF Poll, Fetch, Ask
<1>2. CASE RefreshButton
  BY <1>2 DEF RefreshButton, Invalidate, Refetch, Ask
<1>3. CASE ServerAnswers
  <2>1. entry' = [entry EXCEPT !.flight = "answered", !.got = version]
    BY <1>3 DEF ServerAnswers, Answer
  <2>2. PanelRangesOK'
    BY <1>3, <2>1 DEF ServerAnswers
  <2>3. EntryInv' /\ AtRestUpToDate'
    BY <1>3, <2>1 DEF ServerAnswers
  <2>. QED
    BY <2>2, <2>3
<1>4. CASE Delivered
  BY <1>4 DEF Delivered, Deliver
<1>5. CASE QueryFails
  BY <1>5 DEF QueryFails, Fail
<1>6. CASE Focus
  BY <1>6 DEF Focus, Fetch, Ask
<1>7. CASE Leave
  BY <1>7 DEF Leave
<1>8. CASE Return
  <2>1. owed = 0 /\ UNCHANGED <<panel, version, muts, owed>>
    BY <1>8 DEF Return
  <2>2. CASE entry' = entry
    BY <1>8, <2>1, <2>2
  <2>3. CASE entry' = Ask(entry)
    BY <1>8, <2>1, <2>3 DEF Ask
  <2>. QED
    BY <1>8, <2>2, <2>3 DEF Return, Mounted, Fetch
<1>. QED
  BY <1>1, <1>2, <1>3, <1>4, <1>5, <1>6, <1>7, <1>8

LEMMA MutationTyped ==
  ASSUME PanelsInv, NEW i \in DOMAIN muts
  PROVE  muts[i] \in MutationsAnyBound /\ muts[i].wrote <= version
  BY DEF PanelsInv, PanelRangesOK

LEMMA MutationReplaced ==
  ASSUME PanelsInv, NEW i \in DOMAIN muts, NEW m \in MutationsAnyBound, m.wrote <= version',
         muts' = [muts EXCEPT ![i] = m], version' \in Nat, version <= version', panel' = panel,
         entry' \in Entries(Nat), owed' \in 0 .. version'
  PROVE  PanelRangesOK'
<1>1. muts' \in Seq(MutationsAnyBound) /\ DOMAIN muts' = DOMAIN muts
  BY DEF PanelsInv, PanelRangesOK
<1>2. MutationsAnyBound' = MutationsAnyBound
  BY DEF MutationsAnyBound
<1>3. ASSUME NEW j \in DOMAIN muts' PROVE muts'[j].wrote <= version'
  <2>1. CASE j = i
    BY <2>1, <1>1
  <2>2. CASE j # i
    <3>1. muts[j] \in MutationsAnyBound /\ muts[j].wrote <= version /\ muts'[j] = muts[j]
      BY <1>1, <2>2, MutationTyped
    <3>2. muts[j].wrote \in Nat
      BY <3>1 DEF MutationsAnyBound
    <3>. QED
      BY <3>1, <3>2 DEF PanelsInv, PanelRangesOK
  <2>. QED
    BY <2>1, <2>2
<1>. QED
  BY <1>1, <1>2, <1>3 DEF PanelsInv, PanelRangesOK

\* The steps of the operations.  Only an answer that arrives touches the entry: the
\* newest write it tells of was made before the request that now replaces any other.
LEMMA OperationStep ==
  ASSUME PanelsInv, PanelsAssumption,
         \/ \E o \in panel.ops : Start(o)
         \/ \E i \in DOMAIN muts : Applied(i) \/ Refused(i) \/ Told(i)
         \/ WorkerWrites
  PROVE  PanelsInv'
<1> USE DEF PanelsInv
<1>1. ASSUME NEW o \in panel.ops, Start(o) PROVE PanelsInv'
  <2>1. PanelRangesOK'
    BY <1>1 DEF Start, PanelRangesOK, MutationsAnyBound
  <2>2. EntryInv' /\ AtRestUpToDate'
    BY <1>1 DEF Start, EntryInv, OwedIsSeen, RestHasData, AnsweredHasRead, FreshHasData,
                AnswerIsNew, AtRestUpToDate, AtRest
  <2>. QED
    BY <2>1, <2>2
<1>2. ASSUME NEW i \in DOMAIN muts, Applied(i) PROVE PanelsInv'
  <2>1. /\ version' \in {version, version + 1} /\ UNCHANGED <<panel, entry, owed>>
        /\ muts' = [muts EXCEPT ![i] = [muts[i] EXCEPT !.state = "done", !.wrote = version']]
    BY <1>2 DEF Applied
  <2>2. /\ version' \in Nat /\ version <= version'
        /\ entry' \in Entries(Nat) /\ owed' \in 0 .. version'
    BY <2>1 DEF PanelRangesOK
  <2>3. /\ [muts[i] EXCEPT !.state = "done", !.wrote = version'] \in MutationsAnyBound
        /\ [muts[i] EXCEPT !.state = "done", !.wrote = version'].wrote <= version'
    <3>1. [muts[i] EXCEPT !.state = "done", !.wrote = version'].wrote = version'
      BY MutationTyped DEF MutationsAnyBound
    <3>2. version' <= version'
      BY <2>2
    <3>. QED
      BY <2>2, <3>1, <3>2, MutationTyped DEF MutationsAnyBound
  <2>4. PanelRangesOK'
    BY <2>1, <2>2, <2>3, MutationReplaced, Zenon
  <2>5. EntryInv' /\ AtRestUpToDate'
    BY <1>2 DEF Applied, EntryInv, OwedIsSeen, RestHasData, AnsweredHasRead, FreshHasData,
                AnswerIsNew, AtRestUpToDate, AtRest
  <2>. QED
    BY <2>4, <2>5
<1>3. ASSUME NEW i \in DOMAIN muts, Refused(i) PROVE PanelsInv'
  <2>1. PanelRangesOK'
    <3>1. /\ [muts[i] EXCEPT !.state = "refused"] \in MutationsAnyBound
          /\ [muts[i] EXCEPT !.state = "refused"].wrote = muts[i].wrote
      BY MutationTyped DEF MutationsAnyBound
    <3>2. /\ UNCHANGED <<panel, entry, version, owed>>
          /\ muts' = [muts EXCEPT ![i] = [muts[i] EXCEPT !.state = "refused"]]
      BY <1>3 DEF Refused
    <3>3. /\ version' \in Nat /\ version <= version' /\ muts[i].wrote <= version'
          /\ entry' \in Entries(Nat) /\ owed' \in 0 .. version'
      BY <3>2, MutationTyped DEF PanelRangesOK
    <3>. QED
      BY <3>1, <3>2, <3>3, MutationReplaced
  <2>2. EntryInv' /\ AtRestUpToDate'
    BY <1>3 DEF Refused, EntryInv, OwedIsSeen, RestHasData, AnsweredHasRead, FreshHasData,
                AnswerIsNew, AtRestUpToDate, AtRest
  <2>. QED
    BY <2>1, <2>2
<1>4. ASSUME NEW i \in DOMAIN muts, Told(i) PROVE PanelsInv'
  <2>1. /\ muts[i] \in MutationsAnyBound /\ muts[i].op \in panel.ops
        /\ muts[i].wrote \in Nat /\ muts[i].wrote <= version
    BY MutationTyped DEF MutationsAnyBound
  <2>2. entry' \in {entry, [entry EXCEPT !.fresh = FALSE],
                    Ask([entry EXCEPT !.fresh = FALSE])}
    BY <1>4 DEF Told, Invalidate, Refetch
  <2>3. PanelRangesOK'
    <3>1. entry' \in Entries(Nat)
      BY <2>2 DEF PanelRangesOK, Entries, Ask, Nothing
    <3>2. /\ [muts[i] EXCEPT !.state = "told"] \in MutationsAnyBound
          /\ [muts[i] EXCEPT !.state = "told"].wrote = muts[i].wrote
      BY <2>1 DEF MutationsAnyBound
    <3>3. /\ version' \in Nat /\ version <= version' /\ muts[i].wrote <= version'
          /\ panel' = panel /\ owed' \in 0 .. version'
          /\ muts' = [muts EXCEPT ![i] = [muts[i] EXCEPT !.state = "told"]]
      BY <1>4, <2>1 DEF Told, PanelRangesOK
    <3>. QED
      BY <3>1, <3>2, <3>3, MutationReplaced
  <2>4. CASE owed' = owed
    <3>1. UNCHANGED <<panel, shown, owed>>
      BY <1>4, <2>4 DEF Told
    <3>. USE <2>3, <2>4, <3>1 DEF PanelRangesOK, EntryInv, OwedIsSeen, RestHasData, AnsweredHasRead,
            FreshHasData, AnswerIsNew, AtRestUpToDate, AtRest, Entries, Nothing
    <3>2. CASE entry' = entry
      BY <3>2
    <3>3. CASE entry' = [entry EXCEPT !.fresh = FALSE]
      BY <3>3
    <3>4. CASE entry' = Ask([entry EXCEPT !.fresh = FALSE])
      BY <3>4 DEF Ask
    <3>. QED
      BY <2>2, <3>2, <3>3, <3>4
  <2>5. CASE owed' # owed
    <3>1. muts[i].op.writes /\ shown /\ entry.data # Nothing
      BY <1>4, <2>5 DEF Told
    <3>2. CASE panel.polled
      BY <1>4, <2>2, <2>3, <3>1, <3>2 DEF Told, PanelRangesOK, EntryInv, OwedIsSeen, RestHasData,
         AnsweredHasRead, FreshHasData, AnswerIsNew, AtRestUpToDate, AtRest, Ask, Entries, Nothing
    <3>3. CASE ~panel.polled
      <4>1. muts[i].op.refreshes
        BY <2>1, <3>1, <3>3, UnpolledRefresh DEF PanelRangesOK, PanelsAssumption
      <4>2. entry' = Ask([entry EXCEPT !.fresh = FALSE])
        BY <1>4, <3>1, <4>1 DEF Told, Invalidate, Refetch, PanelRangesOK, Entries
      <4>. QED
        BY <1>4, <2>3, <3>1, <4>2 DEF Told, PanelRangesOK, EntryInv, OwedIsSeen, RestHasData,
           AnsweredHasRead, FreshHasData, AnswerIsNew, AtRestUpToDate, AtRest, Ask, Entries, Nothing
    <3>. QED
      BY <3>2, <3>3
  <2>. QED
    BY <2>4, <2>5
<1>5. CASE WorkerWrites
  <2>1. version' = version + 1 /\ UNCHANGED <<panel, shown, entry, muts, owed>>
    BY <1>5 DEF WorkerWrites
  <2>2. PanelRangesOK'
    <3>1. MutationsAnyBound' = MutationsAnyBound
      BY <2>1 DEF MutationsAnyBound
    <3>2. ASSUME NEW i \in DOMAIN muts PROVE muts[i].wrote <= version'
      <4>1. muts[i].wrote \in Nat /\ muts[i].wrote <= version
        BY MutationTyped DEF MutationsAnyBound
      <4>. QED
        BY <2>1, <4>1 DEF PanelRangesOK
    <3>. QED
      BY <2>1, <3>1, <3>2 DEF PanelRangesOK
  <2>3. EntryInv' /\ AtRestUpToDate'
    BY <2>1 DEF EntryInv, OwedIsSeen, RestHasData, AnsweredHasRead, FreshHasData, AnswerIsNew,
                AtRestUpToDate, AtRest
  <2>. QED
    BY <2>2, <2>3
<1>. QED
  BY <1>1, <1>2, <1>3, <1>4, <1>5

\* The invariant behind the theorems about the panels.
LEMMA PanelsInvariant == PanelsSpec => []PanelsInv
<1>1. ASSUME PanelsInv, PanelsAssumption, [PanelsNext]_pvars PROVE PanelsInv'
  <2>1. CASE UNCHANGED pvars
    BY <1>1, <2>1 DEF pvars, PanelsInv, PanelRangesOK, MutationsAnyBound, EntryInv, OwedIsSeen,
       RestHasData, AnsweredHasRead, FreshHasData, AnswerIsNew, AtRestUpToDate, AtRest
  <2>. QED
    BY <1>1, <2>1, QueryStep, OperationStep DEF PanelsNext
<1>. QED
  BY <1>1, PanelsInitially, PanelsAssumption, PTL DEF PanelsSpec

\* A page whose query is not polled never rests on an answer from before a write it
\* has told the user of: create, edit, delete and the other operations of all pages.
THEOREM NeverRestsOnTheOld == PanelsSpec => []AtRestUpToDate
  BY PanelsInvariant, PTL DEF PanelsInv
-----------------------------------------------------------------------------
(* The ranges of the panels: what is written is counted. *)

\* Whatever happens to a query, its entry stays one, of the same answers.
LEMMA EntryOperations ==
  ASSUME NEW Answers, NEW e \in Entries(Answers)
  PROVE  /\ Ask(e) \in Entries(Answers) /\ Fetch(e) \in Entries(Answers)
         /\ Deliver(e) \in Entries(Answers) /\ Fail(e) \in Entries(Answers)
         /\ \A active \in BOOLEAN : Invalidate(e, active) \in Entries(Answers)
         /\ \A a \in Answers : Answer(e, a) \in Entries(Answers)
         /\ Mounted(e) \subseteq Entries(Answers)
<1>1. \A x \in Entries(Answers) : Ask(x) \in Entries(Answers)
  BY DEF Ask, Entries
<1>2. Fetch(e) \in Entries(Answers)
  BY <1>1 DEF Fetch
<1>3. Deliver(e) \in Entries(Answers) /\ Fail(e) \in Entries(Answers)
  BY DEF Deliver, Fail, Entries
<1>4. [e EXCEPT !.fresh = FALSE] \in Entries(Answers)
  BY DEF Entries
<1>5. \A active \in BOOLEAN : Invalidate(e, active) \in Entries(Answers)
  BY <1>1, <1>4 DEF Invalidate, Refetch
<1>6. \A a \in Answers : Answer(e, a) \in Entries(Answers)
  BY DEF Answer, Entries
<1>7. Mounted(e) \subseteq Entries(Answers)
  BY <1>2 DEF Mounted
<1>. QED
  BY <1>1, <1>2, <1>3, <1>5, <1>6, <1>7

LEMMA EntriesGrow ==
  ASSUME NEW Answers, NEW More, Answers \subseteq More
  PROVE  Entries(Answers) \subseteq Entries(More)
  BY DEF Entries

\* Operations the server has still to carry out: each may yet write once.
Awaited == {i \in DOMAIN muts : muts[i].state = "sent"}

PanelBounds ==
  /\ shown \in BOOLEAN /\ upsets \in 0 .. MaxUpsets /\ Len(muts) <= MaxWrites
  /\ entry \in Entries(0 .. version)
  /\ version + Cardinality(Awaited) <= Len(muts) + upsets

LEMMA AwaitedFinite ==
  ASSUME PanelsInv
  PROVE  IsFiniteSet(Awaited) /\ Cardinality(Awaited) \in Nat
<1>1. DOMAIN muts = 1 .. Len(muts) /\ Len(muts) \in Nat
  BY DEF PanelsInv, PanelRangesOK
<1>2. IsFiniteSet(DOMAIN muts)
  BY <1>1, FS_Interval
<1>3. IsFiniteSet(Awaited)
  BY <1>2, FS_Subset DEF Awaited
<1>. QED
  BY <1>3, FS_CardinalityType

\* An operation that goes on is awaited no longer.
LEMMA AwaitedShrinks ==
  ASSUME PanelsInv, NEW i \in DOMAIN muts, NEW m, muts' = [muts EXCEPT ![i] = m], m.state # "sent"
  PROVE  /\ Cardinality(Awaited') \in Nat /\ Cardinality(Awaited') <= Cardinality(Awaited)
         /\ muts[i].state = "sent" => Cardinality(Awaited') = Cardinality(Awaited) - 1
         /\ Len(muts') = Len(muts)
<1>1. Awaited' = Awaited \ {i} /\ Len(muts') = Len(muts)
  BY DEF Awaited, PanelsInv, PanelRangesOK
<1>2. IsFiniteSet(Awaited) /\ Cardinality(Awaited) \in Nat
  BY AwaitedFinite
<1>3. IsFiniteSet(Awaited \ {i})
       /\ Cardinality(Awaited \ {i}) = IF i \in Awaited THEN Cardinality(Awaited) - 1 ELSE Cardinality(Awaited)
  BY <1>2, FS_RemoveElement
<1>4. Cardinality(Awaited \ {i}) \in Nat
  BY <1>3, FS_CardinalityType
<1>5. muts[i].state = "sent" => i \in Awaited
  BY DEF Awaited
<1>. QED
  BY <1>1, <1>2, <1>3, <1>4, <1>5

LEMMA PanelBoundsInitially == PanelsInit => PanelBounds
<1> SUFFICES ASSUME PanelsInit PROVE PanelBounds
  OBVIOUS
<1>1. Awaited = {} /\ Len(muts) = 0 /\ version = 0 /\ upsets = 0 /\ shown = TRUE
  BY DEF PanelsInit, Awaited
<1>2. Cardinality(Awaited) = 0
  BY <1>1, FS_EmptySet
<1>3. entry \in Entries(0 .. version)
  BY <1>1 DEF PanelsInit, Ask, Empty, Entries
<1>. QED
  BY <1>1, <1>2, <1>3, PanelsAssumption DEF PanelBounds

LEMMA PanelBoundsStep ==
  ASSUME PanelsInv, PanelsInv', PanelBounds, PanelsAssumption, [PanelsNext]_pvars
  PROVE  PanelBounds'
<1> USE DEF PanelBounds
<1>1. /\ version \in Nat /\ Len(muts) \in Nat /\ upsets \in Nat /\ MaxUpsets \in Nat
      /\ MaxWrites \in Nat /\ Cardinality(Awaited) \in Nat
      /\ version \in 0 .. version /\ shown \in BOOLEAN
  BY AwaitedFinite, PanelsAssumption DEF PanelsInv, PanelRangesOK
<1>2. Upset => upsets' = upsets + 1 /\ upsets' \in 0 .. MaxUpsets
  BY <1>1 DEF Upset
<1>3. \A w \in Nat : version <= w => Entries(0 .. version) \subseteq Entries(0 .. w)
  <2>. TAKE w \in Nat
  <2>. HAVE version <= w
  <2>1. 0 .. version \subseteq 0 .. w
    BY <1>1
  <2>. QED
    BY <2>1, EntriesGrow
<1>4. CASE /\ UNCHANGED <<version, muts>> /\ entry' \in Entries(0 .. version)
           /\ shown' \in BOOLEAN /\ (upsets' = upsets \/ Upset)
  <2>1. Awaited' = Awaited
    BY <1>4 DEF Awaited
  <2>. QED
    BY <1>1, <1>2, <1>4, <2>1
<1>5. CASE Poll \/ RefreshButton \/ ServerAnswers \/ Delivered \/ QueryFails \/ Focus
  <2>1. entry' \in Entries(0 .. version)
    BY <1>1, <1>5, EntryOperations
       DEF Poll, RefreshButton, ServerAnswers, Delivered, QueryFails, Focus
  <2>. QED
    BY <1>1, <1>4, <1>5, <2>1
       DEF Poll, RefreshButton, ServerAnswers, Delivered, QueryFails, Focus
<1>6. CASE Leave
  <2>1. shown' \in BOOLEAN
    BY <1>6, Zenon DEF Leave
  <2>. QED
    BY <1>4, <1>6, <2>1 DEF Leave
<1>7. CASE Return
  <2>1. shown' \in BOOLEAN
    BY <1>7, Zenon DEF Return
  <2>2. entry' \in Entries(0 .. version)
    BY <1>7, EntryOperations DEF Return
  <2>. QED
    BY <1>4, <1>7, <2>1, <2>2 DEF Return
<1>8. CASE WorkerWrites
  <2>1. version' = version + 1 /\ UNCHANGED <<shown, entry, muts>> /\ Upset
    BY <1>8 DEF WorkerWrites
  <2>2. Awaited' = Awaited /\ entry' \in Entries(0 .. version')
    BY <1>1, <1>3, <2>1 DEF Awaited
  <2>. QED
    BY <1>1, <1>2, <2>1, <2>2
<1>9. ASSUME NEW o \in panel.ops, Start(o) PROVE PanelBounds'
  <2>1. /\ Len(muts) < MaxWrites /\ UNCHANGED <<shown, entry, version, upsets>>
        /\ muts' = Append(muts, [op |-> o, state |-> "sent", wrote |-> 0])
    BY <1>9 DEF Start
  <2>2. Len(muts') = Len(muts) + 1
    BY <2>1 DEF PanelsInv, PanelRangesOK
  <2>3. Awaited' = Awaited \cup {Len(muts) + 1} /\ Len(muts) + 1 \notin Awaited
    BY <2>1 DEF Awaited, PanelsInv, PanelRangesOK
  <2>4. Cardinality(Awaited') = Cardinality(Awaited) + 1
    BY <2>3, AwaitedFinite, FS_AddElement
  <2>. QED
    BY <1>1, <2>1, <2>2, <2>4
<1>10. ASSUME NEW i \in DOMAIN muts, Applied(i) PROVE PanelBounds'
  <2>1. /\ version' \in {version, version + 1} /\ UNCHANGED <<shown, entry, upsets>>
        /\ muts[i].state = "sent"
        /\ muts' = [muts EXCEPT ![i] = [muts[i] EXCEPT !.state = "done", !.wrote = version']]
    BY <1>10 DEF Applied
  <2>2. [muts[i] EXCEPT !.state = "done", !.wrote = version'].state # "sent"
    BY MutationTyped DEF MutationsAnyBound
  <2>3. Cardinality(Awaited') = Cardinality(Awaited) - 1 /\ Len(muts') = Len(muts)
    BY <2>1, <2>2, AwaitedShrinks
  <2>4. entry' \in Entries(0 .. version')
    BY <1>1, <1>3, <2>1
  <2>. QED
    BY <1>1, <2>1, <2>3, <2>4
<1>11. ASSUME NEW i \in DOMAIN muts, Refused(i) PROVE PanelBounds'
  <2>1. /\ Upset /\ UNCHANGED <<shown, entry, version>>
        /\ muts' = [muts EXCEPT ![i] = [muts[i] EXCEPT !.state = "refused"]]
    BY <1>11 DEF Refused
  <2>2. [muts[i] EXCEPT !.state = "refused"].state # "sent"
    BY MutationTyped DEF MutationsAnyBound
  <2>3. /\ Cardinality(Awaited') \in Nat /\ Cardinality(Awaited') <= Cardinality(Awaited)
        /\ Len(muts') = Len(muts)
    BY <2>1, <2>2, AwaitedShrinks
  <2>. QED
    BY <1>1, <1>2, <2>1, <2>3
<1>12. ASSUME NEW i \in DOMAIN muts, Told(i) PROVE PanelBounds'
  <2>1. /\ UNCHANGED <<shown, version, upsets>>
        /\ muts' = [muts EXCEPT ![i] = [muts[i] EXCEPT !.state = "told"]]
        /\ entry' \in {entry, Invalidate(entry, shown)}
    BY <1>12 DEF Told
  <2>2. [muts[i] EXCEPT !.state = "told"].state # "sent"
    BY MutationTyped DEF MutationsAnyBound
  <2>3. /\ Cardinality(Awaited') \in Nat /\ Cardinality(Awaited') <= Cardinality(Awaited)
        /\ Len(muts') = Len(muts)
    BY <2>1, <2>2, AwaitedShrinks
  <2>4. entry' \in Entries(0 .. version)
    BY <1>1, <2>1, EntryOperations
  <2>. QED
    BY <1>1, <2>1, <2>3, <2>4
<1>13. CASE UNCHANGED pvars
  BY <1>1, <1>4, <1>13 DEF pvars
<1>. QED
  BY <1>5, <1>6, <1>7, <1>8, <1>9, <1>10, <1>11, <1>12, <1>13 DEF PanelsNext

\* The variables of the panels keep their ranges: there is no more to show than the
\* operations and the upsets have written.
THEOREM PanelsTypeCorrect == PanelsSpec => []PanelsTypeOK
<1>1. PanelBounds /\ PanelsInv /\ PanelsInv' /\ [PanelsNext]_pvars => PanelBounds'
  BY PanelBoundsStep, PanelsAssumption
<1>2. PanelsInv /\ PanelBounds => PanelsTypeOK
  <2> SUFFICES ASSUME PanelsInv, PanelBounds PROVE PanelsTypeOK
    OBVIOUS
  <2>1. /\ version \in Nat /\ Len(muts) \in Nat /\ upsets \in Nat /\ MaxUpsets \in Nat
        /\ MaxWrites \in Nat /\ Cardinality(Awaited) \in Nat /\ owed \in 0 .. version
    BY AwaitedFinite, PanelsAssumption DEF PanelsInv, PanelRangesOK, PanelBounds
  <2>2. version <= MaxWrites + MaxUpsets
    BY <2>1 DEF PanelBounds
  <2>3. version \in Version /\ owed \in Version /\ 0 .. version \subseteq Version
    BY <2>1, <2>2 DEF Version
  <2>4. entry \in Entries(Version)
    BY <2>3, EntriesGrow DEF PanelBounds
  <2>5. ASSUME NEW i \in DOMAIN muts PROVE muts[i] \in Mutations
    <3>1. muts[i] \in MutationsAnyBound /\ muts[i].wrote <= version
      BY MutationTyped
    <3>2. muts[i].wrote \in Nat
      BY <3>1 DEF MutationsAnyBound
    <3>3. muts[i].wrote \in Version
      BY <2>1, <2>3, <3>1, <3>2
    <3>. QED
      BY <3>1, <3>3 DEF MutationsAnyBound, Mutations
  <2>. QED
    BY <2>1, <2>3, <2>4, <2>5 DEF PanelsTypeOK, PanelBounds, PanelsInv, PanelRangesOK
<1>. QED
  BY <1>1, <1>2, PanelBoundsInitially, PanelsInvariant, PTL DEF PanelsSpec
-----------------------------------------------------------------------------
(* Forms and editors.  For any choice of forms and any number of texts, saves,
   visits and failures: no form but the schedule of the backups saves over a
   row that it was never filled from, unless that row could not be loaded.

   NoBlindSave is about saves of the past; what makes the next one safe is that
   an open dialog is filled unless its table is gone (DialogsFilled), that an open loading form with an
   answer is filled (LoadersFilled), and that one without an answer and without
   a request has seen it fail (EmptyHasFailed). *)

\* The forms whose save button waits for the first answer.
Loaders == {"settings", "nginx", "file"}

SavesAnyBound ==
  [text : Nat, state : {"sent", "done", "told", "failed"}, mount : Nat, blind : BOOLEAN]

TextsOK ==
  /\ stored \in Nat /\ clicked \in Nat /\ draft \in Nat /\ texts \in Nat /\ opens \in Nat
  /\ query \in Entries(Nat) /\ form \in AllForms

SavesOK == saves \in Seq(SavesAnyBound)

AnswersOK ==
  /\ query.flight = "answered" => query.got # Nothing
  /\ query.fresh => query.data # Nothing
  /\ form \in Dialogs => query.data # Nothing

DialogsFilled == formOpen /\ form \in Dialogs => based \/ TableGone
LoadersFilled == formOpen /\ form \in Loaders /\ query.data # Nothing => based
EmptyHasFailed ==
  formOpen /\ form \in Loaders /\ query.data = Nothing /\ query.flight = "idle" => query.failed

FormInv == TextsOK /\ AnswersOK /\ DialogsFilled /\ LoadersFilled /\ EmptyHasFailed
DraftsInv == FormInv /\ SavesOK /\ NoBlindSave

USE DraftsAssumption DEF DraftsAssumption

LEMMA DraftsInitially == DraftsInit => DraftsInv
<1> SUFFICES ASSUME DraftsInit PROVE DraftsInv
  OBVIOUS
<1>1. form \in AllForms /\ stored = 1 /\ clicked = 0 /\ draft = 0 /\ texts = 1 /\ opens = 0
  BY DEF DraftsInit, Blank
<1>2. saves = <<>>
  BY DEF DraftsInit
<1>3. CASE form \in Dialogs
  <2>1. query = [data |-> 1, flight |-> "idle", got |-> Nothing, fresh |-> TRUE, failed |-> FALSE]
    BY <1>3 DEF DraftsInit, Deliver, Answer, Ask, Empty
  <2>2. ~formOpen /\ form \notin Loaders
    BY <1>3 DEF DraftsInit, Dialogs, SiteForms, Loaders
  <2>. QED
    BY <1>1, <1>2, <2>1, <2>2 DEF DraftsInv, FormInv, TextsOK, SavesOK, AnswersOK, DialogsFilled,
       LoadersFilled, EmptyHasFailed, NoBlindSave, Entries, Nothing
<1>4. CASE form \in Editors
  <2>1. query = Empty /\ ~formOpen /\ form \notin Dialogs
    BY <1>4 DEF DraftsInit, Dialogs, SiteForms, Editors
  <2>. QED
    BY <1>1, <1>2, <2>1 DEF DraftsInv, FormInv, TextsOK, SavesOK, AnswersOK, DialogsFilled,
       LoadersFilled, EmptyHasFailed, NoBlindSave, Entries, Nothing, Empty
<1>5. CASE form \notin Dialogs /\ form \notin Editors
  <2>1. query = [data |-> Nothing, flight |-> "asked", got |-> Nothing, fresh |-> FALSE,
                 failed |-> FALSE]
    BY <1>5 DEF DraftsInit, Ask, Empty
  <2>. QED
    BY <1>1, <1>2, <1>5, <2>1 DEF DraftsInv, FormInv, TextsOK, SavesOK, AnswersOK, DialogsFilled,
       LoadersFilled, EmptyHasFailed, NoBlindSave, Entries, Nothing
<1>. QED
  BY <1>3, <1>4, <1>5

\* Opening and closing a form.
LEMMA OpeningStep ==
  ASSUME DraftsInv, OpenPanel \/ OpenDialog \/ OpenVhost \/ OpenFile \/ CloseForm
  PROVE  DraftsInv'
<1> USE DEF DraftsInv
<1>1. SavesOK' /\ NoBlindSave' /\ form' = form
  <2>1. form' = form /\ saves' = saves
    BY DEF OpenPanel, OpenDialog, OpenVhost, OpenFile, CloseForm, Opening
  <2>. QED
    BY <2>1 DEF SavesOK, NoBlindSave
<1> USE DEF FormInv, TextsOK, AnswersOK, DialogsFilled, LoadersFilled, EmptyHasFailed
<1>2. CASE OpenPanel
  <2>1. form = "backup" /\ form \notin Dialogs /\ form \notin Loaders
    BY <1>2 DEF OpenPanel, Dialogs, SiteForms, Loaders
  <2>. QED
    BY <1>1, <1>2, <2>1 DEF OpenPanel, Opening, fill
<1>3. CASE OpenDialog
  <2>1. form \notin Loaders
    BY <1>3 DEF OpenDialog, Dialogs, SiteForms, Loaders
  <2>2. based'
    BY <1>3, Zenon DEF OpenDialog, Fill
  <2>3. TextsOK' /\ AnswersOK'
    BY <1>3 DEF OpenDialog, Opening, Fill, Entries, Nothing
  <2>. QED
    BY <1>1, <2>1, <2>2, <2>3
<1>4. CASE OpenVhost
  <2>1. form = "nginx" /\ form \notin Dialogs
    BY <1>4 DEF OpenVhost, Dialogs, SiteForms
  <2>2. query' = Fetch(query) \/ (query' = query /\ query.fresh)
    BY <1>4 DEF OpenVhost, Mounted
  <2>3. /\ query' \in Entries(Nat) /\ query'.data = query.data
        /\ query'.flight = "answered" => query'.got # Nothing
        /\ query'.fresh => query'.data # Nothing
        /\ query'.data = Nothing => query'.flight # "idle"
    BY <2>2 DEF Fetch, Ask, Entries, Nothing
  <2>4. query.data # Nothing => based'
    BY <1>4, Zenon DEF OpenVhost, Fill
  <2>5. draft' \in Nat /\ UNCHANGED <<stored, clicked, texts>> /\ opens' \in Nat
    BY <1>4 DEF OpenVhost, Opening, Fill, Clear, Entries, Nothing, Blank
  <2>. QED
    BY <1>1, <2>1, <2>3, <2>4, <2>5
<1>5. CASE OpenFile
  <2>1. form = "file" /\ form \notin Dialogs
    BY <1>5 DEF OpenFile, Dialogs, SiteForms
  <2>2. query' = [data |-> Nothing, flight |-> "asked", got |-> Nothing, fresh |-> FALSE,
                  failed |-> FALSE]
    BY <1>5 DEF OpenFile, Ask, Empty
  <2>3. draft' \in Nat /\ UNCHANGED <<stored, clicked, texts>> /\ opens' \in Nat
    BY <1>5 DEF OpenFile, Opening, Clear, Blank
  <2>. QED
    BY <1>1, <2>1, <2>2, <2>3 DEF Entries, Nothing
<1>6. CASE CloseForm
  <2>1. ~formOpen'
    BY <1>6, Zenon DEF CloseForm
  <2>2. UNCHANGED <<stored, query, clicked, draft, texts, opens>>
    BY <1>6 DEF CloseForm, fill, dbounds
  <2>. QED
    BY <1>1, <2>1, <2>2
<1>. QED
  BY <1>2, <1>3, <1>4, <1>5, <1>6

\* A save that its form no longer knows of was as blind as before.
LEMMA SavesMarked ==
  ASSUME SavesOK, NoBlindSave, form' = form,
         saves' = [i \in DOMAIN saves |-> [saves[i] EXCEPT !.mount = Unmounted]]
  PROVE  SavesOK' /\ NoBlindSave'
<1>1. ASSUME NEW i \in DOMAIN saves
      PROVE  /\ [saves[i] EXCEPT !.mount = Unmounted] \in SavesAnyBound
             /\ [saves[i] EXCEPT !.mount = Unmounted].blind = saves[i].blind
  <2>1. saves[i] \in SavesAnyBound
    BY DEF SavesOK
  <2>. QED
    BY <2>1 DEF SavesAnyBound, Unmounted
<1>2. SavesOK' /\ DOMAIN saves' = DOMAIN saves
  BY <1>1 DEF SavesOK
<1>3. \A i \in DOMAIN saves : saves'[i].blind = saves[i].blind
  BY <1>1
<1>. QED
  BY <1>2, <1>3, Zenon DEF NoBlindSave

\* What changes the row, the query or the text: the saves keep their texts.
LEMMA RowStep ==
  ASSUME DraftsInv,
         \/ TypeText \/ OthersWrite \/ ServersChange
         \/ AskAgain \/ RowAnswered \/ RowDelivered \/ RowFails
  PROVE  DraftsInv'
<1> USE DEF DraftsInv
<1>1. SavesOK' /\ NoBlindSave' /\ form' = form /\ formOpen' = formOpen
  <2>1. form' = form /\ formOpen' = formOpen
    BY DEF TypeText, OthersWrite, ServersChange, AskAgain, RowAnswered, RowDelivered, RowFails
  <2>2. \/ saves' = saves
        \/ saves' = [i \in DOMAIN saves |-> [saves[i] EXCEPT !.mount = Unmounted]]
    BY DEF TypeText, OthersWrite, ServersChange, AskAgain, RowAnswered, RowDelivered, RowFails
  <2>. QED
    BY <2>1, <2>2, SavesMarked DEF SavesOK, NoBlindSave
<1> USE DEF FormInv, TextsOK, AnswersOK, DialogsFilled, LoadersFilled, EmptyHasFailed, TableGone
<1>2. CASE TypeText
  BY <1>1, <1>2 DEF TypeText, NewText
<1>3. CASE OthersWrite
  BY <1>1, <1>3 DEF OthersWrite, NewText, fill
<1>4. CASE ServersChange
  <2>1. based'
    BY <1>4, Zenon DEF ServersChange, Fill
  <2>2. draft' \in Nat /\ UNCHANGED <<stored, query, clicked, texts, opens>>
    BY <1>4 DEF ServersChange, Fill, Row, SiteForms, Dialogs, Entries, Nothing
  <2>. QED
    BY <1>1, <2>1, <2>2
<1>5. CASE AskAgain
  <2>1. query' = query \/ query' = Ask(query)
    BY <1>5 DEF AskAgain, Fetch
  <2>2. UNCHANGED <<stored, clicked, draft, based, texts, opens>>
    BY <1>5 DEF AskAgain, fill, dbounds
  <2>. QED
    BY <1>1, <2>1, <2>2 DEF Ask, Entries, Nothing
<1>6. CASE RowAnswered
  <2>1. query' = [query EXCEPT !.flight = "answered", !.got = stored]
    BY <1>6 DEF RowAnswered, Answer
  <2>2. UNCHANGED <<stored, clicked, draft, based, texts, opens>>
    BY <1>6 DEF RowAnswered, fill, dbounds
  <2>3. /\ query' \in Entries(Nat) /\ query'.flight = "answered" /\ query'.got = stored
        /\ query'.data = query.data /\ query'.fresh = query.fresh
        /\ query'.failed = query.failed
    BY <2>1 DEF Entries, Nothing
  <2>. QED
    BY <1>1, <2>2, <2>3 DEF Nothing
<1>7. CASE RowDelivered
  <2>1. query' = [data |-> query.got, flight |-> "idle", got |-> Nothing, fresh |-> TRUE,
                  failed |-> FALSE]
    BY <1>7 DEF RowDelivered, Deliver
  <2>2. query.got \in Nat /\ UNCHANGED <<stored, clicked, texts, opens>>
    BY <1>7 DEF RowDelivered, dbounds, Entries, Nothing
  <2>3. CASE IsMounted /\ query.got # query.data /\ form \in Live \cup {"file"}
    <3>1. based'
      BY <1>7, <2>3, Zenon DEF RowDelivered, Fill
    <3>2. draft' = query.got
      BY <1>7, <2>3 DEF RowDelivered, Fill
    <3>. QED
      BY <1>1, <2>1, <2>2, <3>1, <3>2 DEF Entries, Nothing
  <2>4. CASE /\ ~(IsMounted /\ query.got # query.data /\ form \in Live \cup {"file"})
             /\ TableGone /\ formOpen
    <3>1. based'
      BY <1>7, <2>4, Zenon DEF RowDelivered, Fill
    <3>2. draft' = clicked /\ form \notin Loaders
      BY <1>7, <2>4 DEF RowDelivered, Fill, Tables, Loaders
    <3>. QED
      BY <1>1, <2>1, <2>2, <3>1, <3>2 DEF Entries, Nothing
  <2>5. CASE /\ ~(IsMounted /\ query.got # query.data /\ form \in Live \cup {"file"})
             /\ ~(TableGone /\ formOpen)
    <3>1. draft' = draft /\ based' = based
      BY <1>7, <2>5 DEF RowDelivered, fill
    <3>2. formOpen /\ form \in Loaders => query.got = query.data
      BY <2>5 DEF Loaders, Live, IsMounted, Editors
    <3>. QED
      BY <1>1, <2>1, <2>2, <2>5, <3>1, <3>2 DEF Entries, Nothing
  <2>. QED
    BY <2>3, <2>4, <2>5
<1>8. CASE RowFails
  <2>1. query' = [query EXCEPT !.flight = "idle", !.got = Nothing, !.failed = TRUE]
    BY <1>8 DEF RowFails, Fail
  <2>2. /\ UNCHANGED <<stored, clicked, texts, opens>>
        /\ \/ UNCHANGED <<draft, based>>
           \/ draft' = 0 /\ form \in Tables
    BY <1>8 DEF RowFails, fill, Clear, Blank
  <2>3. query'.failed = TRUE
    BY <2>1 DEF Entries
  <2>4. /\ query' \in Entries(Nat) /\ query'.flight = "idle"
        /\ query'.data = query.data /\ query'.fresh = query.fresh
    BY <2>1 DEF Entries, Nothing
  <2>5. EmptyHasFailed'
    BY <2>3
  <2>6. TextsOK' /\ AnswersOK' /\ DialogsFilled' /\ LoadersFilled'
    BY <1>1, <2>2, <2>3, <2>4 DEF Tables, Loaders
  <2>. QED
    BY <1>1, <2>5, <2>6
<1>. QED
  BY <1>2, <1>3, <1>4, <1>5, <1>6, <1>7, <1>8

\* A save is not blind when the form's own guard let it through.
LEMMA SendNotBlind ==
  ASSUME FormInv, formOpen, ~TableGone, form # "backup", form \in Loaders => ~Loading
  PROVE  based \/ query.failed
<1>1. form \in Dialogs \/ form \in Loaders
  BY DEF FormInv, TextsOK, AllForms, Dialogs, SiteForms, Loaders
<1>. QED
  BY <1>1 DEF FormInv, DialogsFilled, LoadersFilled, EmptyHasFailed, Loading

\* The saves: a new one is judged when it is sent, what becomes of it changes nothing.
LEMMA SaveStep ==
  ASSUME DraftsInv,
         Save \/ SaveByKey \/ \E i \in DOMAIN saves : SaveApplied(i) \/ SaveFails(i) \/ SaveTold(i)
  PROVE  DraftsInv'
<1> USE DEF DraftsInv
<1>1. ASSUME Send, form \in Loaders => ~Loading PROVE DraftsInv'
  <2>1. UNCHANGED <<form, formOpen, stored, query, clicked, draft, based, texts, opens>>
    BY <1>1 DEF Send, fill, dbounds
  <2>2. PICK b \in BOOLEAN : /\ b <=> ~based /\ ~query.failed
                             /\ saves' = Append(saves, [text |-> draft, state |-> "sent",
                                                        mount |-> opens, blind |-> b])
    BY <1>1, Zenon DEF Send
  <2>3. form # "backup" => ~b
    BY <1>1, <2>2, SendNotBlind DEF Send
  <2>4. [text |-> draft, state |-> "sent", mount |-> opens, blind |-> b] \in SavesAnyBound
    BY DEF FormInv, TextsOK, SavesAnyBound
  <2>5. SavesOK'
    BY <2>2, <2>4 DEF SavesOK
  <2>6. NoBlindSave'
    BY <2>1, <2>2, <2>3 DEF NoBlindSave, SavesOK
  <2>. QED
    BY <2>1, <2>5, <2>6 DEF FormInv, TextsOK, AnswersOK, DialogsFilled, LoadersFilled, EmptyHasFailed,
       TableGone
<1>2. CASE Save
  BY <1>1, <1>2 DEF Save, Loaders
<1>3. CASE SaveByKey
  BY <1>1, <1>3 DEF SaveByKey
<1>4. ASSUME NEW i \in DOMAIN saves, NEW st \in {"done", "told", "failed"},
             saves' = [saves EXCEPT ![i].state = st], form' = form
      PROVE  SavesOK' /\ NoBlindSave'
  <2>1. saves[i] \in SavesAnyBound
    BY DEF SavesOK
  <2>2. /\ [saves[i] EXCEPT !.state = st] \in SavesAnyBound
        /\ [saves[i] EXCEPT !.state = st].blind = saves[i].blind
    BY <2>1 DEF SavesAnyBound
  <2>3. SavesOK' /\ DOMAIN saves' = DOMAIN saves
    BY <1>4, <2>2 DEF SavesOK
  <2>4. \A j \in DOMAIN saves : saves'[j].blind = saves[j].blind
    BY <1>4, <2>2 DEF SavesOK
  <2>. QED
    BY <1>4, <2>3, <2>4, Zenon DEF NoBlindSave
<1>5. ASSUME NEW i \in DOMAIN saves, SaveApplied(i) PROVE DraftsInv'
  <2>1. SavesOK' /\ NoBlindSave'
    BY <1>4, <1>5, Zenon DEF SaveApplied
  <2>2. stored' = saves[i].text /\ UNCHANGED <<form, formOpen, query, clicked, draft, based, texts, opens>>
    BY <1>5 DEF SaveApplied, fill, dbounds
  <2>3. saves[i] \in SavesAnyBound
    BY DEF SavesOK
  <2>4. stored' \in Nat
    BY <2>2, <2>3 DEF SavesAnyBound
  <2>. QED
    BY <2>1, <2>2, <2>4 DEF FormInv, TextsOK, AnswersOK, DialogsFilled, LoadersFilled, EmptyHasFailed,
       TableGone
<1>6. ASSUME NEW i \in DOMAIN saves, SaveFails(i) PROVE DraftsInv'
  <2>1. SavesOK' /\ NoBlindSave'
    BY <1>4, <1>6, Zenon DEF SaveFails
  <2>2. UNCHANGED <<form, formOpen, stored, query, clicked, draft, based, texts, opens>>
    BY <1>6 DEF SaveFails, fill
  <2>. QED
    BY <2>1, <2>2 DEF FormInv, TextsOK, AnswersOK, DialogsFilled, LoadersFilled, EmptyHasFailed,
       TableGone
<1>7. ASSUME NEW i \in DOMAIN saves, SaveTold(i) PROVE DraftsInv'
  <2>1. SavesOK' /\ NoBlindSave'
    BY <1>4, <1>7, Zenon DEF SaveTold
  <2>2. UNCHANGED <<form, stored, clicked, draft, based, texts, opens>>
    BY <1>7 DEF SaveTold, dbounds
  <2>3. formOpen' => formOpen /\ form \notin Dialogs
    BY <1>7 DEF SaveTold, Editors, Dialogs, SiteForms
  <2>4. query' \in {query, [query EXCEPT !.fresh = FALSE], Ask([query EXCEPT !.fresh = FALSE])}
    BY <1>7 DEF SaveTold, Invalidate, Refetch
  <2>5. /\ query' \in Entries(Nat) /\ query'.data = query.data
        /\ query'.flight = "answered" => query'.got # Nothing
        /\ query'.fresh => query'.data # Nothing
        /\ query'.flight = "idle" => query.flight = "idle" /\ (query.failed => query'.failed)
    BY <2>4 DEF FormInv, TextsOK, AnswersOK, Ask, Entries, Nothing
  <2>. QED
    BY <2>1, <2>2, <2>3, <2>5 DEF FormInv, TextsOK, AnswersOK, DialogsFilled, LoadersFilled,
       EmptyHasFailed
<1>. QED
  BY <1>2, <1>3, <1>5, <1>6, <1>7

LEMMA DraftsInvariant == DraftsSpec => []DraftsInv
<1>1. ASSUME DraftsInv, [DraftsNext]_dvars PROVE DraftsInv'
  <2>1. CASE UNCHANGED dvars
    BY <1>1, <2>1 DEF dvars, fill, dbounds, DraftsInv, FormInv, TextsOK, SavesOK, AnswersOK,
       DialogsFilled, LoadersFilled, EmptyHasFailed, NoBlindSave, TableGone
  <2>. QED
    BY <1>1, <2>1, OpeningStep, RowStep, SaveStep DEF DraftsNext
<1>. QED
  BY <1>1, DraftsInitially, PTL DEF DraftsSpec

\* The settings, the dialogs of sites and servers and the two editors never save over
\* a row they were not filled from, however saves, polls and failures are interleaved.
THEOREM NothingSavedBlind == DraftsSpec => []NoBlindSave
  BY DraftsInvariant, PTL DEF DraftsInv

(* What is typed *)

\* A file is loaded once: by the time something can be typed, no answer is on its way.
FileLoadsOnce ==
  form = "file" /\ query.flight # "idle" => ~typed /\ query.data = Nothing

LEMMA FileLoadsOnceStep ==
  ASSUME DraftsInv, FileLoadsOnce, [DraftsNext]_dvars PROVE FileLoadsOnce'
<1> USE DEF FileLoadsOnce
<1>1. CASE form' # "file"
  BY <1>1
<1>2. CASE form' = "file"
  <2>1. query \in Entries(Nat)
    BY DEF DraftsInv, FormInv, TextsOK
  <2>2. CASE OpenPanel \/ OpenDialog \/ OpenVhost
    BY <1>2, <2>2 DEF OpenPanel, OpenDialog, OpenVhost, Opening, Dialogs, SiteForms
  <2>3. CASE OpenFile
    <3>1. typed' = FALSE /\ query' = Ask(Empty)
      BY <2>3 DEF OpenFile, Clear
    <3>. QED
      BY <3>1 DEF Ask, Empty
  <2>4. CASE CloseForm \/ UNCHANGED dvars
    BY <2>4 DEF CloseForm, dvars, fill
  <2>5. CASE TypeText
    BY <1>2, <2>5 DEF TypeText, Loading, Editors
  <2>6. CASE Save \/ SaveByKey
    BY <2>6 DEF Save, SaveByKey, Send, fill
  <2>7. ASSUME NEW i \in DOMAIN saves, SaveApplied(i) \/ SaveFails(i) PROVE FileLoadsOnce'
    BY <2>7 DEF SaveApplied, SaveFails, fill
  <2>8. ASSUME NEW i \in DOMAIN saves, SaveTold(i) PROVE FileLoadsOnce'
    <3>1. UNCHANGED <<form, typed, query>>
      BY <1>2, <2>8 DEF SaveTold
    <3>. QED
      BY <3>1
  <2>9. CASE OthersWrite \/ AskAgain \/ ServersChange
    BY <1>2, <2>9 DEF OthersWrite, AskAgain, ServersChange, SiteForms, fill
  <2>10. CASE RowAnswered
    <3>1. UNCHANGED <<form, typed>> /\ query.flight = "asked" /\ query' = Answer(query, stored)
      BY <2>10 DEF RowAnswered, fill
    <3>. QED
      BY <1>2, <2>1, <3>1 DEF Answer, Entries
  <2>11. CASE RowDelivered \/ RowFails
    <3>1. query' = Deliver(query) \/ query' = Fail(query)
      BY <2>11 DEF RowDelivered, RowFails
    <3>2. query'.flight = "idle"
      <4>1. Deliver(query).flight = "idle"
        BY DEF Deliver
      <4>2. Fail(query).flight = "idle"
        BY <2>1 DEF Fail, Entries
      <4>. QED
        BY <3>1, <4>1, <4>2
    <3>. QED
      BY <3>2
  <2>. QED
    BY <2>2, <2>3, <2>4, <2>5, <2>6, <2>7, <2>8, <2>9, <2>10, <2>11 DEF DraftsNext
<1>. QED
  BY <1>1, <1>2

\* A dialog goes with its table, and so does what was typed.
TextGoes == TableGone => ~typed

LEMMA TextGoesStep == ASSUME DraftsInv, TextGoes, [DraftsNext]_dvars PROVE TextGoes'
<1> USE DEF TextGoes
<1>1. query \in Entries(Nat)
  BY DEF DraftsInv, FormInv, TextsOK
<1>2. CASE OpenPanel \/ OpenDialog
  BY <1>2 DEF OpenPanel, OpenDialog, Opening, Fill, fill, TableGone
<1>3. CASE OpenVhost \/ OpenFile
  BY <1>3 DEF OpenVhost, OpenFile, Opening, TableGone, Tables
<1>4. CASE CloseForm \/ UNCHANGED dvars
  BY <1>4 DEF CloseForm, dvars, fill, TableGone
<1>5. CASE TypeText
  BY <1>5 DEF TypeText, TableGone
<1>6. CASE Save \/ SaveByKey
  BY <1>6 DEF Save, SaveByKey, Send, fill, TableGone
<1>7. ASSUME NEW i \in DOMAIN saves, SaveApplied(i) \/ SaveFails(i) PROVE TextGoes'
  BY <1>7 DEF SaveApplied, SaveFails, fill, TableGone
<1>8. ASSUME NEW i \in DOMAIN saves, SaveTold(i) PROVE TextGoes'
  <2>1. query' \in {query, Invalidate(query, TRUE)} /\ UNCHANGED <<form, typed>>
    BY <1>8 DEF SaveTold
  <2>2. CASE ~query'.failed
    BY <2>2 DEF TableGone
  <2>3. CASE query'.failed
    <3>1. query.failed
      BY <1>1, <2>1, <2>3 DEF Invalidate, Refetch, Ask, Entries
    <3>. QED
      BY <2>1, <3>1 DEF TableGone
  <2>. QED
    BY <2>2, <2>3
<1>9. CASE OthersWrite \/ ServersChange
  BY <1>9 DEF OthersWrite, ServersChange, Fill, fill, TableGone
<1>10. CASE AskAgain \/ RowAnswered
  <2>1. query' \in {query, Ask(query), Answer(query, stored)} /\ UNCHANGED <<form, typed>>
    BY <1>10 DEF AskAgain, RowAnswered, Fetch, fill
  <2>. QED
    BY <1>1, <2>1 DEF Ask, Answer, Entries, TableGone
<1>11. CASE RowDelivered
  BY <1>11 DEF RowDelivered, Deliver, TableGone
<1>12. CASE RowFails
  BY <1>12 DEF RowFails, Clear, TableGone
<1>. QED
  BY <1>2, <1>3, <1>4, <1>5, <1>6, <1>7, <1>8, <1>9, <1>10, <1>11, <1>12 DEF DraftsNext

ReplacedByRow ==
  \/ form \in Live /\ query'.data # query.data
  \/ form \in SiteForms /\ lists' # lists
  \/ TableGone'

ListsOK == lists \in Nat

LEMMA ListsStep == ASSUME ListsOK, [DraftsNext]_dvars PROVE ListsOK'
<1> USE DEF ListsOK
<1>1. CASE OpenPanel \/ OpenDialog \/ OpenVhost \/ OpenFile
  BY <1>1 DEF OpenPanel, OpenDialog, OpenVhost, OpenFile, Opening
<1>2. CASE CloseForm \/ UNCHANGED dvars
  BY <1>2 DEF CloseForm, dvars, dbounds
<1>3. CASE TypeText \/ Save \/ SaveByKey
  BY <1>3 DEF TypeText, Save, SaveByKey, Send, dbounds
<1>4. ASSUME NEW i \in DOMAIN saves, SaveApplied(i) \/ SaveFails(i) \/ SaveTold(i) PROVE ListsOK'
  BY <1>4 DEF SaveApplied, SaveFails, SaveTold, dbounds
<1>5. CASE OthersWrite \/ AskAgain \/ RowAnswered \/ RowDelivered \/ RowFails
  BY <1>5 DEF OthersWrite, AskAgain, RowAnswered, RowDelivered, RowFails, dbounds
<1>6. CASE ServersChange
  BY <1>6 DEF ServersChange
<1>. QED
  BY <1>1, <1>2, <1>3, <1>4, <1>5, <1>6 DEF DraftsNext

LEMMA TypedStep ==
  ASSUME DraftsInv, FileLoadsOnce, TextGoes, ListsOK, [DraftsNext]_dvars,
         formOpen, formOpen', typed, ~typed'
  PROVE  ReplacedByRow
<1>1. ~(OpenPanel \/ OpenDialog \/ OpenVhost \/ OpenFile)
  BY DEF OpenPanel, OpenDialog, OpenVhost, OpenFile, Opening
<1>2. ~(CloseForm \/ UNCHANGED dvars)
  BY DEF CloseForm, dvars, fill
<1>3. ~(TypeText \/ Save \/ SaveByKey)
  BY DEF TypeText, Save, SaveByKey, Send, fill
<1>4. ASSUME NEW i \in DOMAIN saves PROVE ~(SaveApplied(i) \/ SaveFails(i) \/ SaveTold(i))
  BY DEF SaveApplied, SaveFails, SaveTold, fill
<1>5. ~(OthersWrite \/ AskAgain \/ RowAnswered)
  BY DEF OthersWrite, AskAgain, RowAnswered, fill
<1>6. CASE ServersChange
  BY <1>6 DEF ServersChange, ReplacedByRow, ListsOK
<1>7. CASE RowDelivered
  <2>1. query.flight = "answered" /\ query'.data = query.got
    BY <1>7 DEF RowDelivered, Deliver
  <2>2. query.got # query.data /\ form \in Live \cup {"file"}
    <3>1. ~TableGone
      BY DEF TextGoes
    <3>. QED
      BY <1>7, <3>1 DEF RowDelivered, fill
  <2>3. form # "file"
    BY <2>1 DEF FileLoadsOnce
  <2>. QED
    BY <2>1, <2>2, <2>3 DEF ReplacedByRow
<1>8. CASE RowFails
  <2>1. form \in Tables
    BY <1>8 DEF RowFails, fill
  <2>2. query'.failed
    <3>1. query \in Entries(Nat)
      BY DEF DraftsInv, FormInv, TextsOK
    <3>. QED
      BY <1>8, <3>1 DEF RowFails, Fail, Entries
  <2>. QED
    BY <1>8, <2>1, <2>2 DEF RowFails, ReplacedByRow, TableGone
<1>. QED
  BY <1>1, <1>2, <1>3, <1>4, <1>5, <1>6, <1>7, <1>8 DEF DraftsNext

\* What the user typed into a form that stays open is replaced by another row of the
\* query it follows or by a change of the list of servers, or goes with a table whose
\* query fails; nothing else takes it, and no other form loses it so.
THEOREM TypingIsKept == DraftsSpec => TypedTextStands
<1>1. DraftsInit => FileLoadsOnce /\ TextGoes /\ ListsOK
  BY DEF DraftsInit, FileLoadsOnce, TextGoes, ListsOK, Editors, Dialogs, SiteForms, Empty
<1>2. ListsOK /\ [DraftsNext]_dvars => ListsOK'
  BY ListsStep
<1>3. DraftsInv /\ FileLoadsOnce /\ [DraftsNext]_dvars => FileLoadsOnce'
  BY FileLoadsOnceStep
<1>4. DraftsInv /\ TextGoes /\ [DraftsNext]_dvars => TextGoes'
  BY TextGoesStep
<1>5. DraftsInv /\ FileLoadsOnce /\ TextGoes /\ ListsOK /\ [DraftsNext]_dvars
        => [formOpen /\ formOpen' /\ typed /\ ~typed' => ReplacedByRow]_dvars
  BY TypedStep
<1>6. DraftsSpec => [][formOpen /\ formOpen' /\ typed /\ ~typed' => ReplacedByRow]_dvars
  BY <1>1, <1>2, <1>3, <1>4, <1>5, DraftsInvariant, PTL DEF DraftsSpec
<1>. QED
  BY <1>6 DEF TypedTextStands, ReplacedByRow
-----------------------------------------------------------------------------
(* The ranges of the forms. *)

SaveRecord ==
  [text : Text, state : {"sent", "done", "told", "failed"}, mount : 0 .. MaxOpens,
   blind : BOOLEAN]

FlagsOK == formOpen \in BOOLEAN /\ typed \in BOOLEAN /\ based \in BOOLEAN /\ dirty \in BOOLEAN

ContentsOK ==
  stored \in Text /\ clicked \in Text /\ draft \in Text /\ query \in Entries(Text)

CountersOK ==
  /\ form \in Form /\ texts \in 0 .. MaxTexts /\ opens \in 0 .. MaxOpens
  /\ lists \in Nat /\ mishaps \in 0 .. MaxMishaps /\ lists <= mishaps

SavesTyped == saves \in Seq(SaveRecord) /\ Len(saves) <= MaxSaves

DraftsTyped == FlagsOK /\ ContentsOK /\ CountersOK /\ SavesTyped

LEMMA DraftsTypedInitially == DraftsInit => DraftsTyped
<1> SUFFICES ASSUME DraftsInit PROVE DraftsTyped
  OBVIOUS
<1>1. FlagsOK
  BY Zenon DEF DraftsInit, FlagsOK
<1>2. query \in Entries(Text)
  <2>1. Empty \in Entries(Text) /\ 1 \in Text
    BY DEF Empty, Entries, Text
  <2>. QED
    BY <2>1, EntryOperations DEF DraftsInit
<1>3. ContentsOK /\ CountersOK /\ SavesTyped
  BY <1>2 DEF DraftsInit, ContentsOK, CountersOK, SavesTyped, Text, Blank
<1>. QED
  BY <1>1, <1>3 DEF DraftsTyped

LEMMA FlagsStep == ASSUME FlagsOK, [DraftsNext]_dvars PROVE FlagsOK'
<1> USE DEF FlagsOK
<1>1. CASE OpenPanel \/ OpenDialog \/ OpenVhost \/ OpenFile
  BY <1>1, Zenon DEF OpenPanel, OpenDialog, OpenVhost, OpenFile, Opening, Fill, Clear, fill
<1>2. CASE CloseForm
  BY <1>2, Zenon DEF CloseForm, fill
<1>3. CASE TypeText
  BY <1>3, Zenon DEF TypeText
<1>4. CASE Save \/ SaveByKey
  BY <1>4, Zenon DEF Save, SaveByKey, Send, fill
<1>5. ASSUME NEW i \in DOMAIN saves, SaveApplied(i) \/ SaveFails(i) PROVE FlagsOK'
  BY <1>5, Zenon DEF SaveApplied, SaveFails, fill
<1>6. ASSUME NEW i \in DOMAIN saves, SaveTold(i) PROVE FlagsOK'
  BY <1>6, Zenon DEF SaveTold
<1>7. CASE OthersWrite \/ AskAgain \/ RowAnswered \/ RowFails
  BY <1>7, Zenon DEF OthersWrite, AskAgain, RowAnswered, RowFails, Clear, fill
<1>8. CASE RowDelivered
  BY <1>8, Zenon DEF RowDelivered, Fill, fill
<1>9. CASE ServersChange
  BY <1>9, Zenon DEF ServersChange, Fill
<1>10. CASE UNCHANGED dvars
  BY <1>10, Zenon DEF dvars, fill
<1>. QED
  BY <1>1, <1>2, <1>3, <1>4, <1>5, <1>6, <1>7, <1>8, <1>9, <1>10 DEF DraftsNext

LEMMA CountersStep == ASSUME CountersOK, [DraftsNext]_dvars PROVE CountersOK'
<1> USE DEF CountersOK
<1>1. CASE OpenPanel \/ OpenDialog \/ OpenVhost \/ OpenFile
  BY <1>1 DEF OpenPanel, OpenDialog, OpenVhost, OpenFile, Opening
<1>2. CASE CloseForm \/ Save \/ SaveByKey
  BY <1>2 DEF CloseForm, Save, SaveByKey, Send, dbounds
<1>3. CASE TypeText \/ OthersWrite
  BY <1>3 DEF TypeText, OthersWrite, NewText
<1>4. ASSUME NEW i \in DOMAIN saves, SaveApplied(i) \/ SaveTold(i) \/ SaveFails(i) PROVE CountersOK'
  <2>1. CASE UNCHANGED <<form, dbounds>>
    BY <2>1 DEF dbounds
  <2>2. CASE SaveFails(i)
    BY <2>2 DEF SaveFails, Mishap
  <2>. QED
    BY <1>4, <2>1, <2>2 DEF SaveApplied, SaveTold
<1>5. CASE AskAgain \/ RowAnswered \/ RowDelivered \/ UNCHANGED dvars
  BY <1>5 DEF AskAgain, RowAnswered, RowDelivered, dvars, dbounds
<1>6. CASE RowFails \/ ServersChange
  BY <1>6 DEF RowFails, ServersChange, Mishap
<1>. QED
  BY <1>1, <1>2, <1>3, <1>4, <1>5, <1>6 DEF DraftsNext

\* What a form is filled from is a row that has been answered: the dialogs open over a list
\* that was loaded, the others wait for their answer.
LEMMA ContentsStep ==
  ASSUME DraftsInv, ContentsOK, CountersOK, SavesTyped, [DraftsNext]_dvars
  PROVE  ContentsOK'
<1> USE DEF ContentsOK
<1>1. /\ Blank \in Text /\ Empty \in Entries(Text)
      /\ \A e \in Entries(Text) : e.data # Nothing => e.data \in Text
      /\ \A e \in Entries(Text) : e.got # Nothing => e.got \in Text
  BY DEF Blank, Text, Empty, Entries
<1>2. /\ form \in Dialogs => query.data # Nothing
      /\ query.flight = "answered" => query.got # Nothing
  BY DEF DraftsInv, FormInv, AnswersOK
<1>3. NewText => texts' \in Text
  BY DEF NewText, Text, CountersOK
<1>4. CASE OpenPanel
  BY <1>4 DEF OpenPanel, Opening, fill
<1>5. CASE OpenDialog
  BY <1>1, <1>2, <1>5 DEF OpenDialog, Opening, Fill
<1>6. CASE OpenVhost
  <2>1. query' \in Entries(Text)
    BY <1>6, EntryOperations DEF OpenVhost
  <2>2. draft' \in Text /\ UNCHANGED <<stored, clicked>>
    BY <1>1, <1>6 DEF OpenVhost, Opening, Fill, Clear
  <2>. QED
    BY <2>1, <2>2
<1>7. CASE OpenFile
  <2>1. query' \in Entries(Text)
    BY <1>1, <1>7, EntryOperations DEF OpenFile
  <2>. QED
    BY <1>1, <1>7, <2>1 DEF OpenFile, Opening, Clear
<1>8. CASE CloseForm \/ Save \/ SaveByKey \/ UNCHANGED dvars
  BY <1>8 DEF CloseForm, Save, SaveByKey, Send, dvars, fill
<1>9. CASE TypeText \/ OthersWrite
  BY <1>3, <1>9 DEF TypeText, OthersWrite, fill
<1>10. ASSUME NEW i \in DOMAIN saves, SaveApplied(i) PROVE ContentsOK'
  <2>1. saves[i] \in SaveRecord
    BY DEF SavesTyped
  <2>2. saves[i].text \in Text
    BY <2>1 DEF SaveRecord
  <2>. QED
    BY <1>10, <2>2 DEF SaveApplied, fill
<1>11. ASSUME NEW i \in DOMAIN saves, SaveFails(i) PROVE ContentsOK'
  BY <1>11 DEF SaveFails, fill
<1>12. ASSUME NEW i \in DOMAIN saves, SaveTold(i) PROVE ContentsOK'
  <2>1. query' \in Entries(Text)
    BY <1>12, EntryOperations DEF SaveTold
  <2>. QED
    BY <1>12, <2>1 DEF SaveTold
<1>13. CASE AskAgain \/ RowAnswered \/ RowFails
  <2>1. query' \in Entries(Text)
    BY <1>13, EntryOperations DEF AskAgain, RowAnswered, RowFails
  <2>. QED
    BY <1>1, <1>13, <2>1 DEF AskAgain, RowAnswered, RowFails, Clear, fill
<1>14. CASE RowDelivered
  <2>1. query' \in Entries(Text)
    BY <1>14, EntryOperations DEF RowDelivered
  <2>2. query.got \in Text
    BY <1>1, <1>2, <1>14 DEF RowDelivered
  <2>. QED
    BY <1>14, <2>1, <2>2 DEF RowDelivered, Fill, fill
<1>15. CASE ServersChange
  <2>1. Row \in Text
    BY <1>1, <1>2, <1>15 DEF ServersChange, Row, SiteForms, Dialogs
  <2>. QED
    BY <1>15, <2>1 DEF ServersChange, Fill
<1>. QED
  BY <1>4, <1>5, <1>6, <1>7, <1>8, <1>9, <1>10, <1>11, <1>12, <1>13, <1>14, <1>15 DEF DraftsNext

LEMMA SavesTypedStep ==
  ASSUME ContentsOK, CountersOK, SavesTyped, [DraftsNext]_dvars
  PROVE  SavesTyped'
<1> USE DEF SavesTyped
<1>1. CASE UNCHANGED saves
  BY <1>1
<1>2. CASE Save \/ SaveByKey
  <2>1. PICK b \in BOOLEAN :
          saves' = Append(saves, [text |-> draft, state |-> "sent", mount |-> opens, blind |-> b])
    BY <1>2, Zenon DEF Save, SaveByKey, Send
  <2>2. [text |-> draft, state |-> "sent", mount |-> opens, blind |-> b] \in SaveRecord
    BY DEF ContentsOK, CountersOK, SaveRecord
  <2>3. Len(saves) < MaxSaves
    BY <1>2 DEF Save, SaveByKey, Send
  <2>. QED
    BY <2>1, <2>2, <2>3
<1>3. ASSUME NEW i \in DOMAIN saves, SaveApplied(i) \/ SaveFails(i) \/ SaveTold(i)
      PROVE  SavesTyped'
  <2>1. PICK st \in {"done", "told", "failed"} : saves' = [saves EXCEPT ![i].state = st]
    BY <1>3 DEF SaveApplied, SaveFails, SaveTold
  <2>2. saves[i] \in SaveRecord
    OBVIOUS
  <2>3. [saves[i] EXCEPT !.state = st] \in SaveRecord
    BY <2>2 DEF SaveRecord
  <2>. QED
    BY <2>1, <2>3
<1>4. CASE OpenPanel \/ OpenDialog \/ OpenVhost \/ OpenFile \/ CloseForm \/ TypeText
  BY <1>1, <1>4 DEF OpenPanel, OpenDialog, OpenVhost, OpenFile, Opening, CloseForm, TypeText
<1>5. CASE OthersWrite \/ ServersChange \/ AskAgain \/ RowAnswered \/ RowDelivered
           \/ UNCHANGED dvars
  BY <1>1, <1>5 DEF OthersWrite, ServersChange, AskAgain, RowAnswered, RowDelivered, dvars
<1>6. CASE RowFails
  <2>1. ASSUME NEW i \in DOMAIN saves PROVE [saves[i] EXCEPT !.mount = Unmounted] \in SaveRecord
    <3>1. saves[i] \in SaveRecord
      OBVIOUS
    <3>. QED
      BY <3>1 DEF SaveRecord, Unmounted
  <2>2. \/ UNCHANGED saves
        \/ saves' = [i \in DOMAIN saves |-> [saves[i] EXCEPT !.mount = Unmounted]]
    BY <1>6 DEF RowFails
  <2>. QED
    BY <1>1, <2>1, <2>2
<1>. QED
  BY <1>2, <1>3, <1>4, <1>5, <1>6 DEF DraftsNext

\* The variables of the forms keep their ranges: a form is filled with nothing but a text.
THEOREM DraftsTypeCorrect == DraftsSpec => []DraftsTypeOK
<1>1. DraftsInv /\ DraftsTyped /\ [DraftsNext]_dvars => DraftsTyped'
  BY FlagsStep, CountersStep, ContentsStep, SavesTypedStep DEF DraftsTyped
<1>2. DraftsTyped => DraftsTypeOK
  <2> SUFFICES ASSUME DraftsTyped PROVE DraftsTypeOK
    OBVIOUS
  <2> USE DEF DraftsTyped
  <2>1. Len(saves) \in 0 .. MaxSaves /\ \A i \in DOMAIN saves : saves[i] \in SaveRecord
    BY DEF SavesTyped
  <2>2. lists \in 0 .. MaxMishaps
    BY DEF CountersOK
  <2>. QED
    BY <2>1, <2>2, Zenon DEF DraftsTypeOK, FlagsOK, ContentsOK, CountersOK, SaveRecord
<1>. QED
  BY <1>1, <1>2, DraftsTypedInitially, DraftsInvariant, PTL DEF DraftsSpec

HIDE DraftsAssumption DEF DraftsAssumption
-----------------------------------------------------------------------------
(* The file manager.  For any directories and names and any number of requests,
   moves and failures: what it acts on was listed, and what it lists is not
   older than what it has told the user.

   Answers are positions in the history of a directory, which only grows; so
   both results are about positions that stay valid (ListingsRead).
   ListingUpToDate needs the same two parts as the panels do: an answer on its
   way is new enough, and nothing is owed to a listing that is not there.
   OnlyListedItems needs it of the open dialog (DialogListed). *)

Requests ==
  [no : Nat, kind : Kind, names : SUBSET Name, dir : Dir, into : Dir,
   moved : BOOLEAN, left : SUBSET Name, failed : BOOLEAN, wrote : Nat]

FileRangesOK ==
  /\ here \in Dir /\ captured \in Dir
  /\ holds \in [Dir -> Seq(SUBSET Name)] /\ \A d \in Dir : holds[d] # <<>>
  /\ listing \in [Dir -> Entries(Nat)]
  /\ reqs \subseteq Requests /\ told \in Nat /\ sent \in Nat
  /\ dialog.names \subseteq Name /\ (dialog.kind = "none" \/ dialog.kind \in Kind)

\* What was read of a directory is a state it has been in.
ListingsRead ==
  \A d \in Dir :
    /\ listing[d].data # Nothing => listing[d].data \in DOMAIN holds[d]
    /\ listing[d].flight = "answered" => listing[d].got \in DOMAIN holds[d]
    /\ listing[d].fresh => listing[d].data # Nothing

WritesHappened ==
  /\ told <= Len(holds[here])
  /\ \A r \in reqs : r.wrote <= Len(holds[r.into])

ShownIsNew ==
  /\ listing[here].data = Nothing => told = 0
  /\ listing[here].flight = "answered" => listing[here].got >= told
  /\ AtRest(listing[here]) => listing[here].data # Nothing
  /\ ListingUpToDate

Listed(names, d) == \E v \in DOMAIN holds[d] : names \subseteq holds[d][v]

DialogListed ==
  dialog.kind \notin {"none", "mkdir"} => dialog.of \in Dir /\ Listed(dialog.names, dialog.of)

FilesInv ==
  FileRangesOK /\ ListingsRead /\ WritesHappened /\ ShownIsNew /\ DialogListed /\ OnlyListedItems

USE FilesAssumption DEF FilesAssumption

LEMMA FilesInitially == FilesInit => FilesInv
<1> SUFFICES ASSUME FilesInit PROVE FilesInv
  OBVIOUS
<1>1. /\ here \in Dir /\ captured = here /\ reqs = {} /\ told = 0 /\ sent = 0
      /\ holds = [d \in Dir |-> <<Files[d]>>]
      /\ listing = [d \in Dir |-> IF d = here THEN Ask(Empty) ELSE Empty]
      /\ dialog.kind = "none" /\ dialog.names = {}
  BY DEF FilesInit, NoDialog
<1>2. /\ Empty \in Entries(Nat) /\ Ask(Empty) \in Entries(Nat)
      /\ Empty.data = Nothing /\ Ask(Empty).data = Nothing
      /\ Empty.flight = "idle" /\ Ask(Empty).flight = "asked"
      /\ ~Empty.fresh /\ ~Ask(Empty).fresh
  BY DEF Empty, Ask, Entries, Nothing
<1>3. \A d \in Dir : holds[d] \in Seq(SUBSET Name) /\ Len(holds[d]) = 1 /\ holds[d] # <<>>
  BY <1>1
<1>4. FileRangesOK
  BY <1>1, <1>2, <1>3 DEF FileRangesOK
<1>5. ListingsRead
  BY <1>1, <1>2 DEF ListingsRead
<1>6. WritesHappened /\ ShownIsNew /\ DialogListed /\ OnlyListedItems
  BY <1>1, <1>2, <1>3 DEF WritesHappened, ShownIsNew, DialogListed, OnlyListedItems,
     ListingUpToDate, AtRest
<1>. QED
  BY <1>4, <1>5, <1>6 DEF FilesInv

\* What was listed once stays listed: the history of a directory only grows.
LEMMA ListedStays ==
  ASSUME FileRangesOK, NEW d \in Dir, NEW now \in SUBSET Name, Write(d, now)
  PROVE  /\ holds' \in [Dir -> Seq(SUBSET Name)] /\ \A e \in Dir : holds'[e] # <<>>
         /\ Len(holds'[d]) = Len(holds[d]) + 1
         /\ \A e \in Dir : /\ DOMAIN holds[e] \subseteq DOMAIN holds'[e]
                           /\ Len(holds[e]) <= Len(holds'[e])
         /\ \A e \in Dir : \A v \in DOMAIN holds[e] : holds'[e][v] = holds[e][v]
<1>1. holds' = [holds EXCEPT ![d] = Append(holds[d], now)]
  BY DEF Write
<1>2. \A e \in Dir : holds[e] \in Seq(SUBSET Name) /\ holds[e] # <<>>
  BY DEF FileRangesOK
<1>3. /\ Append(holds[d], now) \in Seq(SUBSET Name) /\ Append(holds[d], now) # <<>>
      /\ Len(Append(holds[d], now)) = Len(holds[d]) + 1
      /\ DOMAIN holds[d] \subseteq DOMAIN Append(holds[d], now)
      /\ \A v \in DOMAIN holds[d] : Append(holds[d], now)[v] = holds[d][v]
  BY <1>2
<1>4. /\ holds'[d] = Append(holds[d], now)
      /\ \A e \in Dir \ {d} : holds'[e] = holds[e]
  BY <1>1 DEF FileRangesOK
<1>5. holds' \in [Dir -> Seq(SUBSET Name)]
  BY <1>1, <1>3 DEF FileRangesOK
<1>6. ASSUME NEW e \in Dir
      PROVE  /\ DOMAIN holds[e] \subseteq DOMAIN holds'[e] /\ holds'[e] # <<>>
             /\ Len(holds[e]) <= Len(holds'[e])
             /\ \A v \in DOMAIN holds[e] : holds'[e][v] = holds[e][v]
  <2>1. CASE e = d
    <3>1. Len(holds[d]) \in Nat
      BY <1>2
    <3>. QED
      BY <1>3, <1>4, <2>1, <3>1
  <2>2. CASE e # d
    <3>1. holds'[e] = holds[e] /\ Len(holds[e]) \in Nat
      BY <1>2, <1>4, <2>2
    <3>. QED
      BY <1>2, <3>1
  <2>. QED
    BY <2>1, <2>2
<1>. QED
  BY <1>3, <1>4, <1>5, <1>6

\* Moving, ticking, opening a dialog and closing it.
LEMMA PageStep ==
  ASSUME FilesInv,
         \/ \E d \in Dir : navigate(d) \/ handleServerChange(d) \/ BackOrForward(d)
         \/ \E item \in Name, range \in SUBSET Name : toggleItem(item, range)
         \/ toggleAll \/ NewFolderButton \/ Cancel
         \/ \E kind \in Asking : FloatingBarButton(kind) \/ \E n \in Name : ContextMenuItem(kind, n)
  PROVE  FilesInv'
<1> USE DEF FilesInv
<1>1. ASSUME NEW d \in Dir, MoveTo(d) PROVE FilesInv'
  <2>1. /\ here' = d /\ captured' \in {captured, d} /\ told' = 0
        /\ UNCHANGED <<holds, dialog, reqs, sent>>
    BY <1>1 DEF MoveTo
  <2>2. PICK e \in Mounted(listing[d]) : listing' = [listing EXCEPT ![d] = e]
    BY <1>1 DEF MoveTo
  <2>3. listing[d] \in Entries(Nat)
    BY DEF FileRangesOK
  <2>4. /\ e \in Entries(Nat) /\ e.data = listing[d].data
        /\ e.flight = "answered" => listing[d].flight = "answered" /\ e.got = listing[d].got
        /\ e.fresh = listing[d].fresh
        /\ e.flight = "idle" => e.fresh
    BY <2>2, <2>3 DEF Mounted, Fetch, Ask, Entries, Nothing
  <2>5. listing'[d] = e /\ \A c \in Dir \ {d} : listing'[c] = listing[c]
    BY <2>2 DEF FileRangesOK
  <2>6. FileRangesOK'
    BY <2>1, <2>2, <2>4 DEF FileRangesOK
  <2>7. ListingsRead'
    BY <2>1, <2>4, <2>5 DEF ListingsRead
  <2>8. WritesHappened' /\ DialogListed' /\ OnlyListedItems'
    <3>1. 0 <= Len(holds[d])
      BY DEF FileRangesOK
    <3>2. WritesHappened'
      BY <2>1, <3>1 DEF WritesHappened
    <3>. QED
      BY <2>1, <3>2 DEF DialogListed, Listed, OnlyListedItems
  <2>9. ShownIsNew'
    <3>1. DOMAIN holds[d] \subseteq Nat
      BY DEF FileRangesOK
    <3>2. /\ e.data # Nothing => e.data >= 0
          /\ e.flight = "answered" => e.got >= 0
          /\ AtRest(e) => e.data # Nothing
      BY <2>4, <3>1 DEF ListingsRead, AtRest
    <3>. QED
      BY <2>1, <2>5, <3>2 DEF ShownIsNew, ListingUpToDate, AtRest
  <2>. QED
    BY <2>6, <2>7, <2>8, <2>9
<1>2. ASSUME UNCHANGED <<urls, holds, listing, dialog, reqs, told, fbounds>> PROVE FilesInv'
  BY <1>2 DEF urls, fbounds, FileRangesOK, ListingsRead, WritesHappened, ShownIsNew, ListingUpToDate,
     DialogListed, Listed, OnlyListedItems
<1>3. ASSUME NEW kind \in Kind, NEW names \in SUBSET Name, OpenAsk(kind, names),
             kind # "mkdir" => names \subseteq Items /\ names # {}
      PROVE  FilesInv'
  <2>1. /\ dialog' = [kind |-> kind, names |-> names, of |-> here]
        /\ UNCHANGED <<here, captured, holds, listing, reqs, told, sent>>
    BY <1>3 DEF OpenAsk, urls, fbounds
  <2>2. kind # "mkdir" => Listed(names, here)
    <3>1. Items # {} => listing[here].data \in DOMAIN holds[here] /\ Items = holds[here][listing[here].data]
      BY DEF Items, ListingsRead, FileRangesOK
    <3>. QED
      BY <1>3, <3>1 DEF Listed
  <2>3. DialogListed'
    BY <2>1, <2>2 DEF DialogListed, Listed, FileRangesOK
  <2>4. FileRangesOK'
    BY <2>1 DEF FileRangesOK
  <2>. QED
    BY <2>1, <2>3, <2>4 DEF ListingsRead, WritesHappened, ShownIsNew, ListingUpToDate, OnlyListedItems
<1>4. CASE NewFolderButton
  BY <1>3, <1>4 DEF NewFolderButton, OpenAsk
<1>5. ASSUME NEW kind \in Asking, NEW n \in Name, ContextMenuItem(kind, n) PROVE FilesInv'
  BY <1>3, <1>5 DEF ContextMenuItem, Asking
<1>6. ASSUME NEW kind \in Asking, FloatingBarButton(kind) PROVE FilesInv'
  <2>1. Items \subseteq Name
    BY DEF Items, FileRangesOK, ListingsRead
  <2>. QED
    BY <1>3, <1>6, <2>1 DEF FloatingBarButton, selectedItems, Asking
<1>7. CASE Cancel
  <2>1. /\ dialog'.kind = "none" /\ dialog'.names = {}
        /\ UNCHANGED <<here, captured, holds, listing, reqs, told, sent>>
    BY <1>7 DEF Cancel, NoDialog, urls, fbounds
  <2>. QED
    BY <2>1 DEF FileRangesOK, ListingsRead, WritesHappened, ShownIsNew, ListingUpToDate, DialogListed,
       OnlyListedItems
<1>. QED
  BY <1>1, <1>2, <1>4, <1>5, <1>6, <1>7 DEF navigate, handleServerChange, BackOrForward, toggleItem, toggleAll

\* A new request: of the dialog, where it was opened unless the URL changed behind it;
\* of an archive in the listing; or of files that are uploaded.
LEMMA RequestStep ==
  ASSUME FilesInv, Confirm \/ \E n \in Name : Extract(n) \/ handleFiles(n)
  PROVE  FilesInv'
<1> USE DEF FilesInv
<1>1. ASSUME NEW kind \in Kind, NEW names \in SUBSET Name, NEW d \in Dir, NEW i \in Dir,
             NEW moved \in BOOLEAN, Request(kind, names, d, i, moved),
             UNCHANGED <<here, captured, holds, listing>>,
             kind \notin {"mkdir", "upload"} /\ ~moved => Listed(names, d)
      PROVE  FilesInv'
  <2> DEFINE r == [no |-> sent, kind |-> kind, names |-> names, dir |-> d, into |-> i,
                   moved |-> moved, left |-> names, failed |-> FALSE, wrote |-> 0]
  <2>1. /\ reqs' = reqs \cup {r} /\ sent' = sent + 1 /\ UNCHANGED <<dialog, told>>
        /\ UNCHANGED <<here, captured, holds, listing>>
    BY <1>1 DEF Request
  <2>2. /\ r \in Requests /\ r.wrote = 0 /\ r.kind = kind /\ r.names = names /\ r.dir = d
        /\ r.into = i /\ r.moved = moved
    BY DEF Requests, FileRangesOK
  <2>. HIDE DEF r
  <2>3. 0 <= Len(holds[i])
    BY DEF FileRangesOK
  <2>4. OnlyListedItems'
    BY <1>1, <2>1, <2>2 DEF OnlyListedItems, Listed
  <2>5. FileRangesOK' /\ WritesHappened'
    BY <2>1, <2>2, <2>3 DEF FileRangesOK, WritesHappened
  <2>. QED
    BY <2>1, <2>4, <2>5 DEF ListingsRead, ShownIsNew, ListingUpToDate, DialogListed, Listed
<1>2. CASE Confirm
  <2>1. PICK d \in Dir, names \in SUBSET Name :
          /\ d.server = here.server
          /\ d.path = IF dialog.kind = "mkdir" THEN here.path ELSE dialog.of.path
          /\ dialog.kind # "mkdir" => names = dialog.names
          /\ Request(dialog.kind, names, d, IF dialog.kind = "compress" THEN here ELSE d,
                     dialog.of # here)
    BY <1>2 DEF Confirm
  <2>2. dialog.kind \in Kind /\ dialog.kind # "none"
    BY <1>2, <2>1 DEF Confirm, Free, Request
  <2>3. ASSUME dialog.kind # "mkdir", ~(dialog.of # here) PROVE Listed(names, d)
    <3>1. d = here
      BY <2>1, <2>3 DEF FileRangesOK
    <3>. QED
      BY <2>1, <2>2, <2>3, <3>1 DEF DialogListed
  <2>4. UNCHANGED <<here, captured, holds, listing>>
    BY <2>1 DEF Request, urls
  <2>5. (IF dialog.kind = "compress" THEN here ELSE d) \in Dir
    BY DEF FileRangesOK
  <2>. QED
    BY <1>1, <2>1, <2>2, <2>3, <2>4, <2>5
<1>3. ASSUME NEW n \in Name, Extract(n) PROVE FilesInv'
  <2>1. Listed({n}, here)
    BY <1>3 DEF Extract, Items, Listed, ListingsRead, FileRangesOK
  <2>2. "extract" \in Kind /\ UNCHANGED <<here, captured, holds, listing>> /\ here \in Dir
    BY <1>3 DEF Extract, Request, urls, FileRangesOK
  <2>. QED
    BY <1>1, <1>3, <2>1, <2>2 DEF Extract
<1>4. ASSUME NEW n \in Name, handleFiles(n) PROVE FilesInv'
  <2>1. /\ "upload" \in Kind /\ UNCHANGED <<here, captured, holds, listing>> /\ captured \in Dir
        /\ (captured # here) \in BOOLEAN
    BY <1>4 DEF handleFiles, Request, urls, FileRangesOK
  <2>. QED
    BY <1>1, <1>4, <2>1 DEF handleFiles
<1>. QED
  BY <1>2, <1>3, <1>4

\* The server works on an item: the directory gets a new state.
LEMMA WorksStep ==
  ASSUME FilesInv, NEW r \in reqs, NEW n \in Name, Works(r, n)
  PROVE  FilesInv'
<1> USE DEF FilesInv
<1> DEFINE m == [r EXCEPT !.left = Others(r, n), !.wrote = Len(holds'[r.into])]
<1>1. /\ reqs' = (reqs \ {r}) \cup {m}
      /\ UNCHANGED <<here, captured, listing, dialog, told, sent>>
  BY DEF Works, urls, fbounds
<1>2. r \in Requests /\ r.dir \in Dir /\ r.into \in Dir
  BY DEF FileRangesOK, Requests
<1>3. \A e \in Dir : holds[e] \in Seq(SUBSET Name) /\ holds[e] # <<>>
  BY DEF FileRangesOK
<1>4. \A e \in Dir : Current(e) \in SUBSET Name
  BY <1>3 DEF Current
<1>5. PICK d \in {r.dir, r.into}, now \in SUBSET Name : Write(d, now)
  BY <1>2, <1>4 DEF Works
<1>6. /\ holds' \in [Dir -> Seq(SUBSET Name)] /\ \A e \in Dir : holds'[e] # <<>>
      /\ \A e \in Dir : DOMAIN holds[e] \subseteq DOMAIN holds'[e] /\ Len(holds[e]) <= Len(holds'[e])
      /\ \A e \in Dir : \A v \in DOMAIN holds[e] : holds'[e][v] = holds[e][v]
  BY <1>2, <1>5, ListedStays
<1>7. Len(holds'[r.into]) \in Nat
  BY <1>2, <1>6
<1>8. /\ m \in Requests /\ m.wrote = Len(holds'[r.into])
      /\ m.kind = r.kind /\ m.names = r.names /\ m.dir = r.dir /\ m.into = r.into
      /\ m.moved = r.moved
  BY <1>2, <1>7 DEF Requests, Others
<1>. HIDE DEF m
<1>9. \A e \in Dir : \A names : Listed(names, e) => Listed(names, e)'
  BY <1>6 DEF Listed
<1>10. FileRangesOK'
  BY <1>1, <1>6, <1>8 DEF FileRangesOK
<1>11. ListingsRead'
  BY <1>1, <1>6 DEF ListingsRead
<1>12. WritesHappened'
  <2>1. \A e \in Dir : Len(holds[e]) \in Nat /\ Len(holds'[e]) \in Nat
    BY <1>6 DEF FileRangesOK
  <2>2. told <= Len(holds'[here])
    BY <1>6, <2>1 DEF WritesHappened, FileRangesOK
  <2>3. ASSUME NEW q \in reqs, q # r PROVE q.wrote <= Len(holds'[q.into])
    <3>1. q.into \in Dir /\ q.wrote \in Nat /\ q.wrote <= Len(holds[q.into])
      BY DEF FileRangesOK, Requests, WritesHappened
    <3>. QED
      BY <1>6, <2>1, <3>1
  <2>4. m.wrote <= Len(holds'[m.into])
    BY <1>7, <1>8
  <2>. QED
    BY <1>1, <2>2, <2>3, <2>4 DEF WritesHappened
<1>13. ShownIsNew'
  BY <1>1 DEF ShownIsNew, ListingUpToDate
<1>14. DialogListed'
  BY <1>1, <1>9 DEF DialogListed
<1>15. OnlyListedItems'
  <2>1. ASSUME NEW q \in reqs', q.kind \notin {"mkdir", "upload"}, ~q.moved
        PROVE  Listed(q.names, q.dir)'
    <3>1. PICK p \in reqs : q.kind = p.kind /\ q.names = p.names /\ q.dir = p.dir /\ q.moved = p.moved
      BY <1>1, <1>8
    <3>2. Listed(p.names, p.dir) /\ p.dir \in Dir
      BY <2>1, <3>1 DEF OnlyListedItems, Listed, FileRangesOK, Requests
    <3>3. Listed(p.names, p.dir)'
      BY <1>6, <3>2 DEF Listed
    <3>. QED
      BY <3>1, <3>3 DEF Listed
  <2>. QED
    BY <2>1 DEF OnlyListedItems, Listed
<1>. QED
  BY <1>10, <1>11, <1>12, <1>13, <1>14, <1>15

\* A request fails, or its success is told.
LEMMA AnswerStep ==
  ASSUME FilesInv, NEW r \in reqs, RequestFails(r) \/ RequestTold(r)
  PROVE  FilesInv'
<1> USE DEF FilesInv
<1>1. r \in Requests /\ r.into \in Dir /\ r.wrote \in Nat /\ r.wrote <= Len(holds[r.into])
  BY DEF FileRangesOK, Requests, WritesHappened
<1>2. CASE RequestFails(r)
  <2>1. /\ dialog' \in {dialog, NoDialog}
        /\ UNCHANGED <<here, captured, holds, listing, told, sent>>
    BY <1>2 DEF RequestFails, urls
  <2>2. ASSUME NEW q \in reqs'
        PROVE  \E p \in reqs : /\ q \in Requests /\ q.kind = p.kind /\ q.names = p.names
                              /\ q.dir = p.dir /\ q.into = p.into
                              /\ q.moved = p.moved /\ q.wrote = p.wrote
    <3>1. CASE q \in reqs
      BY <3>1 DEF FileRangesOK
    <3>2. CASE q \notin reqs
      <4>1. PICK n \in r.names : q = [r EXCEPT !.failed = TRUE, !.left = Others(r, n)]
        BY <1>2, <3>2 DEF RequestFails
      <4>2. Others(r, n) \subseteq Name
        BY <1>1 DEF Others, Requests
      <4>. QED
        BY <1>1, <4>1, <4>2 DEF Requests
    <3>. QED
      BY <3>1, <3>2
  <2>3. OnlyListedItems'
    BY <2>1, <2>2 DEF OnlyListedItems
  <2>4. WritesHappened'
    BY <2>1, <2>2 DEF WritesHappened
  <2>5. dialog' = dialog \/ (dialog'.kind = "none" /\ dialog'.names = {})
    BY <2>1 DEF NoDialog
  <2>6. FileRangesOK' /\ DialogListed'
    <3>1. reqs' \subseteq Requests
      BY <2>2
    <3>. QED
      BY <2>1, <2>5, <3>1 DEF FileRangesOK, DialogListed, Listed
  <2>. QED
    BY <2>1, <2>3, <2>4, <2>6 DEF ListingsRead, ShownIsNew, ListingUpToDate
<1>3. CASE RequestTold(r)
  <2> DEFINE asked == IF r.kind = "upload" THEN r.into ELSE here
             e == Invalidate(listing[asked], asked = here)
  <2>1. /\ reqs' = reqs \ {r} /\ dialog' \in {dialog, NoDialog}
        /\ listing' = [listing EXCEPT ![asked] = e]
        /\ told' = IF r.into = here /\ listing[here].data # Nothing /\ r.wrote > told
                   THEN r.wrote ELSE told
        /\ UNCHANGED <<here, captured, holds, sent>>
    BY <1>3 DEF RequestTold, urls, fbounds
  <2>2. asked \in Dir /\ listing[asked] \in Entries(Nat) /\ (r.into = here => asked = here)
    BY <1>1 DEF FileRangesOK
  <2>3. /\ e \in Entries(Nat) /\ e.data = listing[asked].data
        /\ e.flight = "answered" => listing[asked].flight = "answered" /\ e.got = listing[asked].got
        /\ e.fresh => listing[asked].fresh
        /\ e.flight = "idle" => listing[asked].flight = "idle" /\ e.failed = listing[asked].failed
        /\ asked = here /\ e.data # Nothing => e.flight = "asked"
    BY <2>2 DEF Invalidate, Refetch, Ask, Entries, Nothing
  <2>. HIDE DEF asked, e
  <2>4. listing'[asked] = e /\ \A c \in Dir \ {asked} : listing'[c] = listing[c]
    BY <2>1, <2>2 DEF FileRangesOK
  <2>5. FileRangesOK' /\ WritesHappened' /\ DialogListed' /\ OnlyListedItems'
    <3>1. dialog' = dialog \/ (dialog'.kind = "none" /\ dialog'.names = {})
      BY <2>1 DEF NoDialog
    <3>2. listing' \in [Dir -> Entries(Nat)]
      BY <2>1, <2>2, <2>3 DEF FileRangesOK
    <3>3. told' \in {told, r.wrote} /\ (told' # told => r.into = here)
      BY <2>1
    <3>4. FileRangesOK'
      BY <1>1, <2>1, <3>1, <3>2, <3>3 DEF FileRangesOK
    <3>5. WritesHappened'
      BY <1>1, <2>1, <3>3 DEF WritesHappened
    <3>. QED
      BY <2>1, <3>1, <3>4, <3>5 DEF DialogListed, Listed, OnlyListedItems
  <2>6. ListingsRead'
    BY <2>1, <2>2, <2>3, <2>4 DEF ListingsRead
  <2>7. ShownIsNew'
    <3>1. CASE asked = here
      BY <2>1, <2>2, <2>3, <2>4, <3>1 DEF ShownIsNew, ListingUpToDate, AtRest
    <3>2. CASE asked # here
      BY <2>1, <2>2, <2>4, <3>2 DEF ShownIsNew, ListingUpToDate, AtRest, FileRangesOK
    <3>. QED
      BY <3>1, <3>2
  <2>. QED
    BY <2>5, <2>6, <2>7
<1>. QED
  BY <1>2, <1>3

\* The listing is asked for, answered, delivered, or fails.
LEMMA ListStep ==
  ASSUME FilesInv,
         ListAgain \/ \E d \in Dir : ListAnswered(d) \/ ListDelivered(d) \/ ListFails(d)
  PROVE  FilesInv'
<1> USE DEF FilesInv
<1>1. ASSUME NEW d \in Dir, NEW e \in Entries(Nat), listing' = [listing EXCEPT ![d] = e],
             UNCHANGED <<here, captured, holds, dialog, reqs, told, sent>>,
             e.data # Nothing => e.data \in DOMAIN holds[d],
             e.flight = "answered" => e.got \in DOMAIN holds[d],
             e.fresh => e.data # Nothing,
             d = here => /\ e.data = Nothing => told = 0
                         /\ e.flight = "answered" => e.got >= told
                         /\ AtRest(e) => e.data # Nothing /\ e.data >= told
      PROVE  FilesInv'
  <2>1. listing'[d] = e /\ \A c \in Dir \ {d} : listing'[c] = listing[c]
    BY <1>1 DEF FileRangesOK
  <2>2. FileRangesOK'
    BY <1>1 DEF FileRangesOK
  <2>3. ListingsRead'
    BY <1>1, <2>1 DEF ListingsRead
  <2>4. WritesHappened' /\ DialogListed' /\ OnlyListedItems'
    BY <1>1 DEF WritesHappened, DialogListed, Listed, OnlyListedItems
  <2>5. ShownIsNew'
    BY <1>1, <2>1 DEF ShownIsNew, ListingUpToDate, FileRangesOK
  <2>. QED
    BY <2>2, <2>3, <2>4, <2>5
<1>2. \A d \in Dir : listing[d] \in Entries(Nat) /\ here \in Dir
  BY DEF FileRangesOK
<1>3. CASE ListAgain
  <2>1. /\ listing' = [listing EXCEPT ![here] = Fetch(listing[here])]
        /\ UNCHANGED <<here, captured, holds, dialog, reqs, told, sent>>
    BY <1>3 DEF ListAgain, urls, fbounds
  <2>2. /\ Fetch(listing[here]) \in Entries(Nat) /\ Fetch(listing[here]).data = listing[here].data
        /\ Fetch(listing[here]).fresh = listing[here].fresh
        /\ Fetch(listing[here]).flight # "idle"
        /\ Fetch(listing[here]).flight = "answered" =>
             listing[here].flight = "answered" /\ Fetch(listing[here]).got = listing[here].got
    BY <1>2 DEF Fetch, Ask, Entries, Nothing
  <2>3. ~AtRest(Fetch(listing[here]))
    BY <2>2 DEF AtRest
  <2>. QED
    BY <1>1, <1>2, <2>1, <2>2, <2>3 DEF ListingsRead, ShownIsNew
<1>4. ASSUME NEW d \in Dir, ListAnswered(d) PROVE FilesInv'
  <2> DEFINE e == Answer(listing[d], Len(holds[d]))
  <2>1. /\ listing' = [listing EXCEPT ![d] = e]
        /\ UNCHANGED <<here, captured, holds, dialog, reqs, told, sent>>
    BY <1>4 DEF ListAnswered, urls, fbounds
  <2>2. Len(holds[d]) \in Nat /\ Len(holds[d]) \in DOMAIN holds[d]
    BY DEF FileRangesOK
  <2>3. /\ e \in Entries(Nat) /\ e.data = listing[d].data /\ e.fresh = listing[d].fresh
        /\ e.flight = "answered" /\ e.got = Len(holds[d])
    BY <1>2, <2>2 DEF Answer, Entries
  <2>. HIDE DEF e
  <2>4. ~AtRest(e) /\ (d = here => e.got >= told)
    BY <2>2, <2>3 DEF AtRest, WritesHappened, FileRangesOK
  <2>. QED
    BY <1>1, <2>1, <2>2, <2>3, <2>4 DEF ListingsRead, ShownIsNew
<1>5. ASSUME NEW d \in Dir, ListDelivered(d) PROVE FilesInv'
  <2> DEFINE e == Deliver(listing[d])
  <2>1. /\ listing' = [listing EXCEPT ![d] = e] /\ listing[d].flight = "answered"
        /\ UNCHANGED <<here, captured, holds, dialog, reqs, told, sent>>
    BY <1>5 DEF ListDelivered, urls, fbounds
  <2>2. /\ e \in Entries(Nat) /\ e.data = listing[d].got /\ e.flight = "idle"
    BY <1>2 DEF Deliver, Entries, Nothing
  <2>3. listing[d].got \in DOMAIN holds[d] /\ listing[d].got # Nothing
    BY <2>1 DEF ListingsRead, FileRangesOK, Nothing
  <2>. HIDE DEF e
  <2>. QED
    BY <1>1, <2>1, <2>2, <2>3 DEF ShownIsNew
<1>6. ASSUME NEW d \in Dir, ListFails(d) PROVE FilesInv'
  <2> DEFINE e == Fail(listing[d])
  <2>1. /\ listing' = [listing EXCEPT ![d] = e]
        /\ UNCHANGED <<here, captured, holds, dialog, reqs, told, sent>>
    BY <1>6 DEF ListFails, urls
  <2>2. /\ e \in Entries(Nat) /\ e.data = listing[d].data /\ e.fresh = listing[d].fresh
        /\ e.flight = "idle"
    BY <1>2 DEF Fail, Entries, Nothing
  <2>3. ~AtRest(e)
    BY <1>2 DEF Fail, AtRest, Entries
  <2>. HIDE DEF e
  <2>. QED
    BY <1>1, <2>1, <2>2, <2>3 DEF ListingsRead, ShownIsNew
<1>. QED
  BY <1>3, <1>4, <1>5, <1>6

\* The invariant behind both theorems.
LEMMA FilesInvariant == FilesSpec => []FilesInv
<1>1. ASSUME FilesInv, [FilesNext]_fvars PROVE FilesInv'
  <2>1. CASE UNCHANGED fvars
    BY <1>1, <2>1 DEF fvars, urls, fbounds, FilesInv, FileRangesOK, ListingsRead, WritesHappened,
       ShownIsNew, ListingUpToDate, DialogListed, Listed, OnlyListedItems
  <2>. QED
    BY <1>1, <2>1, PageStep, RequestStep, WorksStep, AnswerStep, ListStep DEF FilesNext
<1>. QED
  BY <1>1, FilesInitially, PTL DEF FilesSpec

\* What is renamed, packed, extracted or deleted was listed in its directory, unless the
\* URL changed behind the dialog: no tick from elsewhere gets through.
THEOREM OnlyListedIsTouched == FilesSpec => []OnlyListedItems
  BY FilesInvariant, PTL DEF FilesInv

\* A listing at rest is not older than the newest change of its directory that the user
\* was told of while looking at it.
THEOREM ListingsAreUpToDate == FilesSpec => []ListingUpToDate
  BY FilesInvariant, PTL DEF FilesInv, ShownIsNew
-----------------------------------------------------------------------------
(* The ranges of the file manager: every state of a directory but the first is
   the work of a request on one of its items. *)

PageTyped ==
  /\ captured.path = here.path /\ ticked \subseteq Name
  /\ dialog \in [kind : Asking \cup {"none"}, names : SUBSET Name, of : Dir \cup {Nowhere}]
  /\ sent \in 0 .. MaxReqs /\ moves \in 0 .. MaxMoves

ListingsTyped == \A d \in Dir : listing[d] \in Entries(DOMAIN holds[d])

RequestsNumbered ==
  /\ \A r \in reqs : r.no < sent
  /\ \A q, r \in reqs : q.no = r.no => q = r

\* The items that requests have still to deal with.
Todo == {p \in Nat \X Name : \E r \in reqs : r.no = p[1] /\ p[2] \in r.left}

WorkIsBounded ==
  /\ IsFiniteSet(Todo)
  /\ \A d \in Dir : Len(holds[d]) + Cardinality(Todo) <= 1 + sent * Cardinality(Name)

FilesTyped == PageTyped /\ ListingsTyped /\ RequestsNumbered /\ WorkIsBounded

LEMMA FilesTypedInitially == FilesInit => FilesTyped
<1> SUFFICES ASSUME FilesInit PROVE FilesTyped
  OBVIOUS
<1>1. PageTyped
  BY DEF FilesInit, PageTyped, NoDialog
<1>2. ListingsTyped
  <2>1. ASSUME NEW d \in Dir PROVE listing[d] \in Entries(DOMAIN holds[d])
    <3>1. Empty \in Entries(DOMAIN holds[d])
      BY DEF Empty, Entries
    <3>. QED
      BY <3>1, EntryOperations DEF FilesInit
  <2>. QED
    BY <2>1 DEF ListingsTyped
<1>3. Todo = {} /\ RequestsNumbered
  BY DEF FilesInit, Todo, RequestsNumbered
<1>4. WorkIsBounded
  <2>1. IsFiniteSet(Todo) /\ Cardinality(Todo) = 0 /\ Cardinality(Name) \in Nat
    BY <1>3, FS_EmptySet, FS_CardinalityType
  <2>2. 0 * Cardinality(Name) = 0
    BY <2>1
  <2>. QED
    BY <2>1, <2>2 DEF FilesInit, WorkIsBounded
<1>. QED
  BY <1>1, <1>2, <1>3, <1>4 DEF FilesTyped

LEMMA ItemsAreNames == ASSUME FilesInv PROVE Items \subseteq Name
<1>1. here \in Dir /\ holds[here] \in Seq(SUBSET Name)
  BY DEF FilesInv, FileRangesOK
<1>2. listing[here].data # Nothing => holds[here][listing[here].data] \subseteq Name
  BY <1>1 DEF FilesInv, ListingsRead
<1>. QED
  BY <1>2 DEF Items

LEMMA PageTypedStep ==
  ASSUME FilesInv, PageTyped, [FilesNext]_fvars
  PROVE  PageTyped'
<1> USE DEF PageTyped, fvars, urls, fbounds
<1>1. /\ NoDialog \in [kind : Asking \cup {"none"}, names : SUBSET Name, of : Dir \cup {Nowhere}]
      /\ here \in Dir
  BY DEF NoDialog, FilesInv, FileRangesOK
<1>2. ASSUME NEW d \in Dir, navigate(d) \/ handleServerChange(d) \/ BackOrForward(d) PROVE PageTyped'
  <2>1. MoveTo(d)
    BY <1>2 DEF navigate, handleServerChange, BackOrForward
  <2>. QED
    BY <2>1 DEF MoveTo
<1>3. CASE (\E item \in Name, range \in SUBSET Name : toggleItem(item, range)) \/ toggleAll
  BY <1>3, ItemsAreNames DEF toggleItem, toggleAll
<1>4. ASSUME NEW kind \in Asking, NEW names \in SUBSET Name, OpenAsk(kind, names) PROVE PageTyped'
  BY <1>1, <1>4 DEF OpenAsk
<1>5. CASE NewFolderButton
  BY <1>4, <1>5 DEF NewFolderButton, OpenAsk, Asking
<1>6. ASSUME NEW kind \in Asking,
             FloatingBarButton(kind) \/ \E n \in Name : ContextMenuItem(kind, n)
      PROVE  PageTyped'
  BY <1>4, <1>6, ItemsAreNames DEF FloatingBarButton, selectedItems, ContextMenuItem
<1>7. CASE Cancel
  BY <1>1, <1>7 DEF Cancel
<1>8. CASE Confirm \/ \E n \in Name : Extract(n) \/ handleFiles(n)
  BY <1>8 DEF Confirm, Extract, handleFiles, Request
<1>9. ASSUME NEW r \in reqs, RequestFails(r) \/ RequestTold(r) \/ \E n \in Name : Works(r, n)
      PROVE  PageTyped'
  <2>1. dialog' \in {dialog, NoDialog} /\ ticked' \in {ticked, {}} /\ UNCHANGED <<urls, sent>>
    BY <1>9 DEF RequestFails, RequestTold, Works
  <2>2. moves' \in 0 .. MaxMoves
    <3>1. moves' = moves \/ (moves < MaxMoves /\ moves' = moves + 1)
      BY <1>9 DEF RequestFails, RequestTold, Works
    <3>. QED
      BY <3>1
  <2>. QED
    BY <1>1, <2>1, <2>2
<1>10. CASE ListAgain \/ \E d \in Dir : ListAnswered(d) \/ ListDelivered(d) \/ ListFails(d)
  BY <1>10 DEF ListAgain, ListAnswered, ListDelivered, ListFails
<1>11. CASE UNCHANGED fvars
  BY <1>11
<1>. QED
  BY <1>2, <1>3, <1>5, <1>6, <1>7, <1>8, <1>9, <1>10, <1>11 DEF FilesNext

\* An answer is a state the directory has been in; the directory's later states add to them.
LEMMA ListingsTypedStep ==
  ASSUME FilesInv, ListingsTyped, [FilesNext]_fvars
  PROVE  ListingsTyped'
<1> USE DEF ListingsTyped, fvars, urls, fbounds
<1>1. listing \in [Dir -> Entries(Nat)] /\ here \in Dir
  BY DEF FilesInv, FileRangesOK
<1>2. CASE UNCHANGED <<holds, listing>>
  BY <1>2
<1>3. ASSUME NEW d \in Dir, NEW e \in Entries(DOMAIN holds[d]),
             listing' = [listing EXCEPT ![d] = e], holds' = holds
      PROVE  ListingsTyped'
  BY <1>1, <1>3
<1>4. ASSUME NEW d \in Dir, navigate(d) \/ handleServerChange(d) \/ BackOrForward(d)
      PROVE  ListingsTyped'
  <2>1. MoveTo(d)
    BY <1>4 DEF navigate, handleServerChange, BackOrForward
  <2>2. PICK e \in Mounted(listing[d]) : listing' = [listing EXCEPT ![d] = e]
    BY <2>1 DEF MoveTo
  <2>3. e \in Entries(DOMAIN holds[d])
    BY <2>2, EntryOperations
  <2>. QED
    BY <1>3, <2>1, <2>2, <2>3 DEF MoveTo
<1>5. CASE \/ \E item \in Name, range \in SUBSET Name : toggleItem(item, range)
           \/ toggleAll \/ NewFolderButton \/ Cancel \/ Confirm
           \/ \E kind \in Asking : FloatingBarButton(kind) \/ \E n \in Name : ContextMenuItem(kind, n)
           \/ \E n \in Name : Extract(n) \/ handleFiles(n)
  BY <1>2, <1>5 DEF toggleItem, toggleAll, NewFolderButton, Cancel, Confirm, FloatingBarButton,
     ContextMenuItem, OpenAsk, Extract, handleFiles, Request
<1>6. ASSUME NEW r \in reqs, RequestFails(r) PROVE ListingsTyped'
  BY <1>2, <1>6 DEF RequestFails
<1>7. ASSUME NEW r \in reqs, RequestTold(r) PROVE ListingsTyped'
  <2> DEFINE asked == IF r.kind = "upload" THEN r.into ELSE here
  <2>1. asked \in Dir
    BY <1>1 DEF FilesInv, FileRangesOK, Requests
  <2>2. /\ listing' = [listing EXCEPT ![asked] = Invalidate(listing[asked], asked = here)]
        /\ holds' = holds
    BY <1>7 DEF RequestTold
  <2>3. (asked = here) \in BOOLEAN
    OBVIOUS
  <2> HIDE DEF asked
  <2>4. Invalidate(listing[asked], asked = here) \in Entries(DOMAIN holds[asked])
    BY <2>1, <2>3, EntryOperations
  <2>. QED
    BY <1>3, <2>1, <2>2, <2>4
<1>8. ASSUME NEW r \in reqs, NEW n \in Name, Works(r, n) PROVE ListingsTyped'
  <2>1. r.dir \in Dir /\ r.into \in Dir /\ \A e \in Dir : Current(e) \in SUBSET Name
    BY DEF FilesInv, FileRangesOK, Requests, Current
  <2>2. PICK e \in {r.dir, r.into}, now \in SUBSET Name : Write(e, now)
    BY <1>8, <2>1 DEF Works
  <2>3. \A d \in Dir : DOMAIN holds[d] \subseteq DOMAIN holds'[d]
    BY <2>1, <2>2, ListedStays DEF FilesInv
  <2>. QED
    BY <1>8, <2>3, EntriesGrow DEF Works
<1>9. CASE ListAgain
  BY <1>1, <1>3, <1>9, EntryOperations DEF ListAgain
<1>10. ASSUME NEW d \in Dir, ListAnswered(d) PROVE ListingsTyped'
  <2>1. Len(holds[d]) \in DOMAIN holds[d]
    BY DEF FilesInv, FileRangesOK
  <2>. QED
    BY <1>3, <1>10, <2>1, EntryOperations DEF ListAnswered
<1>11. ASSUME NEW d \in Dir, ListDelivered(d) \/ ListFails(d) PROVE ListingsTyped'
  BY <1>3, <1>11, EntryOperations DEF ListDelivered, ListFails
<1>12. CASE UNCHANGED fvars
  BY <1>2, <1>12
<1>. QED
  BY <1>4, <1>5, <1>6, <1>7, <1>8, <1>9, <1>10, <1>11, <1>12 DEF FilesNext

\* A request that goes on keeps its number and has less to do.
LEMMA RequestGoesOn ==
  ASSUME FilesInv, RequestsNumbered, NEW r \in reqs, sent' = sent,
         \A q \in reqs' : q \in reqs \ {r} \/ (q.no = r.no /\ q.left \subseteq r.left),
         \A p, q \in reqs' : p.no = r.no /\ q.no = r.no => p = q
  PROVE  /\ RequestsNumbered' /\ Todo' \subseteq Todo
         /\ \A n \in r.left :
              (\A q \in reqs' : q \in reqs \ {r} \/ n \notin q.left) => <<r.no, n>> \notin Todo'
<1>1. \A q \in reqs : q.no < sent
  BY DEF RequestsNumbered
<1>2. \A p, q \in reqs : p.no = q.no => p = q
  BY DEF RequestsNumbered
<1>3. RequestsNumbered'
  BY <1>1, <1>2 DEF RequestsNumbered
<1>4. Todo' \subseteq Todo
  BY DEF Todo
<1>5. ASSUME NEW n \in r.left, \A q \in reqs' : q \in reqs \ {r} \/ n \notin q.left
      PROVE  <<r.no, n>> \notin Todo'
  <2>1. ASSUME NEW q \in reqs', q.no = r.no, n \in q.left PROVE FALSE
    BY <1>2, <1>5, <2>1
  <2>. QED
    BY <2>1 DEF Todo
<1>. QED
  BY <1>3, <1>4, <1>5

\* Less to do: no less room for the directories.
LEMMA LessToDo ==
  ASSUME FilesInv, WorkIsBounded, Todo' \subseteq Todo, sent' = sent,
         NEW k \in Nat, IsFiniteSet(Todo') => Cardinality(Todo') + k <= Cardinality(Todo),
         \A d \in Dir : Len(holds'[d]) \in Nat /\ Len(holds'[d]) <= Len(holds[d]) + k
  PROVE  WorkIsBounded'
<1>1. IsFiniteSet(Todo) /\ IsFiniteSet(Todo')
  BY FS_Subset DEF WorkIsBounded
<1>2. Cardinality(Todo) \in Nat /\ Cardinality(Todo') \in Nat /\ Cardinality(Name) \in Nat
  BY <1>1, FS_CardinalityType
<1>3. sent * Cardinality(Name) \in Nat
  BY <1>2 DEF FilesInv, FileRangesOK
<1> DEFINE room == 1 + sent * Cardinality(Name)
<1>4. room \in Nat /\ room' = room
  BY <1>3
<1>5. \A d \in Dir : Len(holds[d]) \in Nat /\ Len(holds[d]) + Cardinality(Todo) <= room
  BY DEF WorkIsBounded, FilesInv, FileRangesOK
<1> HIDE DEF room
<1>6. \A d \in Dir : Len(holds'[d]) + Cardinality(Todo') <= room
  BY <1>1, <1>2, <1>4, <1>5
<1>. QED
  BY <1>1, <1>4, <1>6 DEF WorkIsBounded, room

\* A new request has at most every name to deal with.
LEMMA NewRequest ==
  ASSUME FilesInv, RequestsNumbered, WorkIsBounded,
         NEW kind, NEW names \in SUBSET Name, NEW d, NEW i, NEW moved,
         Request(kind, names, d, i, moved)
  PROVE  RequestsNumbered' /\ WorkIsBounded'
<1> DEFINE r == [no |-> sent, kind |-> kind, names |-> names, dir |-> d, into |-> i,
                 moved |-> moved, left |-> names, failed |-> FALSE, wrote |-> 0]
           new == {<<sent, n>> : n \in names}
<1>1. reqs' = reqs \cup {r} /\ sent' = sent + 1 /\ UNCHANGED holds
  BY DEF Request
<1>2. r.no = sent /\ r.left = names
  OBVIOUS
<1>3. /\ sent \in Nat /\ \A q \in reqs : q.no \in Nat /\ q.no < sent
      /\ \A p, q \in reqs : p.no = q.no => p = q
  BY DEF FilesInv, FileRangesOK, Requests, RequestsNumbered
<1> HIDE DEF r
<1>4. RequestsNumbered'
  BY <1>1, <1>2, <1>3 DEF RequestsNumbered
<1>5. Todo' \subseteq Todo \cup new
  BY <1>1, <1>2 DEF Todo
<1>6. IsFiniteSet(new) /\ Cardinality(new) \in Nat /\ Cardinality(new) <= Cardinality(Name)
  <2>1. IsFiniteSet(names) /\ Cardinality(names) <= Cardinality(Name)
    BY FS_Subset
  <2>2. [n \in names |-> <<sent, n>>] \in Surjection(names, new)
    BY DEF Surjection
  <2> HIDE DEF new
  <2>3. IsFiniteSet(new) /\ Cardinality(new) <= Cardinality(names)
    BY <2>1, <2>2, FS_Surjection
  <2>4. Cardinality(new) \in Nat /\ Cardinality(names) \in Nat /\ Cardinality(Name) \in Nat
    BY <2>1, <2>3, FS_CardinalityType
  <2>. QED
    BY <2>1, <2>3, <2>4
<1> HIDE DEF new
<1>7. IsFiniteSet(Todo) /\ Cardinality(Todo) \in Nat /\ Cardinality(Name) \in Nat
  BY FS_CardinalityType DEF WorkIsBounded
<1>8. IsFiniteSet(Todo \cup new) /\ Cardinality(Todo \cup new) <= Cardinality(Todo) + Cardinality(new)
  <2>1. IsFiniteSet(Todo \cap new) /\ IsFiniteSet(Todo \cup new)
    BY <1>6, <1>7, FS_Intersection, FS_Union
  <2>2. Cardinality(Todo \cup new) = Cardinality(Todo) + Cardinality(new) - Cardinality(Todo \cap new)
    BY <1>6, <1>7, FS_Union
  <2>3. Cardinality(Todo \cap new) \in Nat
    BY <2>1, FS_CardinalityType
  <2>. QED
    BY <1>6, <1>7, <2>1, <2>2, <2>3
<1>9. IsFiniteSet(Todo') /\ Cardinality(Todo') <= Cardinality(Todo \cup new)
  BY <1>5, <1>8, FS_Subset
<1>10. Cardinality(Todo') \in Nat /\ Cardinality(Todo \cup new) \in Nat
  BY <1>8, <1>9, FS_CardinalityType
<1>11. Cardinality(Todo') <= Cardinality(Todo) + Cardinality(Name)
  BY <1>6, <1>7, <1>8, <1>9, <1>10
<1>12. (sent + 1) * Cardinality(Name) = sent * Cardinality(Name) + Cardinality(Name)
       /\ sent * Cardinality(Name) \in Nat
  BY <1>3, <1>7
<1>13. ASSUME NEW e \in Dir
       PROVE  Len(holds'[e]) + Cardinality(Todo') <= 1 + sent' * Cardinality(Name)
  <2>1. Len(holds[e]) \in Nat /\ Len(holds[e]) + Cardinality(Todo) <= 1 + sent * Cardinality(Name)
    BY DEF WorkIsBounded, FilesInv, FileRangesOK
  <2> DEFINE before == sent * Cardinality(Name)
             after == sent' * Cardinality(Name)
  <2>2. after = before + Cardinality(Name) /\ before \in Nat
    BY <1>1, <1>12
  <2>3. Len(holds[e]) + Cardinality(Todo) <= 1 + before
    BY <2>1
  <2> HIDE DEF before, after
  <2>4. Len(holds[e]) + Cardinality(Todo') <= 1 + after
    BY <1>7, <1>10, <1>11, <2>1, <2>2, <2>3
  <2>. QED
    BY <1>1, <2>4 DEF after
<1>. QED
  BY <1>4, <1>9, <1>13 DEF WorkIsBounded

LEMMA WorkStep ==
  ASSUME FilesInv, RequestsNumbered, WorkIsBounded, [FilesNext]_fvars
  PROVE  RequestsNumbered' /\ WorkIsBounded'
<1>1. CASE UNCHANGED <<holds, reqs, sent>>
  BY <1>1 DEF RequestsNumbered, WorkIsBounded, Todo
<1>2. CASE \/ \E d \in Dir : navigate(d) \/ handleServerChange(d) \/ BackOrForward(d)
           \/ \E item \in Name, range \in SUBSET Name : toggleItem(item, range)
           \/ toggleAll \/ NewFolderButton \/ Cancel
           \/ \E kind \in Asking : FloatingBarButton(kind) \/ \E n \in Name : ContextMenuItem(kind, n)
  BY <1>1, <1>2 DEF navigate, handleServerChange, BackOrForward, MoveTo, toggleItem, toggleAll,
     NewFolderButton, Cancel, FloatingBarButton, ContextMenuItem, OpenAsk, fbounds
<1>3. CASE ListAgain \/ \E d \in Dir : ListAnswered(d) \/ ListDelivered(d) \/ ListFails(d)
  BY <1>1, <1>3 DEF ListAgain, ListAnswered, ListDelivered, ListFails, fbounds
<1>4. CASE Confirm \/ \E n \in Name : Extract(n) \/ handleFiles(n)
  BY <1>4, NewRequest DEF Confirm, Extract, handleFiles
<1>5. \A d \in Dir : Len(holds[d]) \in Nat
  BY DEF FilesInv, FileRangesOK
<1>6. IsFiniteSet(Todo) /\ Cardinality(Todo) \in Nat
  BY FS_CardinalityType DEF WorkIsBounded
<1>7. ASSUME Todo' \subseteq Todo PROVE IsFiniteSet(Todo') => Cardinality(Todo') + 0 <= Cardinality(Todo)
  <2>1. IsFiniteSet(Todo') /\ Cardinality(Todo') <= Cardinality(Todo)
    BY <1>6, <1>7, FS_Subset
  <2>2. Cardinality(Todo') \in Nat
    BY <2>1, FS_CardinalityType
  <2>. QED
    BY <1>6, <2>1, <2>2
<1>8. ASSUME NEW r \in reqs, RequestTold(r) PROVE RequestsNumbered' /\ WorkIsBounded'
  <2>1. reqs' = reqs \ {r} /\ UNCHANGED <<holds, sent>>
    BY <1>8 DEF RequestTold, fbounds
  <2>2. RequestsNumbered' /\ Todo' \subseteq Todo
    BY <2>1 DEF RequestsNumbered, Todo
  <2>. QED
    BY <1>5, <1>7, <2>1, <2>2, LessToDo
<1>9. ASSUME NEW r \in reqs, RequestFails(r) PROVE RequestsNumbered' /\ WorkIsBounded'
  <2>1. PICK n \in r.names :
          reqs' = (reqs \ {r}) \cup {f \in {[r EXCEPT !.failed = TRUE, !.left = Others(r, n)]} : f.left # {}}
    BY <1>9 DEF RequestFails
  <2> DEFINE f == [r EXCEPT !.failed = TRUE, !.left = Others(r, n)]
  <2>2. r \in Requests
    BY DEF FilesInv, FileRangesOK
  <2>3. f.no = r.no /\ f.left \subseteq r.left
    BY <2>2 DEF Requests, Others
  <2>4. \A q \in reqs' : q \in reqs \ {r} \/ q = f
    BY <2>1
  <2> HIDE DEF f
  <2>5. \A p, q \in reqs' : p.no = r.no /\ q.no = r.no => p = q
    BY <2>4 DEF RequestsNumbered
  <2>6. sent' = sent /\ holds' = holds
    BY <1>9 DEF RequestFails
  <2>7. RequestsNumbered' /\ Todo' \subseteq Todo
    BY <2>3, <2>4, <2>5, <2>6, RequestGoesOn
  <2>. QED
    BY <1>5, <1>7, <2>6, <2>7, LessToDo
<1>10. ASSUME NEW r \in reqs, NEW n \in Name, Works(r, n) PROVE RequestsNumbered' /\ WorkIsBounded'
  <2> DEFINE m == [r EXCEPT !.left = Others(r, n), !.wrote = Len(holds'[r.into])]
  <2>1. reqs' = (reqs \ {r}) \cup {m} /\ sent' = sent /\ n \in r.left
    BY <1>10 DEF Works, fbounds
  <2>2. /\ r \in Requests /\ r.dir \in Dir /\ r.into \in Dir /\ r.no \in Nat
        /\ \A e \in Dir : Current(e) \in SUBSET Name
    BY DEF FilesInv, FileRangesOK, Requests, Current
  <2>3. m.no = r.no /\ m.left \subseteq r.left /\ n \notin m.left
    BY <2>2 DEF Requests, Others
  <2>4. \A q \in reqs' : q \in reqs \ {r} \/ q = m
    BY <2>1
  <2> HIDE DEF m
  <2>5. \A p, q \in reqs' : p.no = r.no /\ q.no = r.no => p = q
    BY <2>4 DEF RequestsNumbered
  <2>6. RequestsNumbered' /\ Todo' \subseteq Todo /\ <<r.no, n>> \notin Todo'
    BY <2>1, <2>3, <2>4, <2>5, RequestGoesOn
  <2>7. <<r.no, n>> \in Todo
    BY <2>1, <2>2 DEF Todo
  <2>8. IsFiniteSet(Todo') => Cardinality(Todo') + 1 <= Cardinality(Todo)
    <3>1. Todo' \subseteq Todo \ {<<r.no, n>>}
      BY <2>6
    <3>2. IsFiniteSet(Todo \ {<<r.no, n>>}) /\ Cardinality(Todo \ {<<r.no, n>>}) = Cardinality(Todo) - 1
      BY <1>6, <2>7, FS_RemoveElement
    <3>3. IsFiniteSet(Todo') /\ Cardinality(Todo') <= Cardinality(Todo \ {<<r.no, n>>})
      BY <3>1, <3>2, FS_Subset
    <3>4. Cardinality(Todo') \in Nat
      BY <3>3, FS_CardinalityType
    <3>. QED
      BY <1>6, <3>2, <3>3, <3>4
  <2>9. \A d \in Dir : Len(holds'[d]) \in Nat /\ Len(holds'[d]) <= Len(holds[d]) + 1
    <3>1. PICK e \in {r.dir, r.into}, now \in SUBSET Name : Write(e, now)
      BY <1>10, <2>2 DEF Works
    <3>2. holds' = [holds EXCEPT ![e] = Append(holds[e], now)]
      BY <3>1 DEF Write
    <3>3. Len(Append(holds[e], now)) = Len(holds[e]) + 1
      BY <2>2 DEF FilesInv, FileRangesOK
    <3>. QED
      BY <1>5, <2>2, <3>2, <3>3 DEF FilesInv, FileRangesOK
  <2>. QED
    BY <2>1, <2>6, <2>8, <2>9, LessToDo
<1>11. CASE UNCHANGED fvars
  BY <1>1, <1>11 DEF fvars, fbounds
<1>. QED
  BY <1>2, <1>3, <1>4, <1>8, <1>9, <1>10, <1>11 DEF FilesNext

\* The variables of the file manager keep their ranges: no directory changes more often
\* than the requests have items.
THEOREM FilesTypeCorrect == FilesSpec => []FilesTypeOK
<1>1. FilesInv /\ FilesTyped /\ [FilesNext]_fvars => FilesTyped'
  BY PageTypedStep, ListingsTypedStep, WorkStep DEF FilesTyped
<1>2. FilesInv /\ FilesTyped => FilesTypeOK
  <2> SUFFICES ASSUME FilesInv, FilesTyped PROVE FilesTypeOK
    OBVIOUS
  <2> USE DEF FilesInv, FileRangesOK, FilesTyped
  <2>1. sent \in 0 .. MaxReqs /\ Cardinality(Name) \in Nat /\ Cardinality(Todo) \in Nat
    BY FS_CardinalityType DEF PageTyped, WorkIsBounded
  <2>2. sent * Cardinality(Name) <= MaxReqs * Cardinality(Name)
        /\ sent * Cardinality(Name) \in Nat /\ MaxReqs * Cardinality(Name) \in Nat
    BY <2>1
  <2>3. ASSUME NEW d \in Dir PROVE Len(holds[d]) \in Index /\ DOMAIN holds[d] \subseteq Index
    <3>1. holds[d] \in Seq(SUBSET Name) /\ holds[d] # <<>> /\ DOMAIN holds[d] = 1 .. Len(holds[d])
      OBVIOUS
    <3>2. Len(holds[d]) \in Nat \ {0} /\ Len(holds[d]) <= 1 + sent * Cardinality(Name)
      BY <2>1, <2>2, <3>1 DEF WorkIsBounded
    <3>. QED
      BY <2>2, <3>1, <3>2 DEF Index
  <2>4. \A d \in Dir : \A v \in DOMAIN holds[d] : holds[d][v] \subseteq Name
    OBVIOUS
  <2>5. listing \in [Dir -> Entries(Index)]
    <3>1. \A d \in Dir : listing[d] \in Entries(Index)
      BY <2>3, EntriesGrow DEF ListingsTyped
    <3>. QED
      BY <3>1
  <2>6. told \in Index \cup {0}
    BY <2>3 DEF WritesHappened, Index
  <2>7. ASSUME NEW r \in reqs
        PROVE  r \in [no : 0 .. MaxReqs - 1, kind : Kind, names : SUBSET Name, dir : Dir,
                      into : Dir, moved : BOOLEAN, left : SUBSET Name, failed : BOOLEAN,
                      wrote : Index \cup {0}]
    <3>1. r \in Requests /\ r.into \in Dir /\ r.wrote \in Nat /\ r.no \in Nat
      BY DEF Requests
    <3>2. r.wrote \in Index \cup {0}
      BY <2>3, <3>1 DEF WritesHappened, Index
    <3>3. r.no \in 0 .. MaxReqs - 1
      BY <2>1, <3>1 DEF RequestsNumbered
    <3>. QED
      BY <3>1, <3>2, <3>3 DEF Requests
  <2>. QED
    BY <2>3, <2>4, <2>5, <2>6, <2>7 DEF FilesTypeOK, PageTyped
<1>. QED
  BY <1>1, <1>2, FilesTypedInitially, FilesInvariant, PTL DEF FilesSpec

HIDE FilesAssumption DEF FilesAssumption
=============================================================================
