-------------------------------- MODULE MCPages --------------------------------
(* The frontend on small instances, its five parts side by side: `part' says *)
(* which of them a behaviour is about, and never changes; the others rest in *)
(* an initial state.  The parts share no variable, so this is five checks in *)
(* one, and none of how pages follow one another beyond what each part says  *)
(* itself of being left and come back to.                                    *)
EXTENDS LiveStreams, Panels, Drafts, FilesPage, Session

VARIABLE part

At(p, s) == [path |-> p, server |-> s]
SomeDirs == {At("/", "a"), At("/", "b"), At("/d", "a")}
SomeFiles == [d \in SomeDirs |-> IF d = At("/", "a") THEN {"x", "y"} ELSE {"x"}]

\* One of the initial states of each part, for where it is not looked at.  Of the users,
\* who are alike, one has two-factor at first.
Resting ==
  /\ part # "streams" => view = CHOOSE v \in View : TRUE
  /\ part # "panels" => panel = CHOOSE p \in Panel : TRUE
  /\ part # "drafts" => form = CHOOSE f \in Form : TRUE
  /\ part # "files" => here = CHOOSE d \in Dir : TRUE
  /\ totp = [v \in User |-> IF v = CHOOSE u \in User : TRUE THEN "on" ELSE "off"]

Init ==
  /\ part \in {"streams", "panels", "drafts", "files", "session"}
  /\ StreamsInit /\ PanelsInit /\ DraftsInit /\ FilesInit /\ InitSession
  /\ Resting

\* Bound: once something went astray, which takes the badge out of view for good, one
\* request of the section or one miss is enough.  The page that is due is loaded all the same.
SessionBound == astray' => callsMade' + misses' < 2 \/ (unloading /\ ~unloading')

Next ==
  \/ part = "streams" /\ StreamsNext /\ UNCHANGED <<pvars, dvars, fvars, svars>>
  \/ part = "panels" /\ PanelsNext /\ UNCHANGED <<lvars, dvars, fvars, svars>>
  \/ part = "drafts" /\ DraftsNext /\ UNCHANGED <<lvars, pvars, fvars, svars>>
  \/ part = "files" /\ FilesNext /\ UNCHANGED <<lvars, pvars, dvars, svars>>
  \/ part = "session" /\ SessionNext /\ SessionBound /\ UNCHANGED <<lvars, pvars, dvars, fvars>>

vars == <<part, lvars, pvars, dvars, fvars, svars>>

\* The fairness of each part, as it states it itself.
Spec ==
  /\ Init /\ [][Next /\ UNCHANGED part]_vars
  /\ WF_lvars(part = "streams" /\ Answered) /\ WF_lvars(part = "streams" /\ Fires)
  /\ WF_lvars(part = "streams" /\ Fails)
  /\ WF_pvars(part = "panels" /\ ServerAnswers) /\ WF_pvars(part = "panels" /\ Delivered)
  /\ WF_pvars(part = "panels" /\ Poll)
  /\ WF_svars(part = "session" /\ apiFetch) /\ WF_svars(part = "session" /\ HomeAnswered)
  /\ WF_svars(part = "session" /\ Unload)

\* Every variable of the frontend's parts stays in its range.
PagesTypeOK == StreamsTypeOK /\ PanelsTypeOK /\ DraftsTypeOK /\ FilesTypeOK /\ SessionTypeOK
=============================================================================
