--------------------------- MODULE WindowProofs -----------------------------
(***************************************************************************)
(* The window of the desktop: AppLifecycle, how it and the background      *)
(* service start, stop and restart, and DeviceScreens, the home page, the  *)
(* dialogs, the notification pages and the camera popup, for any number of *)
(* windows and phones and any bounds.                                      *)
(***************************************************************************)
EXTENDS AppLifecycle, DeviceScreens, FiniteSetTheorems, SequenceTheorems, TLAPS

-----------------------------------------------------------------------------
(* AppLifecycle.                                                           *)

\* The stages between the two halves of a start, and of a served port.
Offering == {"binding", "rebinding", "on"}

\* A process that has not crashed is advertised exactly from the first half
\* of its start on until it stops.
AdsFollowStage ==
  \A p \in Procs \ crashed : p \in ads <=> stage[p] \in Offering

\* Whoever is on has the port: the other half of TypeOK's clause about it.
OnHasPort == \A p \in Procs : stage[p] = "on" => port = p

\* A window that has crashed takes no further step.
CrashedAreGone == \A g \in crashed : stage[g] = "gone"

\* The inductive invariant.  AdvertisedMeansListening alone is not: a process
\* enters "on" from "binding", where it says nothing of the advertisement,
\* and a step of a crashed window might list it again.
IInv ==
  /\ TypeOK
  /\ AdsFollowStage
  /\ OnHasPort
  /\ CrashedAreGone

-----------------------------------------------------------------------------

\* Before anything runs nothing is advertised and nobody listens.
LEMMA InitEstablishesIInv == Init => IInv
<1> SUFFICES ASSUME Init PROVE IInv
  OBVIOUS
<1> USE ProcessesAssumption DEF Init, Procs
<1>1. TypeOK
  BY DEF TypeOK, ServiceStages, GuiStages, filed, Setup, NoSetup
<1>2. AdsFollowStage /\ OnHasPort /\ CrashedAreGone
  BY DEF AdsFollowStage, OnHasPort, CrashedAreGone, Offering
<1> QED
  BY <1>1, <1>2 DEF IInv

\* The two halves of a start, of any process.
LEMMA AdvertisePreservesIInv ==
  ASSUME IInv, NEW p \in Procs, NEW from, NEW to, Advertise(p, from, to),
         \/ from = "starting" /\ to = "binding"
         \/ p \in Guis /\ from = "refreshing" /\ to = "rebinding"
  PROVE  IInv'
<1> USE ProcessesAssumption DEF IInv, Advertise, To, filed, Procs
<1>1. TypeOK'
  BY DEF TypeOK, ServiceStages, GuiStages
<1>2. AdsFollowStage'
  BY DEF AdsFollowStage, TypeOK, Offering
<1>3. OnHasPort'
  BY DEF OnHasPort, TypeOK
<1>4. CrashedAreGone'
  BY DEF CrashedAreGone, TypeOK
<1> QED
  BY <1>1, <1>2, <1>3, <1>4

\* A process takes the port, or finds it taken.
LEMMA BindPreservesIInv ==
  ASSUME IInv, NEW p \in Procs, NEW from, Bind(p, from),
         \/ from = "binding"
         \/ p \in Guis /\ from = "rebinding"
  PROVE  IInv'
<1> USE ProcessesAssumption DEF IInv, Bind, To, filed, Procs
<1>1. TypeOK'
  BY DEF TypeOK, ServiceStages, GuiStages
<1>2. AdsFollowStage'
  BY DEF AdsFollowStage, TypeOK, Offering
<1>3. OnHasPort'
  BY DEF OnHasPort, TypeOK
<1>4. CrashedAreGone'
  BY DEF CrashedAreGone, TypeOK
<1> QED
  BY <1>1, <1>2, <1>3, <1>4

\* A process that stops, or whose start fails, and then offers nothing.
LEMMA ReleasePreservesIInv ==
  ASSUME IInv, NEW p \in Procs, NEW to, Release(p), To(p, to),
         stage[p] # "gone", to \notin Offering,
         IF p = Service
           THEN stage[p] # "off" /\ to = "off" /\ unit' \in {"inactive", "waiting"}
           ELSE to \in GuiStages /\ UNCHANGED unit,
         crashed' = crashed \/ (to = "gone" /\ p # Service /\ crashed' = crashed \cup {p}),
         failures' \in 0..MaxFailures,
         UNCHANGED <<backend, enabled, paused, filed>>
  PROVE  IInv'
<1> USE ProcessesAssumption DEF IInv, Release, To, filed, Procs
<1>1. TypeOK'
  BY DEF TypeOK, ServiceStages, GuiStages, Offering
<1>2. AdsFollowStage'
  BY DEF AdsFollowStage, TypeOK
<1>3. OnHasPort'
  BY DEF OnHasPort, TypeOK, Offering
<1>4. CrashedAreGone'
  BY DEF CrashedAreGone, TypeOK
<1> QED
  BY <1>1, <1>2, <1>3, <1>4

\* A window that moves between stages in which it offers nothing.
LEMMA MovePreservesIInv ==
  ASSUME IInv, NEW g \in Guis, NEW to \in GuiStages, To(g, to),
         stage[g] \notin Offering \cup {"gone"}, to \notin Offering,
         setup' \in Setup, loaded' \in [Guis -> Setup],
         failing' \in [Guis -> SUBSET Checks],
         UNCHANGED <<backend, unit, enabled, port, ads, paused, failures, crashed>>
  PROVE  IInv'
<1> USE ProcessesAssumption DEF IInv, To, Procs
<1>1. TypeOK'
  BY DEF TypeOK, Offering
<1>2. AdsFollowStage'
  BY DEF AdsFollowStage, TypeOK
<1>3. OnHasPort'
  BY DEF OnHasPort, TypeOK, Offering
<1>4. CrashedAreGone'
  BY DEF CrashedAreGone, TypeOK
<1> QED
  BY <1>1, <1>2, <1>3, <1>4

-----------------------------------------------------------------------------

\* Every step of the service and of systemd keeps the invariant.
LEMMA ServicePreservesIInv == IInv /\ ServiceNext => IInv'
<1> SUFFICES ASSUME IInv, ServiceNext PROVE IInv'
  OBVIOUS
<1> USE ProcessesAssumption DEF Procs
<1>1. CASE ServiceStarts
  BY <1>1, AdvertisePreservesIInv, BindPreservesIInv DEF ServiceStarts
<1>2. CASE ServiceFails
  <2> USE <1>2 DEF ServiceFails, CannotStart, IInv, TypeOK
  <2>1. stage[Service] \notin {"off", "gone"} /\ failures' \in 0..MaxFailures
    BY DEF ServiceStages
  <2> QED
    BY <2>1, ReleasePreservesIInv DEF Offering, filed
<1>3. CASE ServiceRestarts
  <2> USE <1>3 DEF ServiceRestarts, IInv, To, filed
  <2>1. TypeOK'
    BY DEF TypeOK, ServiceStages
  <2>2. AdsFollowStage'
    BY DEF AdsFollowStage, TypeOK, Offering
  <2>3. OnHasPort' /\ CrashedAreGone'
    BY DEF OnHasPort, CrashedAreGone, TypeOK
  <2> QED
    BY <2>1, <2>2, <2>3
<1> QED
  BY <1>1, <1>2, <1>3 DEF ServiceNext

\* Every step a window takes by itself keeps the invariant.
LEMMA GuiStepPreservesIInv ==
  ASSUME IInv, NEW g \in Guis, GuiStep(g)
  PROVE  IInv'
<1> USE ProcessesAssumption DEF Procs
<1>1. CASE AskActive(g)
  BY <1>1, MovePreservesIInv
  DEF AskActive, To, IInv, TypeOK, Offering, GuiStages, filed
<1>2. CASE StopService(g)
  <2> USE <1>2 DEF StopService, Release, IInv, filed
  <2>1. TypeOK'
    BY DEF TypeOK, ServiceStages, GuiStages
  <2>2. AdsFollowStage'
    BY DEF AdsFollowStage, TypeOK, Offering
  <2>3. OnHasPort'
    BY DEF OnHasPort, TypeOK
  <2>4. CrashedAreGone'
    BY DEF CrashedAreGone, TypeOK
  <2> QED
    BY <2>1, <2>2, <2>3, <2>4
<1>3. CASE SaveSkipped(g)
  <2> USE <1>3 DEF SaveSkipped, IInv
  <2>1. /\ setup' \in Setup /\ loaded' \in [Guis -> Setup]
        /\ failing' \in [Guis -> SUBSET Checks]
    BY DEF TypeOK, Setup, NoSetup
  <2> QED
    BY <2>1, MovePreservesIInv DEF To, TypeOK, Offering, GuiStages
<1>4. CASE SaveSafeWifi(g)
  <2> USE <1>4 DEF SaveSafeWifi, IInv
  <2>1. setup' \in Setup /\ loaded' \in [Guis -> Setup]
    BY DEF TypeOK, Setup, NoSetup
  <2> QED
    BY <2>1, MovePreservesIInv DEF To, TypeOK, Offering, GuiStages
<1>5. CASE GuiStarts(g)
  BY <1>5, AdvertisePreservesIInv, BindPreservesIInv DEF GuiStarts
<1>6. CASE GuiCannotStart(g)
  <2> USE <1>6 DEF GuiCannotStart, CannotStart, IInv, TypeOK
  <2>1. failures' \in 0..MaxFailures
    OBVIOUS
  <2> QED
    BY <2>1, ReleasePreservesIInv DEF Offering, GuiStages, filed
<1>7. CASE GuiRefreshes(g)
  BY <1>7, AdvertisePreservesIInv, BindPreservesIInv DEF GuiRefreshes
<1>8. CASE RefreshFails(g)
  <2> USE <1>8 DEF RefreshFails, CannotStart, IInv, TypeOK
  <2>1. failures' \in 0..MaxFailures
    OBVIOUS
  <2> QED
    BY <2>1, ReleasePreservesIInv DEF Offering, GuiStages, filed
<1>9. CASE AskEnabled(g)
  BY <1>9, MovePreservesIInv
  DEF AskEnabled, To, IInv, TypeOK, Offering, GuiStages, filed
<1>10. CASE StartService(g)
  <2> USE <1>10 DEF StartService, IInv, filed
  <2>1. TypeOK'
    BY DEF TypeOK, ServiceStages, GuiStages
  <2>2. AdsFollowStage'
    BY DEF AdsFollowStage, TypeOK, Offering
  <2>3. OnHasPort' /\ CrashedAreGone'
    BY DEF OnHasPort, CrashedAreGone, TypeOK
  <2> QED
    BY <2>1, <2>2, <2>3
<1> QED
  BY <1>1, <1>2, <1>3, <1>4, <1>5, <1>6, <1>7, <1>8, <1>9, <1>10 DEF GuiStep

\* Every click in a window keeps the invariant, and so does its death.
LEMMA UserStepPreservesIInv ==
  ASSUME IInv, NEW g \in Guis, UserStep(g)
  PROVE  IInv'
<1> USE ProcessesAssumption DEF Procs
<1>1. CASE PassGate(g)
  <2> USE <1>1 DEF PassGate, IInv
  <2>1. PICK to \in {"starting", "wizard", "skipping"} : To(g, to)
    BY DEF AfterGate, GoOnAnyway
  <2>2. loaded' \in [Guis -> Setup] /\ failing' \in [Guis -> SUBSET Checks]
    BY DEF GoOnAnyway, TypeOK
  <2> QED
    BY <2>1, <2>2, MovePreservesIInv DEF TypeOK, Offering, GuiStages
<1>2. CASE ExitGate(g)
  BY <1>2, MovePreservesIInv
  DEF ExitGate, To, IInv, TypeOK, Offering, GuiStages, filed
<1>3. CASE InstallService(g)
  BY <1>3
  DEF InstallService, IInv, TypeOK, AdsFollowStage, OnHasPort, CrashedAreGone, filed
<1>4. CASE FinishWizard(g)
  <2>1. PICK to \in {"finishing", "starting"} : To(g, to)
    BY <1>4 DEF FinishWizard
  <2>2. [NoSetup EXCEPT !.completed = TRUE] \in Setup
    BY DEF Setup, NoSetup
  <2>t. setup \in Setup /\ loaded \in [Guis -> Setup]
        /\ failing \in [Guis -> SUBSET Checks]
    BY DEF IInv, TypeOK
  <2>3. setup' \in Setup
    BY <1>4, <2>2, <2>t DEF FinishWizard
  <2>4. loaded' \in [Guis -> Setup]
    BY <1>4, <2>t DEF FinishWizard
  <2>5. stage[g] = "wizard" /\ failing' = failing
        /\ UNCHANGED <<backend, unit, enabled, port, ads, paused, failures, crashed>>
    BY <1>4 DEF FinishWizard
  <2>6. to \in GuiStages /\ {"wizard", to} \cap (Offering \cup {"gone"}) = {}
    BY <2>1 DEF GuiStages, Offering
  <2> QED
    BY <2>1, <2>t, <2>3, <2>4, <2>5, <2>6, MovePreservesIInv
<1>5. CASE SwitchOn(g)
  BY <1>5, MovePreservesIInv
  DEF SwitchOn, To, IInv, TypeOK, Offering, GuiStages, filed
<1>a. ASSUME NEW to \in {"idle", "refreshing", "leaving"}, Release(g), To(g, to),
             stage[g] # "gone",
             UNCHANGED <<backend, unit, enabled, paused, filed, failures, crashed>>
      PROVE  IInv'
  <2>1. g \in Procs /\ g # Service
    OBVIOUS
  <2>2. to \notin Offering /\ to \in GuiStages
    BY DEF Offering, GuiStages
  <2>3. failures' \in 0..MaxFailures
    BY <1>a DEF IInv, TypeOK
  <2> QED
    BY <1>a, <2>1, <2>2, <2>3, ReleasePreservesIInv DEF filed
<1>6. CASE SwitchOff(g)
  BY <1>6, <1>a DEF SwitchOff
<1>7. CASE StartRefresh(g)
  BY <1>7, <1>a DEF StartRefresh
<1>8. CASE CloseWindow(g)
  BY <1>8, <1>a DEF CloseWindow
<1>9. CASE Killed(g)
  <2> USE <1>9 DEF Killed, To, IInv, filed
  <2>1. TypeOK'
    BY DEF TypeOK, ServiceStages, GuiStages
  <2>2. AdsFollowStage'
    BY DEF AdsFollowStage, TypeOK, Offering
  <2>3. OnHasPort' /\ CrashedAreGone'
    BY DEF OnHasPort, CrashedAreGone, TypeOK
  <2> QED
    BY <2>1, <2>2, <2>3
<1> QED
  BY <1>1, <1>2, <1>3, <1>4, <1>5, <1>6, <1>7, <1>8, <1>9 DEF UserStep

-----------------------------------------------------------------------------

\* The stages, the port, the advertisements and the crashed windows agree as
\* IInv says in every reachable state.
THEOREM InvariantHolds == Spec => []IInv
<1>1. IInv /\ [Next]_vars => IInv'
  <2>1. ASSUME IInv, UNCHANGED vars PROVE IInv'
    BY <2>1
    DEF vars, filed, IInv, TypeOK, AdsFollowStage, OnHasPort, CrashedAreGone, Procs
  <2> QED
    BY <2>1, ServicePreservesIInv, GuiStepPreservesIInv, UserStepPreservesIInv
    DEF Next
<1> QED
  BY <1>1, InitEstablishesIInv, PTL DEF Spec

\* Every variable keeps its type; the process that has the port is on.
THEOREM TypeCorrect == Spec => []TypeOK
<1>1. IInv => TypeOK
  BY DEF IInv
<1> QED
  BY <1>1, InvariantHolds, PTL

\* Whatever fails, is killed, restarts or is switched off and on, a process
\* that has not crashed is offered to phones exactly while it listens.
THEOREM OffersOnlyWhatListens == Spec => []AdvertisedMeansListening
<1>1. IInv => AdvertisedMeansListening
  BY ProcessesAssumption
  DEF IInv, TypeOK, AdsFollowStage, OnHasPort, AdvertisedMeansListening, Offering, Procs
<1> QED
  BY <1>1, InvariantHolds, PTL

\* The only steps that take a skipped check back are the end of a wizard and
\* a write over what another window has written since the file was read.
THEOREM SkippedChecksStay == Spec => SkippedStaysSkipped
<1> DEFINE MayForget ==
      \E g \in Guis : /\ stage'[g] # stage[g]
                      /\ \/ stage[g] = "wizard"
                         \/ stage[g] \in {"skipping", "finishing"} /\ loaded[g] # setup
           Keeps == setup.skipped \subseteq setup'.skipped \/ MayForget
<1>1. ASSUME TypeOK, NEW g \in Guis, SaveSkipped(g) PROVE Keeps
  <2>1. CASE loaded[g] = setup
    BY <1>1, <2>1 DEF SaveSkipped, TypeOK, Setup
  <2>2. CASE loaded[g] # setup
    BY <1>1, <2>2 DEF SaveSkipped, To, TypeOK, Procs
  <2> QED
    BY <2>1, <2>2
<1>2. ASSUME TypeOK, NEW g \in Guis, SaveSafeWifi(g) PROVE Keeps
  <2>1. CASE loaded[g] = setup
    BY <1>2, <2>1 DEF SaveSafeWifi, TypeOK, Setup
  <2>2. CASE loaded[g] # setup
    BY <1>2, <2>2 DEF SaveSafeWifi, To, TypeOK, Procs
  <2> QED
    BY <2>1, <2>2
<1>3. ASSUME TypeOK, NEW g \in Guis, FinishWizard(g) PROVE Keeps
  BY <1>3 DEF FinishWizard, To, TypeOK, Procs
<1>4. ASSUME NEW g \in Guis, GuiStep(g) \/ UserStep(g),
             ~SaveSkipped(g), ~SaveSafeWifi(g), ~FinishWizard(g)
      PROVE  UNCHANGED setup
  BY <1>4
  DEF GuiStep, UserStep, AskActive, StopService, GuiStarts, GuiCannotStart,
      GuiRefreshes, RefreshFails, AskEnabled, StartService, Advertise, Bind,
      PassGate, ExitGate, InstallService, SwitchOn, SwitchOff, StartRefresh,
      CloseWindow, Killed, filed
<1>5. ServiceNext => UNCHANGED setup
  BY DEF ServiceNext, ServiceStarts, ServiceFails, ServiceRestarts, Advertise, Bind, filed
<1>6. TypeOK /\ [Next]_vars => [Keeps]_vars
  BY <1>1, <1>2, <1>3, <1>4, <1>5 DEF Next, vars, filed
<1> QED
  BY <1>6, TypeCorrect, PTL DEF Spec, SkippedStaysSkipped

-----------------------------------------------------------------------------
(* HomeScreen.                                                             *)

\* HomeTypeOK in the parts that steps disturb together; a session that is
\* under way has a phone.
RegistryTypes ==
  /\ trusted \subseteq Phones /\ settings \subseteq Phones
  /\ active \subseteq Phones /\ manual \subseteq Phones
  /\ closing \subseteq Phones /\ bluetooth \subseteq Phones
  /\ glimpse \in [active : SUBSET Phones, manual : SUBSET Phones, bt : SUBSET Phones]
PolicyTypes ==
  /\ pairable \in BOOLEAN /\ allowAll \in BOOLEAN /\ wifiShown \in BOOLEAN
  /\ networks \in [Wifis -> {"unknown", "off", "on"}] /\ wifi \in Wifis \cup {NoWifi}
SessionTypes ==
  /\ session \in [at : {"none", "pairing", "allowed", "up"}, phone : Phones \cup {NoPhone}]
  /\ session.at # "none" => session.phone \in Phones
  /\ told \in BOOLEAN /\ homeDue \in BOOLEAN /\ acts \in 0..MaxActs
CardTypes ==
  /\ ui \in [at : {"none", "forget", "refresh", "shows"}, phone : Phones \cup {NoPhone}]
  /\ cards \in [Phones -> Model \cup {NoCard}] /\ ringing \subseteq Phones
  /\ dialog \in [kind : {"none", "forget", "unpair", "popup", "settings"},
                 phone : Phones \cup {NoPhone}]
  /\ unseen \subseteq Phones

\* Between the two reads of a refresh, what the first has read still holds,
\* unless the session thread has changed it and the page is yet to hear of it.
ReadStillHolds ==
  ui.at = "shows" /\ ~told /\ ~homeDue => glimpse = RegistryNow /\ wifiShown = allowAll

HomeInv ==
  /\ RegistryTypes /\ PolicyTypes /\ SessionTypes /\ CardTypes
  /\ ReadStillHolds
  /\ CardsFollowDevices

-----------------------------------------------------------------------------

\* The type invariant is part of the inductive one.
LEMMA HomeInvTypes == HomeInv => HomeTypeOK
  BY DEF HomeInv, HomeTypeOK, RegistryTypes, PolicyTypes, SessionTypes, CardTypes

\* What a card shows of a device has its type.
LEMMA ModelTypes ==
  ASSUME NEW p, NEW reg, NEW records PROVE ModelOf(p, reg, records) \in Model \cup {NoCard}
  BY DEF ModelOf, Model, NoCard

\* The home page opens without cards.
LEMMA HomeInitEstablishesInv == HomeInit => HomeInv
<1> SUFFICES ASSUME HomeInit PROVE HomeInv
  OBVIOUS
<1> USE DEF HomeInit
<1>1. RegistryTypes /\ PolicyTypes
  BY DEF RegistryTypes, PolicyTypes
<1>2. SessionTypes
  <2>1. acts \in 0..MaxActs
    BY HomeAssumption
  <2> QED
    BY <2>1 DEF SessionTypes, Idle
<1>3. CardTypes
  BY DEF CardTypes, Idle, NoDialog, Model, NoCard
<1>4. ReadStillHolds
  BY DEF ReadStillHolds, Idle
<1>5. CardsFollowDevices
  <2> SUFFICES ASSUME NEW p \in Phones PROVE cards[p] = ModelOf(p, RegistryNow, trusted)
    BY DEF CardsFollowDevices
  <2>1. CASE p \notin trusted
    BY <2>1 DEF ModelOf
  <2>2. CASE p \in trusted
    <3>1. (p \in RegistryNow.bt) = FALSE /\ p \notin RegistryNow.active
          /\ p \notin RegistryNow.manual
      BY DEF RegistryNow
    <3>2. ModelOf(p, RegistryNow, trusted) = [at |-> "unavailable", bt |-> p \in RegistryNow.bt]
      BY <2>2, <3>1 DEF ModelOf
    <3>3. cards[p] = [at |-> "unavailable", bt |-> FALSE]
      BY <2>2
    <3> QED
      BY <3>1, <3>2, <3>3
  <2> QED
    BY <2>1, <2>2
<1> QED
  BY <1>1, <1>2, <1>3, <1>4, <1>5 DEF HomeInv

\* The first read of a refresh, and the second, which draws the cards.
LEMMA RefreshPreservesHomeInv ==
  ASSUME HomeInv, RefreshReads \/ RefreshShows
  PROVE  HomeInv'
<1> USE DEF HomeInv, stores, registry, policy
<1>1. CASE RefreshReads
  <2>1. RegistryTypes' /\ PolicyTypes' /\ SessionTypes'
    BY <1>1 DEF RefreshReads, RegistryTypes, PolicyTypes, SessionTypes, RegistryNow
  <2>2. CardTypes'
    BY <1>1 DEF RefreshReads, CardTypes, Idle
  <2>3. ReadStillHolds' /\ CardsFollowDevices'
    BY <1>1 DEF RefreshReads, ReadStillHolds, CardsFollowDevices, RegistryNow, Idle
  <2> QED
    BY <2>1, <2>2, <2>3
<1>2. CASE RefreshShows
  <2>1. RegistryTypes' /\ PolicyTypes' /\ SessionTypes'
    BY <1>2 DEF RefreshShows, RegistryTypes, PolicyTypes, SessionTypes
  <2>2. Cards \in [Phones -> Model \cup {NoCard}]
    BY ModelTypes DEF Cards
  <2>3. cards' = Cards
    BY <1>2 DEF RefreshShows, Redraw
  <2>4. CardTypes'
    BY <1>2, <2>2, <2>3 DEF RefreshShows, Redraw, CardTypes, Idle, NoDialog
  <2>5. ReadStillHolds'
    BY <1>2 DEF RefreshShows, ReadStillHolds, Idle
  <2>6. CardsFollowDevices'
    <3>1. CASE told' \/ homeDue'
      BY <3>1 DEF CardsFollowDevices
    <3>2. CASE ~told' /\ ~homeDue'
      <4>1. glimpse = RegistryNow /\ wifiShown = allowAll
        BY <1>2, <3>2 DEF RefreshShows, ReadStillHolds
      <4>2. RegistryNow' = RegistryNow /\ trusted' = trusted
        BY <1>2 DEF RefreshShows, RegistryNow
      <4> QED
        BY <1>2, <2>3, <4>1, <4>2 DEF RefreshShows, CardsFollowDevices, Cards, ModelOf
    <3> QED
      BY <3>1, <3>2
  <2> QED
    BY <2>1, <2>4, <2>5, <2>6
<1> QED
  BY <1>1, <1>2

\* What the user does is followed by a refresh, or changes neither stores nor
\* registry nor cards.
LEMMA UserPreservesHomeInv ==
  ASSUME HomeInv, RegistryTypes', PolicyTypes', SessionTypes', CardTypes',
         UNCHANGED <<told, homeDue, cards, wifiShown, unseen>>,
         \/ ui' \in [at : {"forget", "refresh"}, phone : Phones \cup {NoPhone}]
         \/ /\ ui = Idle /\ ui' = Idle
            /\ UNCHANGED <<trusted, active, manual, bluetooth, allowAll>>
  PROVE  HomeInv'
<1>1. ReadStillHolds'
  BY DEF HomeInv, ReadStillHolds, Idle
<1>2. CardsFollowDevices'
  BY DEF HomeInv, CardsFollowDevices, ModelOf, RegistryNow, Idle
<1> QED
  BY <1>1, <1>2 DEF HomeInv

\* A click on a card keeps the invariant,
LEMMA CardClickPreservesHomeInv ==
  ASSUME HomeInv, NEW p \in Phones,
         \/ \E kind \in {"forget", "unpair", "popup", "settings"} : OpenDialog(p, kind)
         \/ RingClicked(p) \/ UnpairDevice(p) \/ AllowReconnect(p) \/ ForgetDevice(p)
         \/ SetDeviceSetting(p)
  PROVE  HomeInv'
<1> USE HomeAssumption DEF Hand, Act, stores, registry, policy, shown
<1> USE DEF HomeInv
<1>1. CASE \E kind \in {"forget", "unpair", "popup", "settings"} : OpenDialog(p, kind)
  <2>1. RegistryTypes' /\ PolicyTypes' /\ SessionTypes'
    BY <1>1 DEF OpenDialog, RestOfUser, RegistryTypes, PolicyTypes, SessionTypes
  <2>2. CardTypes'
    BY <1>1 DEF OpenDialog, RestOfUser, CardTypes
  <2> QED
    BY <1>1, <2>1, <2>2, UserPreservesHomeInv DEF OpenDialog, RestOfUser
<1>2. CASE RingClicked(p)
  <2>1. RegistryTypes' /\ PolicyTypes' /\ SessionTypes' /\ CardTypes'
    BY <1>2 DEF RingClicked, RegistryTypes, PolicyTypes, SessionTypes, CardTypes
  <2> QED
    BY <1>2, <2>1, UserPreservesHomeInv DEF RingClicked
<1>3. CASE UnpairDevice(p) \/ AllowReconnect(p) \/ ForgetDevice(p) \/ SetDeviceSetting(p)
  <2> USE DEF UnpairDevice, AllowReconnect, ForgetDevice, SetDeviceSetting, Refreshes, RestOfUser
  <2>1. RegistryTypes'
    BY <1>3 DEF RegistryTypes
  <2>2. PolicyTypes' /\ SessionTypes'
    <3>1. PolicyTypes'
      BY <1>3 DEF PolicyTypes
    <3>2. acts' \in 0..MaxActs
      BY <1>3 DEF SessionTypes
    <3> QED
      BY <1>3, <3>1, <3>2 DEF SessionTypes
  <2>3. /\ CardTypes'
        /\ ui' \in [at : {"forget", "refresh"}, phone : Phones \cup {NoPhone}]
    BY <1>3 DEF CardTypes, NoDialog, Idle
  <2> QED
    BY <1>3, <2>1, <2>2, <2>3, UserPreservesHomeInv
<1> QED
  BY <1>1, <1>2, <1>3

\* a click elsewhere on the page,
LEMMA PageClickPreservesHomeInv ==
  ASSUME HomeInv,
         \/ ForgetStores \/ CloseDialog \/ AllowNewPairing \/ ToggleWifi
         \/ \E w \in Wifis : ToggleNetwork(w)
  PROVE  HomeInv'
<1> USE HomeAssumption DEF Hand, Act, stores, registry, policy, shown
<1> USE DEF HomeInv
<1>1. CASE ForgetStores \/ CloseDialog
  <2> USE DEF ForgetStores, CloseDialog, Refreshes, RestOfUser
  <2>1. RegistryTypes' /\ PolicyTypes' /\ SessionTypes'
    BY <1>1 DEF RegistryTypes, PolicyTypes, SessionTypes
  <2>2. CardTypes'
    BY <1>1 DEF CardTypes, NoDialog, Idle
  <2>3. \/ ui' \in [at : {"forget", "refresh"}, phone : Phones \cup {NoPhone}]
        \/ /\ ui = Idle /\ ui' = Idle
           /\ UNCHANGED <<trusted, active, manual, bluetooth, allowAll>>
    BY <1>1 DEF Idle
  <2> QED
    BY <1>1, <2>1, <2>2, <2>3, UserPreservesHomeInv
<1>2. CASE AllowNewPairing \/ ToggleWifi \/ \E w \in Wifis : ToggleNetwork(w)
  <2> USE DEF AllowNewPairing, ToggleWifi, ToggleNetwork, Refreshes, RestOfUser
  <2>1. RegistryTypes' /\ SessionTypes'
    BY <1>2 DEF RegistryTypes, SessionTypes
  <2>2. PolicyTypes'
    BY <1>2 DEF PolicyTypes
  <2>3. /\ CardTypes'
        /\ ui' \in [at : {"forget", "refresh"}, phone : Phones \cup {NoPhone}]
    BY <1>2 DEF CardTypes, Idle
  <2> QED
    BY <1>2, <2>1, <2>2, <2>3, UserPreservesHomeInv
<1> QED
  BY <1>1, <1>2

\* The session thread tells of what it changed, or has changed only what the
\* cards do not show or show of phones paired since.
LEMMA SessionPreservesHomeInv ==
  ASSUME HomeInv,
         \/ Paired \/ MarkConnected \/ AskedToClose \/ Tell \/ RecordBluetooth \/ LinkLost
         \/ \E p \in Phones : PairingAllowed(p) \/ SessionAllowed(p)
  PROVE  HomeInv'
<1> USE HomeAssumption DEF HomeInv, Act, stores, registry, policy, shown, RestOfSession
<1>1. CASE \E p \in Phones : PairingAllowed(p) \/ SessionAllowed(p)
  <2>1. RegistryTypes' /\ PolicyTypes' /\ SessionTypes' /\ CardTypes'
    BY <1>1 DEF PairingAllowed, SessionAllowed, RegistryTypes, PolicyTypes, SessionTypes, CardTypes
  <2>2. ReadStillHolds' /\ CardsFollowDevices'
    BY <1>1 DEF PairingAllowed, SessionAllowed, ReadStillHolds, CardsFollowDevices, RegistryNow,
      ModelOf
  <2> QED
    BY <2>1, <2>2
<1>2. CASE Paired
  <2>1. RegistryTypes' /\ PolicyTypes' /\ SessionTypes' /\ CardTypes'
    BY <1>2 DEF Paired, Idle, RegistryTypes, PolicyTypes, SessionTypes, CardTypes
  <2>2. ReadStillHolds' /\ CardsFollowDevices'
    BY <1>2 DEF Paired, ReadStillHolds, CardsFollowDevices, RegistryNow, ModelOf
  <2> QED
    BY <2>1, <2>2
<1>3. CASE MarkConnected
  <2>1. RegistryTypes' /\ PolicyTypes' /\ SessionTypes' /\ CardTypes'
    BY <1>3 DEF MarkConnected, RegistryTypes, PolicyTypes, SessionTypes, CardTypes
  <2>2. told' \/ active' = active
    BY <1>3 DEF MarkConnected
  <2>3. ReadStillHolds' /\ CardsFollowDevices'
    BY <1>3, <2>2 DEF MarkConnected, ReadStillHolds, CardsFollowDevices, RegistryNow, ModelOf
  <2> QED
    BY <2>1, <2>3
<1>4. CASE RecordBluetooth
  <2>1. RegistryTypes' /\ PolicyTypes' /\ SessionTypes' /\ CardTypes'
    BY <1>4 DEF RecordBluetooth, RegistryTypes, PolicyTypes, SessionTypes, CardTypes
  <2>2. ReadStillHolds' /\ CardsFollowDevices'
    BY <1>4 DEF RecordBluetooth, ReadStillHolds, CardsFollowDevices
  <2> QED
    BY <2>1, <2>2
<1>5. CASE AskedToClose \/ LinkLost
  <2>1. RegistryTypes' /\ PolicyTypes' /\ SessionTypes' /\ CardTypes'
    <3>1. acts' \in 0..MaxActs
      BY <1>5 DEF AskedToClose, LinkLost, SessionTypes
    <3>2. session' = Idle /\ told' = TRUE /\ homeDue' = homeDue
      BY <1>5 DEF AskedToClose, LinkLost, Closed
    <3>3. SessionTypes'
      BY <3>1, <3>2 DEF Idle, SessionTypes
    <3> QED
      BY <1>5, <3>3 DEF AskedToClose, LinkLost, Closed, RegistryTypes, PolicyTypes, CardTypes
  <2>2. ReadStillHolds' /\ CardsFollowDevices'
    BY <1>5 DEF AskedToClose, LinkLost, ReadStillHolds, CardsFollowDevices
  <2> QED
    BY <2>1, <2>2
<1>6. CASE Tell
  <2>1. RegistryTypes' /\ PolicyTypes' /\ SessionTypes' /\ CardTypes'
    <3>1. SessionTypes'
      BY <1>6 DEF Tell, SessionTypes
    <3> QED
      BY <1>6, <3>1 DEF Tell, RegistryTypes, PolicyTypes, CardTypes
  <2>2. ReadStillHolds' /\ CardsFollowDevices'
    BY <1>6 DEF Tell, ReadStillHolds, CardsFollowDevices
  <2> QED
    BY <2>1, <2>2
<1> QED
  BY <1>1, <1>2, <1>3, <1>4, <1>5, <1>6

\* and what happens without the user.
LEMMA WorldPreservesHomeInv ==
  ASSUME HomeInv,
         \/ \E w \in Wifis \cup {NoWifi} : WifiMoves(w)
         \/ PairingTimePasses \/ UNCHANGED homeVars
  PROVE  HomeInv'
<1> USE HomeAssumption DEF HomeInv, Act, stores, registry, policy, shown, homeVars, WifiMoves,
      PairingTimePasses
<1>1. RegistryTypes' /\ PolicyTypes' /\ SessionTypes' /\ CardTypes'
  <2>1. acts' \in 0..MaxActs
    BY DEF SessionTypes
  <2>2. SessionTypes'
    BY <2>1 DEF SessionTypes
  <2>3. RegistryTypes' /\ CardTypes'
    BY DEF RegistryTypes, CardTypes
  <2>4. PolicyTypes'
    BY DEF PolicyTypes
  <2> QED
    BY <2>2, <2>3, <2>4
<1>2. ReadStillHolds' /\ CardsFollowDevices'
  BY DEF ReadStillHolds, CardsFollowDevices, RegistryNow, ModelOf
<1> QED
  BY <1>1, <1>2

\* The invariant is inductive.
LEMMA HomeNextPreservesInv == HomeInv /\ [HomeNext]_homeVars => HomeInv'
<1> SUFFICES ASSUME HomeInv, [HomeNext]_homeVars PROVE HomeInv'
  OBVIOUS
<1>1. CASE RefreshReads \/ RefreshShows
  BY <1>1, RefreshPreservesHomeInv
<1>2. CASE \E p \in Phones :
             \/ \E kind \in {"forget", "unpair", "popup", "settings"} : OpenDialog(p, kind)
             \/ RingClicked(p) \/ UnpairDevice(p) \/ AllowReconnect(p) \/ ForgetDevice(p)
             \/ SetDeviceSetting(p)
  BY <1>2, CardClickPreservesHomeInv
<1>3. CASE \/ ForgetStores \/ CloseDialog \/ AllowNewPairing \/ ToggleWifi
           \/ \E w \in Wifis : ToggleNetwork(w)
  BY <1>3, PageClickPreservesHomeInv
<1>4. CASE \/ Paired \/ MarkConnected \/ AskedToClose \/ Tell \/ RecordBluetooth \/ LinkLost
           \/ \E p \in Phones : PairingAllowed(p) \/ SessionAllowed(p)
  BY <1>4, SessionPreservesHomeInv
<1>5. CASE \/ \E w \in Wifis \cup {NoWifi} : WifiMoves(w)
           \/ PairingTimePasses \/ UNCHANGED homeVars
  BY <1>5, WorldPreservesHomeInv
<1> QED
  BY <1>1, <1>2, <1>3, <1>4, <1>5 DEF HomeNext

\* The types of the home page, and cards that follow the devices once nothing
\* is left to be redrawn, hold always (DevicesPanel.refresh).
THEOREM HomeInvHolds == HomeSpec => []HomeInv
  BY HomeInitEstablishesInv, HomeNextPreservesInv, PTL DEF HomeSpec

-----------------------------------------------------------------------------
(* PhoneDialogs.                                                           *)

\* The requests that dialogs make: a search names a text, a list a folder.
Request ==
  {a \in Asked : /\ a.family = "search" => a.what \in Texts
                 /\ a.family = "list" => a.what \in Paths}

LinkTypes ==
  /\ linked \in BOOLEAN /\ links \in 0..MaxLinks /\ requests \in 0..MaxRequests
RequestTypes == waiting \in [Families -> Seq(Request)] /\ away \in Seq(Request)
KnownTypes ==
  /\ found \in Texts \cup {NoText} /\ recents \in BOOLEAN
  /\ contactsStatus \in Statuses /\ fileStatus \in Statuses
  /\ listing \in Paths \cup {NoPath}
DialogTypes ==
  /\ open \in {"none", "contacts", "files", "dialer", "apps"}
  /\ text \in Texts \cup {NoText} /\ searchDue \in BOOLEAN
  /\ late \in Texts \cup {NoText}
  /\ people \in People
  /\ tree \in Paths \cup {NoPath} /\ wanted \in Paths \cup {NoPath}

\* DialogsTypeOK is not inductive: that an answer to a search is a text, and
\* one to a list a folder, depends on what was asked.
DialogsInv == LinkTypes /\ RequestTypes /\ KnownTypes /\ DialogTypes

-----------------------------------------------------------------------------

\* The type invariant is part of the inductive one.
LEMMA DialogsInvTypes == DialogsInv => DialogsTypeOK
<1> SUFFICES ASSUME DialogsInv PROVE DialogsTypeOK
  OBVIOUS
<1>1. Request \subseteq Asked
  BY DEF Request
<1>2. \A s \in Seq(Request) : s \in Seq(Asked)
  BY <1>1
<1>3. waiting \in [Families -> Seq(Asked)] /\ away \in Seq(Asked)
  BY <1>2 DEF DialogsInv, RequestTypes
<1> QED
  BY <1>3 DEF DialogsInv, LinkTypes, KnownTypes, DialogTypes, DialogsTypeOK

\* The dialogs begin with no request.
LEMMA DialogsInitEstablishesInv == DialogsInit => DialogsInv
<1> SUFFICES ASSUME DialogsInit PROVE DialogsInv
  OBVIOUS
<1> USE DEF DialogsInit
<1>1. LinkTypes
  <2>1. links \in 0..MaxLinks /\ requests \in 0..MaxRequests
    BY DialogsAssumption
  <2> QED
    BY <2>1 DEF LinkTypes
<1>2. RequestTypes
  BY DEF RequestTypes
<1>3. KnownTypes /\ DialogTypes
  BY DEF KnownTypes, DialogTypes, Blank, People, Statuses
<1> QED
  BY <1>1, <1>2, <1>3 DEF DialogsInv

\* A request that fits goes to the end of its queue.
LEMMA EnqueueTypes ==
  ASSUME RequestTypes, NEW f \in Families, NEW w \in Texts \cup Paths \cup {NoText},
         f = "search" => w \in Texts, f = "list" => w \in Paths, Enqueue(f, w), away' = away
  PROVE  RequestTypes'
<1>1. [family |-> f, what |-> w] \in Request
  BY DEF Request, Asked
<1>2. Append(waiting[f], [family |-> f, what |-> w]) \in Seq(Request)
  BY <1>1 DEF RequestTypes
<1> QED
  BY <1>2 DEF Enqueue, RequestTypes

\* The link comes and goes, requests are sent and answered.
LEMMA LinkPreservesDialogs ==
  ASSUME DialogsInv,
         PhoneConnects \/ PhoneCloses \/ Answer \/ FileReceived \/ \E f \in Families : Send(f)
  PROVE  DialogsInv'
<1> USE DEF DialogsInv, knownVars, shownVars
<1>1. DialogTypes'
  BY DEF PhoneConnects, PhoneCloses, Answer, FileReceived, Send, DialogTypes
<1>2. CASE PhoneConnects
  <2>1. RequestTypes'
    BY <1>2, EnqueueTypes DEF PhoneConnects, AskRecents, Families
  <2>2. links' \in 0..MaxLinks
    BY <1>2, DialogsAssumption DEF PhoneConnects, AskRecents, LinkTypes
  <2>3. LinkTypes' /\ KnownTypes'
    BY <1>2, <2>2 DEF PhoneConnects, AskRecents, LinkTypes, KnownTypes, Statuses
  <2> QED
    BY <1>1, <2>1, <2>3
<1>3. CASE PhoneCloses
  <2>1. RequestTypes'
    BY <1>3 DEF PhoneCloses, RequestTypes
  <2>2. LinkTypes' /\ KnownTypes'
    BY <1>3 DEF PhoneCloses, LinkTypes, KnownTypes, Statuses
  <2> QED
    BY <1>1, <2>1, <2>2
<1>4. CASE Answer
  <2>1. Head(away) \in Request /\ Tail(away) \in Seq(Request)
    BY <1>4 DEF Answer, RequestTypes
  <2>2. RequestTypes'
    BY <1>4, <2>1 DEF Answer, RequestTypes
  <2>3. LinkTypes' /\ KnownTypes'
    BY <1>4, <2>1 DEF Answer, Learn, Request, LinkTypes, KnownTypes, Statuses
  <2> QED
    BY <1>1, <2>2, <2>3
<1>5. CASE \E f \in Families : Send(f)
  <2> PICK f \in Families : Send(f)
    BY <1>5
  <2>1. /\ waiting[f] \in Seq(Request) /\ Head(waiting[f]) \in Request
        /\ Tail(waiting[f]) \in Seq(Request)
    BY DEF Send, RequestTypes
  <2>2. RequestTypes'
    BY <2>1 DEF Send, RequestTypes
  <2>3. LinkTypes' /\ KnownTypes'
    BY DEF Send, LinkTypes, KnownTypes
  <2> QED
    BY <1>1, <2>2, <2>3
<1>6. CASE FileReceived
  <2>1. RequestTypes' /\ LinkTypes'
    BY <1>6 DEF FileReceived, RequestTypes, LinkTypes, linkVars
  <2>2. KnownTypes'
    BY <1>6 DEF FileReceived, KnownTypes, Statuses
  <2> QED
    BY <1>1, <2>1, <2>2
<1> QED
  BY <1>2, <1>3, <1>4, <1>5, <1>6

\* The user asks for one thing more.
LEMMA UserKeepsLink == ASSUME LinkTypes, User, UNCHANGED <<linked, links>> PROVE LinkTypes'
<1>1. requests' \in 0..MaxRequests
  BY DialogsAssumption DEF LinkTypes, User
<1> QED
  BY <1>1 DEF LinkTypes

\* What the contacts dialog draws has its type.
LEMMA PeopleTypes ==
  ASSUME KnownTypes, NEW t \in Texts \cup {NoText} PROVE PeopleNow(t) \in People
  BY DEF KnownTypes, PeopleNow, People

\* The contacts dialog keeps the invariant,
LEMMA ContactsPreserveDialogs ==
  ASSUME DialogsInv,
         \/ OpenContacts \/ SendSearch \/ SendLateSearch \/ PollContacts
         \/ \E t \in Texts \cup {NoText} : QueueSearch(t)
  PROVE  DialogsInv'
<1> USE DEF DialogsInv, knownVars, linkVars
<1>1. CASE OpenContacts
  <2>1. LinkTypes'
    BY <1>1, UserKeepsLink DEF OpenContacts
  <2>2. RequestTypes'
    <3>1. CASE linked
      BY <1>1, <3>1, EnqueueTypes DEF OpenContacts, AskRecents, Families
    <3>2. CASE ~linked
      BY <1>1, <3>2 DEF OpenContacts, RequestTypes
    <3> QED
      BY <3>1, <3>2
  <2>3. KnownTypes'
    BY <1>1 DEF OpenContacts, AskRecents, KnownTypes, Statuses
  <2>4. people' \in People
    BY <1>1, <2>3, PeopleTypes DEF OpenContacts, People, KnownTypes
  <2>5. DialogTypes'
    BY <1>1, <2>4 DEF OpenContacts, DialogTypes
  <2> QED
    BY <2>1, <2>2, <2>3, <2>5
<1>2. CASE SendSearch \/ SendLateSearch
  <2> PICK t \in Texts \cup {NoText} : SearchFor(t) /\ late' \in {late, NoText} /\ searchDue' \in BOOLEAN
    BY <1>2 DEF SendSearch, SendLateSearch, DialogTypes
  <2>1. LinkTypes' /\ KnownTypes'
    BY DEF SearchFor, LinkTypes, KnownTypes, Statuses
  <2>2. RequestTypes'
    <3>1. CASE t # NoText /\ linked
      BY <3>1, EnqueueTypes DEF SearchFor, Families
    <3>2. CASE ~(t # NoText /\ linked)
      BY <3>2 DEF SearchFor, RequestTypes
    <3> QED
      BY <3>1, <3>2
  <2>3. DialogTypes'
    BY DEF SearchFor, DialogTypes
  <2> QED
    BY <2>1, <2>2, <2>3
<1>3. CASE PollContacts
  <2>1. LinkTypes' /\ RequestTypes' /\ KnownTypes'
    BY <1>3 DEF PollContacts, LinkTypes, RequestTypes, KnownTypes
  <2>2. DialogTypes'
    BY <1>3, PeopleTypes DEF PollContacts, DialogTypes
  <2> QED
    BY <2>1, <2>2
<1>4. CASE \E t \in Texts \cup {NoText} : QueueSearch(t)
  <2> PICK t \in Texts \cup {NoText} : QueueSearch(t)
    BY <1>4
  <2>1. LinkTypes'
    BY UserKeepsLink DEF QueueSearch
  <2>2. RequestTypes' /\ KnownTypes'
    BY DEF QueueSearch, RequestTypes, KnownTypes
  <2>3. DialogTypes'
    BY PeopleTypes DEF QueueSearch, DialogTypes
  <2> QED
    BY <2>1, <2>2, <2>3
<1> QED
  BY <1>1, <1>2, <1>3, <1>4

\* the file dialog as well,
LEMMA FilesPreserveDialogs ==
  ASSUME DialogsInv,
         \/ \E path \in Paths : OpenFiles(path) \/ GoTo(path)
         \/ PollFiles \/ Pull
  PROVE  DialogsInv'
<1> USE DEF DialogsInv, knownVars, linkVars, peopleVars, shownVars
<1>1. CASE \E path \in Paths : OpenFiles(path) \/ GoTo(path)
  <2> PICK path \in Paths : OpenFiles(path) \/ GoTo(path)
    BY <1>1
  <2>1. User /\ RequestList(path) /\ UNCHANGED <<linked, links, away, found, recents,
          contactsStatus, peopleVars>>
        /\ open' \in {"files", open} /\ tree' \in {listing', tree}
    BY DEF OpenFiles, GoTo
  <2>2. LinkTypes'
    BY <2>1, UserKeepsLink
  <2>3. KnownTypes' /\ DialogTypes'
    BY <2>1 DEF RequestList, KnownTypes, DialogTypes, Statuses
  <2>4. RequestTypes'
    <3>1. CASE linked
      BY <2>1, <3>1, EnqueueTypes DEF RequestList, Families
    <3>2. CASE ~linked
      BY <2>1, <3>2 DEF RequestList, RequestTypes
    <3> QED
      BY <3>1, <3>2
  <2> QED
    BY <2>2, <2>3, <2>4
<1>2. CASE PollFiles
  BY <1>2 DEF PollFiles, LinkTypes, RequestTypes, KnownTypes, DialogTypes
<1>3. CASE Pull
  <2>1. LinkTypes'
    BY <1>3, UserKeepsLink DEF Pull
  <2>2. KnownTypes' /\ DialogTypes'
    BY <1>3 DEF Pull, KnownTypes, DialogTypes, Statuses
  <2>3. RequestTypes'
    <3>1. CASE linked
      <4>1. tree \in Paths
        BY <1>3 DEF Pull, DialogTypes
      <4> QED
        BY <1>3, <3>1, <4>1, EnqueueTypes DEF Pull, Families
    <3>2. CASE ~linked
      BY <1>3, <3>2 DEF Pull, RequestTypes
    <3> QED
      BY <3>1, <3>2
  <2> QED
    BY <2>1, <2>2, <2>3
<1> QED
  BY <1>1, <1>2, <1>3

\* and so do the others and the end of a dialog.
LEMMA OthersPreserveDialogs ==
  ASSUME DialogsInv,
         \/ \E d \in {"dialer", "apps"} : OpenOther(d)
         \/ \E b \in BOOLEAN : Dial(b) \/ LaunchSharedApp(b) \/ DialogEnds(b)
  PROVE  DialogsInv'
<1> USE DEF DialogsInv, knownVars, linkVars, peopleVars, shownVars
<1>1. CASE \E d \in {"dialer", "apps"} : OpenOther(d)
  <2>1. LinkTypes'
    BY <1>1, UserKeepsLink DEF OpenOther
  <2> QED
    BY <1>1, <2>1 DEF OpenOther, RequestTypes, KnownTypes, DialogTypes
<1>2. CASE \E b \in BOOLEAN : Dial(b)
  <2> PICK b \in BOOLEAN : Dial(b)
    BY <1>2
  <2> DEFINE d == [family |-> "other", what |-> NoText]
             dialled == IF b THEN <<d, d>> ELSE <<d>>
  <2>1. LinkTypes'
    BY UserKeepsLink DEF Dial
  <2>2. d \in Request
    BY DEF Request, Asked, Families
  <2> HIDE DEF d
  <2>3. dialled \in Seq(Request)
    BY <2>2
  <2> HIDE DEF dialled
  <2>4. waiting["other"] \o dialled \in Seq(Request)
    BY <2>3 DEF RequestTypes, Families
  <2>5. waiting' = [waiting EXCEPT !["other"] = @ \o dialled] /\ away' = away
    BY DEF Dial, dialled, d
  <2>6. RequestTypes'
    BY <2>4, <2>5 DEF RequestTypes
  <2>7. KnownTypes' /\ DialogTypes'
    BY DEF Dial, KnownTypes, DialogTypes
  <2> QED
    BY <2>1, <2>6, <2>7
<1>3. CASE \E b \in BOOLEAN : LaunchSharedApp(b)
  <2> PICK b \in BOOLEAN : LaunchSharedApp(b)
    BY <1>3
  <2>1. LinkTypes'
    BY UserKeepsLink DEF LaunchSharedApp
  <2>2. RequestTypes'
    <3>1. CASE b
      BY <3>1, EnqueueTypes DEF LaunchSharedApp, Families
    <3>2. CASE ~b
      BY <3>2 DEF LaunchSharedApp, RequestTypes
    <3> QED
      BY <3>1, <3>2
  <2>3. KnownTypes' /\ DialogTypes'
    BY DEF LaunchSharedApp, KnownTypes, DialogTypes
  <2> QED
    BY <2>1, <2>2, <2>3
<1>4. CASE \E b \in BOOLEAN : DialogEnds(b)
  <2>1. LinkTypes' /\ RequestTypes' /\ KnownTypes'
    BY <1>4 DEF DialogEnds, LinkTypes, RequestTypes, KnownTypes
  <2>2. Blank \in People
    BY DEF Blank, People, Statuses
  <2>3. late' \in Texts \cup {NoText}
    BY <1>4 DEF DialogEnds, DialogTypes
  <2>4. DialogTypes'
    BY <1>4, <2>2, <2>3 DEF DialogEnds, DialogTypes
  <2> QED
    BY <2>1, <2>4
<1> QED
  BY <1>1, <1>2, <1>3, <1>4

\* The invariant is inductive.
LEMMA DialogsNextPreservesInv == DialogsInv /\ [DialogsNext]_dialogsVars => DialogsInv'
<1> SUFFICES ASSUME DialogsInv, [DialogsNext]_dialogsVars PROVE DialogsInv'
  OBVIOUS
<1>1. CASE PhoneConnects \/ PhoneCloses \/ Answer \/ FileReceived \/ \E f \in Families : Send(f)
  BY <1>1, LinkPreservesDialogs
<1>2. CASE \/ OpenContacts \/ SendSearch \/ SendLateSearch \/ PollContacts
           \/ \E t \in Texts \cup {NoText} : QueueSearch(t)
  BY <1>2, ContactsPreserveDialogs
<1>3. CASE \/ \E path \in Paths : OpenFiles(path) \/ GoTo(path)
           \/ PollFiles \/ Pull
  BY <1>3, FilesPreserveDialogs
<1>4. CASE \/ \E d \in {"dialer", "apps"} : OpenOther(d)
           \/ \E b \in BOOLEAN : Dial(b) \/ LaunchSharedApp(b) \/ DialogEnds(b)
  BY <1>4, OthersPreserveDialogs
<1>5. CASE UNCHANGED dialogsVars
  BY <1>5 DEF DialogsInv, LinkTypes, RequestTypes, KnownTypes, DialogTypes, dialogsVars,
    linkVars, knownVars, shownVars
<1> QED
  BY <1>1, <1>2, <1>3, <1>4, <1>5 DEF DialogsNext

\* The types of the dialogs and of the requests they make hold always: a search
\* names a text, a list a folder (ContactsDialog, PhoneFileBrowserDialog).
THEOREM DialogsInvHolds == DialogsSpec => []DialogsInv
  BY DialogsInitEstablishesInv, DialogsNextPreservesInv, PTL DEF DialogsSpec

-----------------------------------------------------------------------------

\* Requests wait in the queue of their family.
OwnQueue == \A f \in Families : \A i \in DOMAIN waiting[f] : waiting[f][i].family = f

\* Of the requests for a folder that are not yet answered, the newest is for
\* the folder that the dialog wants.
NewestListIsWanted ==
  wanted # NoPath =>
    /\ waiting["list"] # <<>> => waiting["list"][Len(waiting["list"])].what = wanted
    /\ waiting["list"] = <<>> =>
         \A i \in DOMAIN away : away[i].family = "list" =>
           \/ away[i].what = wanted
           \/ \E j \in DOMAIN away : j > i /\ away[j].family = "list"

OrderInv == DialogsInv /\ OwnQueue /\ NewestListIsWanted

\* Nothing is wanted in the beginning.
LEMMA DialogsInitEstablishesOrder == DialogsInit => OrderInv
  BY DialogsInitEstablishesInv DEF DialogsInit, OrderInv, OwnQueue, NewestListIsWanted

\* A step that adds to one queue and leaves the requests for folders alone, or
\* adds the one that is wanted.
LEMMA EnqueueKeepsOrder ==
  ASSUME OrderInv, NEW f \in Families, NEW w \in Texts \cup Paths \cup {NoText},
         Enqueue(f, w), away' = away,
         IF f = "list" THEN wanted' = w ELSE wanted' \in {wanted, NoPath}
  PROVE  OwnQueue' /\ NewestListIsWanted'
<1> DEFINE a == [family |-> f, what |-> w]
<1>1. \A g \in Families : waiting[g] \in Seq(Request)
  BY DEF OrderInv, DialogsInv, RequestTypes
<1>2. /\ waiting'[f] = Append(waiting[f], a)
      /\ \A g \in Families \ {f} : waiting'[g] = waiting[g]
  BY DEF Enqueue, OrderInv, DialogsInv, RequestTypes
<1>3. a.family = f /\ a.what = w
  OBVIOUS
<1> HIDE DEF a
<1>4. /\ Len(waiting'[f]) = Len(waiting[f]) + 1 /\ DOMAIN waiting'[f] = 1..Len(waiting[f]) + 1
      /\ waiting'[f][Len(waiting[f]) + 1] = a
      /\ \A i \in DOMAIN waiting[f] : waiting'[f][i] = waiting[f][i]
      /\ DOMAIN waiting[f] = 1..Len(waiting[f]) /\ Len(waiting[f]) \in Nat
  BY <1>1, <1>2
<1>5. OwnQueue'
  <2>1. \A i \in DOMAIN waiting'[f] : waiting'[f][i].family = f
    BY <1>3, <1>4 DEF OrderInv, OwnQueue
  <2> QED
    BY <1>2, <2>1 DEF OrderInv, OwnQueue
<1>6. NewestListIsWanted'
  <2>1. CASE f = "list"
    <3>1. waiting'["list"] # <<>> /\ waiting'["list"][Len(waiting'["list"])].what = wanted'
      BY <1>2, <1>3, <1>4, <2>1
    <3> QED
      BY <3>1 DEF NewestListIsWanted
  <2>2. CASE f # "list"
    <3>1. waiting'["list"] = waiting["list"] /\ away' = away /\ wanted' \in {wanted, NoPath}
      BY <1>2, <2>2 DEF Families
    <3> QED
      BY <3>1 DEF OrderInv, NewestListIsWanted
  <2> QED
    BY <2>1, <2>2
<1> QED
  BY <1>5, <1>6

\* Nothing is asked for, and no folder is newly wanted.
LEMMA RestKeepsOrder ==
  ASSUME OrderInv, UNCHANGED <<waiting, away>>, wanted' \in {wanted, NoPath}
  PROVE  OwnQueue' /\ NewestListIsWanted'
  BY DEF OrderInv, OwnQueue, NewestListIsWanted

\* The oldest request of a queue goes to the phone.
LEMMA SendKeepsOrder ==
  ASSUME OrderInv, NEW f \in Families, Send(f)
  PROVE  OwnQueue' /\ NewestListIsWanted'
<1> DEFINE q == waiting[f]
           n == Len(away)
<1>1. q \in Seq(Request) /\ q # <<>> /\ away \in Seq(Request) /\ n \in Nat
  BY DEF Send, OrderInv, DialogsInv, RequestTypes
<1>2. /\ waiting'[f] = Tail(q) /\ \A g \in Families \ {f} : waiting'[g] = waiting[g]
      /\ away' = Append(away, Head(q)) /\ wanted' = wanted
  BY DEF Send, OrderInv, DialogsInv, RequestTypes, shownVars
<1>3. /\ Len(Tail(q)) = Len(q) - 1 /\ \A i \in 1..(Len(q) - 1) : Tail(q)[i] = q[i + 1]
      /\ Head(q) = q[1] /\ Len(q) \in Nat \ {0} /\ DOMAIN q = 1..Len(q)
      /\ DOMAIN Tail(q) = 1..(Len(q) - 1)
  BY <1>1
<1>4. /\ DOMAIN away = 1..n /\ DOMAIN away' = 1..(n + 1) /\ away'[n + 1] = Head(q)
      /\ \A i \in 1..n : away'[i] = away[i]
  BY <1>1, <1>2
<1>5. Head(q).family = f
  BY <1>3 DEF OrderInv, OwnQueue
<1>6. OwnQueue'
  <2>1. \A i \in DOMAIN waiting'[f] : waiting'[f][i].family = f
    <3> SUFFICES ASSUME NEW i \in DOMAIN waiting'[f] PROVE waiting'[f][i].family = f
      OBVIOUS
    <3>1. i \in 1..(Len(q) - 1) /\ i + 1 \in DOMAIN q /\ waiting'[f][i] = q[i + 1]
      BY <1>2, <1>3
    <3> QED
      BY <3>1 DEF OrderInv, OwnQueue
  <2> QED
    BY <1>2, <2>1 DEF OrderInv, OwnQueue
<1>7. NewestListIsWanted'
  <2> SUFFICES ASSUME wanted # NoPath
               PROVE  /\ waiting'["list"] # <<>> =>
                           waiting'["list"][Len(waiting'["list"])].what = wanted
                      /\ waiting'["list"] = <<>> =>
                           \A i \in DOMAIN away' : away'[i].family = "list" =>
                             \/ away'[i].what = wanted
                             \/ \E j \in DOMAIN away' : j > i /\ away'[j].family = "list"
    BY <1>2 DEF NewestListIsWanted
  <2>1. CASE f = "list"
    <3>1. q[Len(q)].what = wanted
      BY <1>1, <2>1 DEF OrderInv, NewestListIsWanted
    <3>2. CASE Len(q) = 1
      <4>1. Head(q).what = wanted
        BY <1>3, <3>1, <3>2
      <4>2. \A i \in DOMAIN away' : i = n + 1 \/ (n + 1 \in DOMAIN away' /\ n + 1 > i)
        BY <1>1, <1>4
      <4>3. Head(q).family = "list" /\ n + 1 \in DOMAIN away'
        BY <1>1, <1>4, <1>5, <2>1
      <4>4. waiting'["list"] = <<>>
        <5>1. waiting'["list"] = Tail(q)
          BY <1>2, <2>1
        <5>2. Tail(q) \in Seq(Request) /\ Len(Tail(q)) = 0
          BY <1>1, <1>3, <3>2
        <5> HIDE DEF q
        <5> QED
          BY <5>1, <5>2
      <4> QED
        BY <1>4, <4>1, <4>2, <4>3, <4>4
    <3>3. CASE Len(q) # 1
      <4> DEFINE m == Len(q)
      <4>0. m \in Nat \ {0, 1} /\ Len(Tail(q)) = m - 1
            /\ \A i \in 1..(m - 1) : Tail(q)[i] = q[i + 1]
        BY <1>3, <3>3
      <4>a. waiting'["list"] = Tail(q) /\ q[m].what = wanted
        BY <1>2, <2>1, <3>1
      <4> HIDE DEF m, q
      <4>1. m - 1 \in 1..(m - 1) /\ m - 1 + 1 = m /\ m - 1 # 0
        BY <4>0
      <4>2. waiting'["list"] # <<>> /\ Len(waiting'["list"]) = m - 1
        <5>1. Len(Tail(q)) # 0 /\ Len(<<>>) = 0
          BY <4>0, <4>1
        <5>2. Tail(q) # <<>>
          BY <5>1
        <5> QED
          BY <4>0, <4>a, <5>2
      <4>3. waiting'["list"][m - 1] = q[m]
        <5>1. ASSUME NEW k \in 1..(m - 1), k = m - 1 PROVE Tail(q)[k] = q[m]
          <6>1. Tail(q)[k] = q[k + 1] /\ k + 1 = m
            BY <4>0, <4>1, <5>1
          <6> QED
            BY <6>1
        <5> QED
          BY <4>1, <4>a, <5>1
      <4> QED
        BY <4>2, <4>3, <4>a
    <3> QED
      BY <3>2, <3>3
  <2>2. CASE f # "list"
    <3>1. waiting'["list"] = waiting["list"]
      BY <1>2, <2>2 DEF Families
    <3>2. waiting["list"] # <<>> => waiting["list"][Len(waiting["list"])].what = wanted
      BY DEF OrderInv, NewestListIsWanted
    <3>3. ASSUME waiting["list"] = <<>>, NEW i \in DOMAIN away', away'[i].family = "list"
          PROVE  \/ away'[i].what = wanted
                 \/ \E j \in DOMAIN away' : j > i /\ away'[j].family = "list"
      <4>1. i \in 1..n /\ away'[i] = away[i]
        BY <1>1, <1>4, <1>5, <2>2, <3>3
      <4>2. \/ away[i].what = wanted
            \/ \E j \in DOMAIN away : j > i /\ away[j].family = "list"
        BY <1>4, <3>3, <4>1 DEF OrderInv, NewestListIsWanted
      <4>3. \A j \in DOMAIN away : j \in DOMAIN away' /\ away'[j] = away[j]
        BY <1>1, <1>4
      <4> QED
        BY <4>1, <4>2, <4>3
    <3> QED
      BY <3>1, <3>2, <3>3
  <2> QED
    BY <2>1, <2>2
<1> QED
  BY <1>6, <1>7

\* The oldest request is answered: the others move up.
LEMMA AnswerKeepsOrder ==
  ASSUME OrderInv, Answer
  PROVE  /\ OwnQueue' /\ NewestListIsWanted'
         /\ (listing' # listing /\ wanted' # NoPath /\ waiting'["list"] = <<>>
             /\ \A i \in DOMAIN away' : away'[i].family # "list") => listing' = wanted'
<1> DEFINE n == Len(away)
<1>1. away \in Seq(Request) /\ away # <<>> /\ n \in Nat \ {0}
  BY DEF Answer, OrderInv, DialogsInv, RequestTypes
<1>2. /\ away' = Tail(away) /\ UNCHANGED <<waiting, wanted>> /\ Learn(Head(away))
  BY DEF Answer, shownVars
<1>3. /\ DOMAIN away = 1..n /\ DOMAIN away' = 1..(n - 1)
      /\ \A i \in 1..(n - 1) : away'[i] = away[i + 1]
      /\ Head(away) = away[1]
  BY <1>1, <1>2
<1>4. OwnQueue'
  BY <1>2 DEF OrderInv, OwnQueue
<1>5. \A i \in DOMAIN away : wanted # NoPath /\ waiting["list"] = <<>> /\ away[i].family = "list" =>
        \/ away[i].what = wanted
        \/ \E j \in DOMAIN away : j > i /\ away[j].family = "list"
  BY DEF OrderInv, NewestListIsWanted
<1>6. \A i \in DOMAIN away : i > 1 => i - 1 \in DOMAIN away' /\ away'[i - 1] = away[i]
  BY <1>1, <1>3
<1>7. NewestListIsWanted'
  <2> SUFFICES ASSUME wanted # NoPath, waiting["list"] = <<>>,
                      NEW i \in DOMAIN away', away'[i].family = "list"
               PROVE  \/ away'[i].what = wanted
                      \/ \E j \in DOMAIN away' : j > i /\ away'[j].family = "list"
    BY <1>2 DEF OrderInv, NewestListIsWanted
  <2>1. i + 1 \in DOMAIN away /\ away'[i] = away[i + 1] /\ i \in Nat
    BY <1>1, <1>3
  <2>2. CASE away[i + 1].what = wanted
    BY <2>1, <2>2
  <2>3. CASE \E j \in DOMAIN away : j > i + 1 /\ away[j].family = "list"
    <3> PICK j \in DOMAIN away : j > i + 1 /\ away[j].family = "list"
      BY <2>3
    <3>1. j > 1 /\ j - 1 > i
      BY <1>1, <1>3, <2>1
    <3> QED
      BY <1>6, <3>1
  <2> QED
    BY <1>5, <2>1, <2>2, <2>3
<1>8. ASSUME listing' # listing, wanted' # NoPath, waiting'["list"] = <<>>,
             \A i \in DOMAIN away' : away'[i].family # "list"
      PROVE  listing' = wanted'
  <2>1. away[1].family = "list" /\ listing' = away[1].what /\ 1 \in DOMAIN away
    BY <1>1, <1>2, <1>3, <1>8 DEF Learn
  <2>2. ~ \E j \in DOMAIN away : j > 1 /\ away[j].family = "list"
    BY <1>6, <1>8
  <2> QED
    BY <1>2, <1>5, <1>8, <2>1, <2>2
<1> QED
  BY <1>4, <1>7, <1>8

\* No request for a folder is on its way or waits.
NoListAsked == waiting["list"] = <<>> /\ \A i \in DOMAIN away : away[i].family # "list"
LastListing == listing' # listing /\ wanted' # NoPath /\ NoListAsked' => listing' = wanted'

\* The order is kept by every step, and an answer that leaves none is the wanted
\* one.
LEMMA DialogsNextKeepsOrder ==
  OrderInv /\ [DialogsNext]_dialogsVars => OrderInv' /\ [LastListing]_dialogsVars
<1> SUFFICES ASSUME OrderInv, [DialogsNext]_dialogsVars
             PROVE  OwnQueue' /\ NewestListIsWanted' /\ [LastListing]_dialogsVars
  BY DialogsNextPreservesInv DEF OrderInv
<1> USE DEF knownVars, shownVars, linkVars, peopleVars
<1>1. CASE PhoneConnects
  BY <1>1, EnqueueKeepsOrder DEF PhoneConnects, AskRecents, LastListing, Families
<1>2. CASE PhoneCloses
  <2>1. waiting' = waiting /\ away' = <<>> /\ wanted' = wanted /\ listing' = listing
    BY <1>2 DEF PhoneCloses
  <2> QED
    BY <2>1 DEF OrderInv, OwnQueue, NewestListIsWanted, LastListing
<1>3. CASE Answer
  BY <1>3, AnswerKeepsOrder DEF LastListing, NoListAsked
<1>4. CASE \E f \in Families : Send(f)
  BY <1>4, SendKeepsOrder DEF Send, LastListing
<1>5. CASE OpenContacts
  <2>1. CASE linked
    BY <1>5, <2>1, EnqueueKeepsOrder DEF OpenContacts, AskRecents, LastListing, Families
  <2>2. CASE ~linked
    BY <1>5, <2>2, RestKeepsOrder DEF OpenContacts, LastListing
  <2> QED
    BY <2>1, <2>2
<1>6. CASE SendSearch \/ SendLateSearch
  <2> PICK t \in Texts \cup {NoText} : SearchFor(t)
    BY <1>6 DEF SendSearch, SendLateSearch, OrderInv, DialogsInv, DialogTypes
  <2>1. CASE t # NoText /\ linked
    BY <2>1, EnqueueKeepsOrder DEF SearchFor, LastListing, Families
  <2>2. CASE ~(t # NoText /\ linked)
    BY <2>2, RestKeepsOrder DEF SearchFor, LastListing
  <2> QED
    BY <2>1, <2>2
<1>7. CASE \/ PollContacts \/ PollFiles \/ FileReceived \/ \E t \in Texts \cup {NoText} : QueueSearch(t)
           \/ \E d \in {"dialer", "apps"} : OpenOther(d)
           \/ \E b \in BOOLEAN : DialogEnds(b)
  BY <1>7, RestKeepsOrder DEF PollContacts, PollFiles, FileReceived, QueueSearch, OpenOther, DialogEnds,
    LastListing
<1>8. CASE \E path \in Paths : OpenFiles(path) \/ GoTo(path)
  <2> PICK path \in Paths : RequestList(path) /\ away' = away
    BY <1>8 DEF OpenFiles, GoTo
  <2>1. CASE linked
    BY <2>1, EnqueueKeepsOrder DEF RequestList, LastListing, Families
  <2>2. CASE ~linked
    BY <2>2, RestKeepsOrder DEF RequestList, LastListing
  <2> QED
    BY <2>1, <2>2
<1>9. CASE Pull
  <2>1. CASE linked
    <3>1. tree \in Paths
      BY <1>9 DEF Pull, OrderInv, DialogsInv, DialogTypes
    <3> QED
      BY <1>9, <2>1, <3>1, EnqueueKeepsOrder DEF Pull, LastListing, Families
  <2>2. CASE ~linked
    BY <1>9, <2>2, RestKeepsOrder DEF Pull, LastListing
  <2> QED
    BY <2>1, <2>2
<1>10. CASE \E b \in BOOLEAN : LaunchSharedApp(b)
  <2> PICK b \in BOOLEAN : LaunchSharedApp(b)
    BY <1>10
  <2>1. CASE b
    BY <2>1, EnqueueKeepsOrder DEF LaunchSharedApp, LastListing, Families
  <2>2. CASE ~b
    BY <2>2, RestKeepsOrder DEF LaunchSharedApp, LastListing
  <2> QED
    BY <2>1, <2>2
<1>11. CASE \E b \in BOOLEAN : Dial(b)
  <2> PICK b \in BOOLEAN : Dial(b)
    BY <1>11
  <2> DEFINE d == [family |-> "other", what |-> NoText]
             dialled == IF b THEN <<d, d>> ELSE <<d>>
  <2>1. /\ waiting' = [waiting EXCEPT !["other"] = @ \o dialled]
        /\ UNCHANGED <<away, wanted, listing>>
    BY DEF Dial
  <2>3. d.family = "other"
    OBVIOUS
  <2> HIDE DEF d
  <2>2. /\ waiting["other"] \in Seq(Request) /\ dialled \in Seq({d})
        /\ \A i \in 1..Len(dialled) : dialled[i] = d
    <3>1. waiting["other"] \in Seq(Request)
      BY DEF OrderInv, DialogsInv, RequestTypes, Families
    <3>2. <<d>> \in Seq({d}) /\ \A i \in 1..Len(<<d>>) : <<d>>[i] = d
      OBVIOUS
    <3>3. <<d, d>> \in Seq({d}) /\ \A i \in 1..Len(<<d, d>>) : <<d, d>>[i] = d
      OBVIOUS
    <3> QED
      BY <3>1, <3>2, <3>3
  <2> HIDE DEF dialled
  <2>4. /\ waiting'["other"] = waiting["other"] \o dialled
        /\ \A g \in Families \ {"other"} : waiting'[g] = waiting[g]
    BY <2>1 DEF OrderInv, DialogsInv, RequestTypes, Families
  <2>5. \A i \in DOMAIN waiting'["other"] : waiting'["other"][i].family = "other"
    <3> SUFFICES ASSUME NEW i \in DOMAIN waiting'["other"]
                 PROVE  waiting'["other"][i].family = "other"
      OBVIOUS
    <3>1. CASE i <= Len(waiting["other"])
      <4>1. i \in DOMAIN waiting["other"] /\ waiting'["other"][i] = waiting["other"][i]
        BY <2>2, <2>4, <3>1
      <4> QED
        BY <4>1 DEF OrderInv, OwnQueue, Families
    <3>2. CASE ~(i <= Len(waiting["other"]))
      <4>1. /\ i - Len(waiting["other"]) \in 1..Len(dialled)
            /\ waiting'["other"][i] = dialled[i - Len(waiting["other"])]
        BY <2>2, <2>4, <3>2
      <4> QED
        BY <2>2, <2>3, <4>1
    <3> QED
      BY <3>1, <3>2
  <2>6. OwnQueue'
    BY <2>4, <2>5 DEF OrderInv, OwnQueue
  <2>7. waiting'["list"] = waiting["list"]
    BY <2>4 DEF Families
  <2>8. NewestListIsWanted'
    BY <2>1, <2>7 DEF OrderInv, NewestListIsWanted
  <2> QED
    BY <2>1, <2>6, <2>8 DEF LastListing
<1>12. CASE UNCHANGED dialogsVars
  BY <1>12, RestKeepsOrder DEF dialogsVars
<1> QED
  BY <1>1, <1>2, <1>3, <1>4, <1>5, <1>6, <1>7, <1>8, <1>9, <1>10, <1>11, <1>12 DEF DialogsNext

\* When no request for a folder is left, the answer to the last of them is for
\* the folder the dialog asked for last, whatever came before.
THEOREM LastAnswerIsWanted == DialogsSpec => [][LastListing]_dialogsVars
  BY DialogsInitEstablishesOrder, DialogsNextKeepsOrder, PTL DEF DialogsSpec

-----------------------------------------------------------------------------
(* NotificationCenter.                                                     *)

\* CenterTypeOK in the parts that steps disturb together; a list of call
\* events is a sequence.
CallEvent == [print : CallPrint, event : Nat]
NoteTypes ==
  /\ notes \in [Posts -> Post \cup {Nothing}]
  /\ history \in [Posts -> Post \cup {Nothing}]
  /\ prints \in [Posts -> [says : Contents, call : BOOLEAN] \cup {Nothing}]
  /\ usedTimes \subseteq Times
  /\ Cardinality(Kept(history)) <= HistoryCap
CallTypes ==
  /\ calls \in Seq(CallEvent) /\ Len(calls) <= CallCap /\ events \in Nat
  /\ \A i \in DOMAIN calls : calls[i].event \in 1..events
  /\ callStatus \in CallTexts \cup {IdleText}
PageTypes ==
  /\ announce \in BOOLEAN /\ pageDue \in BOOLEAN
  /\ page \in {"none", "device", "center"}
  /\ hidden \in [ids : SUBSET Posts, events : SUBSET (1..events)]
  /\ rows \subseteq Posts \X Post /\ callRows \subseteq 1..events
  /\ reply = NoReply \/ (reply.id \in Posts /\ reply.post \in Post)

\* The posts of the history have times of their own.
TimesDiffer(f) == \A i, j \in Kept(f) : f[i].at = f[j].at => i = j
HistoryOrdered ==
  TimesDiffer(history) /\ \A i \in Kept(history) : history[i].at \in usedTimes

\* Without an open page there are no rows to click on.
ClosedPageIsEmpty == page = "none" => rows = {} /\ callRows = {}

CenterInv ==
  /\ NoteTypes /\ CallTypes /\ PageTypes
  /\ HistoryOrdered
  /\ ClosedPageIsEmpty
  /\ RowsFollowRecords

-----------------------------------------------------------------------------

\* The type invariant is part of the inductive one.
LEMMA CenterInvTypes == CenterInv => CenterTypeOK
<1> SUFFICES ASSUME CenterInv PROVE CenterTypeOK
  OBVIOUS
<1>1. \A i \in DOMAIN calls : calls[i].print \in CallPrint /\ calls[i].event \in 1..events
  <2>1. \A i \in DOMAIN calls : calls[i] \in CallEvent
    BY DEF CenterInv, CallTypes
  <2> QED
    BY <2>1 DEF CenterInv, CallTypes, CallEvent
<1>2. Len(calls) <= CallCap /\ callStatus \in CallTexts \cup {IdleText} /\ events \in Nat
  BY DEF CenterInv, CallTypes
<1> QED
  BY <1>1, <1>2 DEF CenterInv, CenterTypeOK, NoteTypes, PageTypes

\* A set of numbers that is not empty has a least one.
LEMMA LeastNumber ==
  ASSUME NEW T \in SUBSET Nat, T # {}
  PROVE  \E k \in T : \A j \in T : ~(j < k)
<1> DEFINE Below == OpToRel(<, Nat)
<1>1. \A j, k \in Nat : j < k => <<j, k>> \in Below
  BY DEF OpToRel
<1>2. \E k \in T : \A j \in T : ~(<<j, k>> \in Below)
  <2> HIDE DEF Below
  <2> QED
    BY NatLessThanWellFounded, WFMin DEF Below
<1> QED
  BY <1>1, <1>2

\* What is kept, each with a time of its own, is finite.
LEMMA KeptIsFinite ==
  ASSUME NEW f \in [Posts -> Post \cup {Nothing}], TimesDiffer(f)
  PROVE  IsFiniteSet(Kept(f)) /\ Kept(f) \subseteq Posts /\ \A i \in Kept(f) : f[i] \in Post
<1> DEFINE time == [i \in Kept(f) |-> f[i].at]
<1>1. Kept(f) \subseteq Posts /\ \A i \in Kept(f) : f[i] \in Post
  BY DEF Kept
<1>2. time \in Injection(Kept(f), Times)
  BY <1>1 DEF Injection, IsInjective, TimesDiffer, Post
<1>3. IsFiniteSet(Times)
  BY FS_Interval, CenterAssumption DEF Times
<1> HIDE DEF time
<1> QED
  BY <1>1, <1>2, <1>3, FS_Injection

\* Of what is kept, the newest HistoryCap remain.
LEMMA TrimKeepsCap ==
  ASSUME NEW f \in [Posts -> Post \cup {Nothing}], TimesDiffer(f)
  PROVE  /\ TrimHistory(f) \in [Posts -> Post \cup {Nothing}]
         /\ Kept(TrimHistory(f)) \subseteq Kept(f)
         /\ \A i \in Kept(TrimHistory(f)) : TrimHistory(f)[i] = f[i]
         /\ Cardinality(Kept(TrimHistory(f))) <= HistoryCap
<1> DEFINE g == TrimHistory(f)
           Newer(i) == {o \in Kept(f) : f[o].at > f[i].at}
<1>1. g \in [Posts -> Post \cup {Nothing}]
  BY DEF TrimHistory
<1>2. \A i \in Kept(g) : i \in Kept(f) /\ g[i] = f[i] /\ ~(Cardinality(Newer(i)) >= HistoryCap)
  BY DEF TrimHistory, Kept
<1>3. IsFiniteSet(Kept(f)) /\ \A i \in Kept(f) : f[i] \in Post
  BY KeptIsFinite
<1>4. Cardinality(Kept(g)) <= HistoryCap
  <2>1. CASE Kept(g) = {}
    BY <2>1, FS_EmptySet, CenterAssumption
  <2>2. CASE Kept(g) # {}
    <3> DEFINE T == {f[i].at : i \in Kept(g)}
    <3>1. \A i \in Kept(g) : f[i].at \in Nat
      <4>1. \A i \in Kept(g) : f[i].at \in Times
        BY <1>2, <1>3 DEF Post
      <4> QED
        BY <4>1 DEF Times
    <3>2. T \in SUBSET Nat /\ T # {}
      BY <2>2, <3>1
    <3>3. PICK k \in T : \A j \in T : ~(j < k)
      BY <3>2, LeastNumber
    <3>4. PICK m \in Kept(g) : k = f[m].at
      BY <3>3
    <3>5. Kept(g) \ {m} \subseteq Newer(m)
      <4> SUFFICES ASSUME NEW i \in Kept(g), i # m PROVE i \in Newer(m)
        OBVIOUS
      <4>1. ~(f[i].at < f[m].at)
        BY <3>3, <3>4
      <4>2. f[i].at # f[m].at /\ i \in Kept(f)
        BY <1>2 DEF TimesDiffer
      <4>3. f[i].at \in Nat /\ f[m].at \in Nat
        BY <3>1
      <4>4. f[i].at > f[m].at
        BY <4>1, <4>2, <4>3
      <4> QED
        BY <4>2, <4>4
    <3>6. IsFiniteSet(Newer(m)) /\ Cardinality(Newer(m)) \in Nat
      BY <1>3, FS_Subset, FS_CardinalityType
    <3>7. Cardinality(Newer(m)) < HistoryCap
      BY <1>2, <3>6, CenterAssumption
    <3>8. IsFiniteSet(Kept(g) \ {m}) /\ Cardinality(Kept(g) \ {m}) <= Cardinality(Newer(m))
      BY <3>5, <3>6, FS_Subset
    <3>9. IsFiniteSet(Kept(g)) /\ Cardinality(Kept(g)) \in Nat
      <4>1. Kept(g) \in SUBSET Kept(f)
        BY <1>2
      <4> QED
        BY <1>3, <4>1, FS_Subset, FS_CardinalityType
    <3>10. Cardinality(Kept(g) \ {m}) = Cardinality(Kept(g)) - 1
      BY <3>4, <3>9, FS_RemoveElement
    <3> QED
      BY <3>6, <3>7, <3>8, <3>9, <3>10, CenterAssumption
  <2> QED
    BY <2>1, <2>2
<1> QED
  BY <1>1, <1>2, <1>4

\* A call event that is added, or dropped, leaves the list within its bound.
LEMMA AppendCallTypes ==
  ASSUME CallTypes, NEW print \in CallPrint, AppendCall(print)
  PROVE  /\ calls' \in Seq(CallEvent) /\ Len(calls') <= CallCap /\ events' \in Nat
         /\ \A i \in DOMAIN calls' : calls'[i].event \in 1..events'
         /\ events <= events'
<1>1. CASE UNCHANGED <<calls, events>>
  BY <1>1 DEF CallTypes
<1>2. CASE ~UNCHANGED <<calls, events>>
  <2> DEFINE new == [print |-> print, event |-> events']
             all == <<new>> \o calls
             n == IF Len(all) < CallCap THEN Len(all) ELSE CallCap
  <2>1. events' = events + 1 /\ calls' = SubSeq(all, 1, n) /\ events \in Nat
    BY <1>2 DEF AppendCall, CallTypes
  <2>2. new \in CallEvent
    BY <2>1 DEF CallEvent
  <2>3. calls \in Seq(CallEvent) /\ \A i \in 1..Len(calls) : calls[i].event \in 1..events
    BY DEF CallTypes
  <2> HIDE DEF new
  <2>4. <<new>> \in Seq(CallEvent) /\ Len(<<new>>) = 1 /\ <<new>>[1] = new
    BY <2>2
  <2>5. /\ all \in Seq(CallEvent) /\ Len(all) = Len(calls) + 1
        /\ \A i \in 1..Len(all) : all[i] = IF i <= 1 THEN <<new>>[i] ELSE calls[i - 1]
    BY <2>3, <2>4, ConcatProperties
  <2>6. \A i \in 1..Len(all) : all[i].event \in 1..events'
    <3> SUFFICES ASSUME NEW i \in 1..Len(all) PROVE all[i].event \in 1..events'
      OBVIOUS
    <3>1. CASE i = 1
      BY <2>1, <2>4, <2>5, <3>1 DEF new
    <3>2. CASE i # 1
      <4>1. i - 1 \in 1..Len(calls) /\ all[i] = calls[i - 1]
        BY <2>3, <2>5, <3>2
      <4> QED
        BY <2>1, <2>3, <4>1
    <3> QED
      BY <3>1, <3>2
  <2>7. n \in 1..Len(all) /\ n <= CallCap
    BY <2>3, <2>5, CenterAssumption
  <2> HIDE DEF all, n
  <2>8. /\ calls' \in Seq(CallEvent) /\ Len(calls') = n
        /\ \A i \in 1..n : calls'[i] = all[i]
    <3>1. \A i \in 1..n : all[i] \in CallEvent
      BY <2>5, <2>7
    <3> QED
      BY <2>1, <2>5, <2>7
  <2>9. \A i \in DOMAIN calls' : calls'[i].event \in 1..events'
    BY <2>5, <2>6, <2>7, <2>8
  <2> QED
    BY <2>1, <2>7, <2>8, <2>9
<1> QED
  BY <1>1, <1>2

\* Nothing is recorded when the program begins.
LEMMA CenterInitEstablishesInv == CenterInit => CenterInv
<1> SUFFICES ASSUME CenterInit PROVE CenterInv
  OBVIOUS
<1> USE DEF CenterInit
<1>1. Kept(history) = {}
  BY DEF Kept
<1>2. NoteTypes /\ HistoryOrdered
  <2>1. Cardinality(Kept(history)) <= HistoryCap
    <3>1. Cardinality(Kept(history)) = 0
      BY <1>1, FS_EmptySet
    <3> QED
      BY <3>1, CenterAssumption
  <2> QED
    BY <1>1, <2>1 DEF NoteTypes, HistoryOrdered, TimesDiffer
<1>3. CallTypes
  BY CenterAssumption DEF CallTypes
<1>4. PageTypes
  BY DEF PageTypes
<1>5. ClosedPageIsEmpty /\ RowsFollowRecords
  BY DEF ClosedPageIsEmpty, RowsFollowRecords
<1> QED
  BY <1>2, <1>3, <1>4, <1>5 DEF CenterInv

\* A step of the session thread leaves the page alone; the numbers of call
\* events grow.
LEMMA RecordedKeepsPage ==
  ASSUME PageTypes, UNCHANGED <<pageDue, pageVars>>, announce' \in BOOLEAN,
         events \in Nat, events' \in Nat, events <= events'
  PROVE  PageTypes'
<1>1. 1..events \subseteq 1..events'
  OBVIOUS
<1> QED
  BY <1>1 DEF PageTypes, pageVars

\* _record_notification keeps the invariant,
LEMMA RecordPreservesInv ==
  ASSUME CenterInv, NEW id \in Posts, NEW post \in Post, RecordNotification(id, post)
  PROVE  CenterInv'
<1> USE DEF CenterInv
<1>1. /\ UNCHANGED <<callStatus, pageDue, pageVars>> /\ post.at \notin usedTimes
      /\ usedTimes' = usedTimes \cup {post.at} /\ post.at \in Times
  BY DEF RecordNotification, Post
<1>2. CASE UNCHANGED <<notes, history, prints, calls, events, announce>>
  BY <1>1, <1>2 DEF NoteTypes, CallTypes, PageTypes, HistoryOrdered, TimesDiffer, Kept, ClosedPageIsEmpty,
    RowsFollowRecords, Rows, CallRows, pageVars
<1>3. CASE /\ notes' = [notes EXCEPT ![id] = post]
           /\ history' = TrimHistory([history EXCEPT ![id] = post])
           /\ prints' = [prints EXCEPT ![id] = Fingerprint(post)]
           /\ IF post.call THEN AppendCall(<<post.says, "posted">>)
              ELSE UNCHANGED <<calls, events>>
           /\ announce' = TRUE
  <2> DEFINE f == [history EXCEPT ![id] = post]
  <2>1. f \in [Posts -> Post \cup {Nothing}] /\ Kept(f) \subseteq Kept(history) \cup {id}
        /\ f[id] = post /\ \A i \in Kept(f) \ {id} : f[i] = history[i]
    BY DEF NoteTypes, Kept
  <2> HIDE DEF f
  <2>2. TimesDiffer(f) /\ \A i \in Kept(f) : f[i].at \in usedTimes'
    BY <1>1, <2>1 DEF TimesDiffer, HistoryOrdered
  <2>3. history' = TrimHistory(f)
    BY <1>3 DEF f
  <2>4. /\ history' \in [Posts -> Post \cup {Nothing}] /\ Kept(history') \subseteq Kept(f)
        /\ \A i \in Kept(history') : history'[i] = f[i]
        /\ Cardinality(Kept(history')) <= HistoryCap
    BY <2>1, <2>2, <2>3, TrimKeepsCap
  <2>5. Fingerprint(post) \in [says : Contents, call : BOOLEAN]
    BY DEF Fingerprint, Post
  <2>6. NoteTypes'
    BY <1>1, <1>3, <2>4, <2>5 DEF NoteTypes
  <2>7. HistoryOrdered'
    BY <2>2, <2>4 DEF HistoryOrdered, TimesDiffer
  <2>8. <<post.says, "posted">> \in CallPrint
    BY DEF CallPrint, Post
  <2>9. CallTypes' /\ events' \in Nat /\ events <= events'
    BY <1>1, <1>3, <2>8, AppendCallTypes DEF CallTypes
  <2>10. PageTypes'
    BY <1>1, <1>3, <2>9, RecordedKeepsPage DEF CallTypes
  <2>11. ClosedPageIsEmpty' /\ RowsFollowRecords'
    BY <1>1, <1>3 DEF ClosedPageIsEmpty, RowsFollowRecords, pageVars
  <2> QED
    BY <2>6, <2>7, <2>9, <2>10, <2>11
<1> QED
  BY <1>2, <1>3 DEF RecordNotification

\* _remove_notification as well,
LEMMA RemovePreservesInv ==
  ASSUME CenterInv, NEW id \in Posts, RemovePosted(id)
  PROVE  CenterInv'
<1> USE DEF CenterInv
<1>1. UNCHANGED <<history, callStatus, usedTimes, pageDue, pageVars>>
  BY DEF RemovePosted
<1>2. CASE UNCHANGED <<notes, prints, calls, events, announce>>
  BY <1>1, <1>2 DEF NoteTypes, CallTypes, PageTypes, HistoryOrdered, TimesDiffer, Kept, ClosedPageIsEmpty,
    RowsFollowRecords, Rows, CallRows, pageVars
<1>3. CASE /\ notes' = [notes EXCEPT ![id] = Nothing]
           /\ prints' = [prints EXCEPT ![id] = Nothing]
           /\ AppendCall(<<notes[id].says, "ended">>)
           /\ announce' = TRUE
  <2>1. NoteTypes' /\ HistoryOrdered'
    BY <1>1, <1>3 DEF NoteTypes, HistoryOrdered, TimesDiffer, Kept
  <2>2. <<notes[id].says, "ended">> \in CallPrint
    BY DEF CallPrint, Post, RemovePosted, NoteTypes
  <2>3. CallTypes' /\ events' \in Nat /\ events <= events'
    BY <1>1, <1>3, <2>2, AppendCallTypes DEF CallTypes
  <2>4. PageTypes'
    BY <1>1, <1>3, <2>3, RecordedKeepsPage DEF CallTypes
  <2>5. ClosedPageIsEmpty' /\ RowsFollowRecords'
    BY <1>1, <1>3 DEF ClosedPageIsEmpty, RowsFollowRecords, pageVars
  <2> QED
    BY <2>1, <2>3, <2>4, <2>5
<1> QED
  BY <1>2, <1>3 DEF RemovePosted

\* and so does a call that the phone reports.
LEMMA StatusPreservesInv ==
  ASSUME CenterInv, NEW call \in CallTexts \cup {IdleText}, SetCallStatus(call)
  PROVE  CenterInv'
<1> USE DEF CenterInv, SetCallStatus, CallStatusIs
<1>1. NoteTypes' /\ HistoryOrdered'
  BY DEF NoteTypes, HistoryOrdered, TimesDiffer, Kept
<1>2. CallTypes' /\ events' \in Nat /\ events <= events'
  <2>1. call # IdleText => <<call, "status">> \in CallPrint
    BY DEF CallPrint
  <2> QED
    BY <2>1, AppendCallTypes DEF CallTypes
<1>3. PageTypes'
  BY <1>2, RecordedKeepsPage DEF CallTypes
<1>4. ClosedPageIsEmpty' /\ RowsFollowRecords'
  BY DEF ClosedPageIsEmpty, RowsFollowRecords, Rows, CallRows, Kept, pageVars
<1> QED
  BY <1>1, <1>2, <1>3, <1>4

\* Rows made anew are those of the records.
LEMMA ShowFollowsRecords ==
  ASSUME CenterInv, UNCHANGED <<recordVars, announce>>, pageDue' \in BOOLEAN,
         page' \in {"device", "center"},
         NEW gone \in [ids : SUBSET Posts, events : SUBSET (1..events)], Show(page', gone)
  PROVE  CenterInv'
<1> USE DEF CenterInv, recordVars
<1>1. NoteTypes' /\ HistoryOrdered' /\ CallTypes'
  BY DEF NoteTypes, HistoryOrdered, TimesDiffer, Kept, CallTypes
<1>2. rows' \subseteq Posts \X Post /\ callRows' \subseteq 1..events
  BY DEF Show, Rows, CallRows, Kept, NoteTypes, CallTypes
<1>3. PageTypes'
  BY <1>2 DEF Show, PageTypes
<1>4. ClosedPageIsEmpty' /\ RowsFollowRecords'
  BY DEF Show, ClosedPageIsEmpty, RowsFollowRecords, Rows, CallRows, Kept
<1> QED
  BY <1>1, <1>3, <1>4

\* The user opens, clears, answers and closes; the announcement comes.
LEMMA PagePreservesInv ==
  ASSUME CenterInv,
         \/ Announce \/ RefreshPage \/ ClosePage \/ ClearAll \/ EndReply
         \/ \E p \in {"device", "center"} : OpenPage(p)
         \/ \E id \in Posts : HideRow(id)
         \/ \E e \in callRows : HideCall(e)
         \/ \E r \in rows : StartReply(r)
  PROVE  CenterInv'
<1> USE DEF CenterInv
<1>1. CASE Announce
  BY <1>1 DEF Announce, recordVars, pageVars, NoteTypes, HistoryOrdered, TimesDiffer, Kept, CallTypes,
    PageTypes, ClosedPageIsEmpty, RowsFollowRecords
<1>2. CASE RefreshPage
  <2>1. CASE page = "none"
    BY <1>2, <2>1 DEF RefreshPage, recordVars, pageVars, NoteTypes, HistoryOrdered, TimesDiffer, Kept,
      CallTypes, PageTypes, ClosedPageIsEmpty, RowsFollowRecords
  <2>2. CASE page # "none"
    BY <1>2, <2>2, ShowFollowsRecords DEF RefreshPage, PageTypes
  <2> QED
    BY <2>1, <2>2
<1>3. CASE ClosePage
  BY <1>3 DEF ClosePage, recordVars, NoteTypes, HistoryOrdered, TimesDiffer, Kept, CallTypes,
    PageTypes, ClosedPageIsEmpty, RowsFollowRecords
<1>4. CASE ClearAll
  <2> DEFINE gone == [ids |-> hidden.ids \cup Kept(IF page = "device" THEN notes ELSE history),
                      events |-> hidden.events \cup
                        (IF page = "device" THEN {} ELSE {calls[i].event : i \in DOMAIN calls})]
  <2>1. gone \in [ids : SUBSET Posts, events : SUBSET (1..events)]
    BY DEF PageTypes, CallTypes, Kept
  <2> HIDE DEF gone
  <2> QED
    BY <1>4, <2>1, ShowFollowsRecords DEF ClearAll, PageTypes, gone
<1>5. CASE \E p \in {"device", "center"} : OpenPage(p)
  <2> DEFINE gone == [ids |-> {}, events |-> {}]
  <2>1. gone \in [ids : SUBSET Posts, events : SUBSET (1..events)]
    OBVIOUS
  <2> HIDE DEF gone
  <2> QED
    BY <1>5, <2>1, ShowFollowsRecords DEF OpenPage, PageTypes, gone
<1>6. CASE \E id \in Posts : HideRow(id)
  <2> PICK id \in Posts : HideRow(id)
    BY <1>6
  <2> DEFINE gone == [hidden EXCEPT !.ids = @ \cup {id}]
  <2>1. gone \in [ids : SUBSET Posts, events : SUBSET (1..events)] /\ page # "none"
    BY DEF PageTypes, HideRow, ClosedPageIsEmpty
  <2> HIDE DEF gone
  <2> QED
    BY <2>1, ShowFollowsRecords DEF HideRow, PageTypes, gone
<1>7. CASE \E e \in callRows : HideCall(e)
  <2> PICK e \in callRows : HideCall(e)
    BY <1>7
  <2> DEFINE gone == [hidden EXCEPT !.events = @ \cup {e}]
  <2>1. gone \in [ids : SUBSET Posts, events : SUBSET (1..events)] /\ page # "none"
    BY DEF PageTypes, ClosedPageIsEmpty
  <2> HIDE DEF gone
  <2> QED
    BY <2>1, ShowFollowsRecords DEF HideCall, PageTypes, gone
<1>8. CASE \E r \in rows : StartReply(r)
  <2> PICK r \in rows : StartReply(r)
    BY <1>8
  <2>1. r[1] \in Posts /\ r[2] \in Post /\ r = <<r[1], r[2]>>
    BY DEF PageTypes
  <2> QED
    BY <2>1 DEF StartReply, recordVars, NoteTypes, HistoryOrdered, TimesDiffer, Kept, CallTypes,
      PageTypes, ClosedPageIsEmpty, RowsFollowRecords, Rows, CallRows
<1>9. CASE EndReply
  BY <1>9 DEF EndReply, recordVars, NoteTypes, HistoryOrdered, TimesDiffer, Kept, CallTypes,
    PageTypes, ClosedPageIsEmpty, RowsFollowRecords, Rows, CallRows
<1> QED
  BY <1>1, <1>2, <1>3, <1>4, <1>5, <1>6, <1>7, <1>8, <1>9

\* The invariant is inductive.
LEMMA CenterNextPreservesInv == CenterInv /\ [CenterNext]_centerVars => CenterInv'
<1> SUFFICES ASSUME CenterInv, [CenterNext]_centerVars PROVE CenterInv'
  OBVIOUS
<1>1. CASE \E id \in Posts, post \in Post : RecordNotification(id, post)
  BY <1>1, RecordPreservesInv
<1>2. CASE \E id \in Posts : RemovePosted(id)
  BY <1>2, RemovePreservesInv
<1>3. CASE \E call \in CallTexts \cup {IdleText} : SetCallStatus(call)
  BY <1>3, StatusPreservesInv
<1>4. CASE \/ Announce \/ RefreshPage \/ ClosePage \/ ClearAll \/ EndReply
           \/ \E p \in {"device", "center"} : OpenPage(p)
           \/ \E id \in Posts : HideRow(id)
           \/ \E e \in callRows : HideCall(e)
           \/ \E r \in rows : StartReply(r)
  BY <1>4, PagePreservesInv
<1>5. CASE UNCHANGED centerVars
  BY <1>5 DEF CenterInv, centerVars, recordVars, pageVars, NoteTypes, HistoryOrdered, TimesDiffer,
    Kept, CallTypes, PageTypes, ClosedPageIsEmpty, RowsFollowRecords, Rows, CallRows
<1> QED
  BY <1>1, <1>2, <1>3, <1>4, <1>5 DEF CenterNext

\* The types and bounds of the histories, and the rows of the pages that follow
\* them, hold always (DesktopRuntime, the notification pages of DevicesPanel).
THEOREM CenterInvHolds == CenterSpec => []CenterInv
  BY CenterInitEstablishesInv, CenterNextPreservesInv, PTL DEF CenterSpec

-----------------------------------------------------------------------------
(* VirtualCamera.                                                          *)

\* How a sink is before it is made.
FreshFeed == [proc |-> "none", known |-> FALSE, stopped |-> FALSE,
              queue |-> <<>>, writer |-> "none", hold |-> 0, last |-> 0]

\* CameraTypeOK in the parts that steps disturb together.
PopupTypes ==
  /\ popup \in {"new", "open", "closed", "left"} /\ testMode \in BOOLEAN
  /\ gui \in {"ready", "asking", "ending"}
  /\ sink \in Sinks \cup {NoSink} /\ made \in 0..MaxSinks
  /\ streaming \in BOOLEAN /\ startDue \in BOOLEAN /\ ghost \in BOOLEAN
PreviewTypes ==
  /\ previewDue \in Nat /\ retryDue \in Nat
  /\ reader \in BOOLEAN /\ reading \in BOOLEAN
  /\ shots \in 0..MaxShots /\ seen \in BOOLEAN /\ retries \in 0..MaxRetries
FeedTypes ==
  feed \in [Sinks -> Feed] /\ \A s \in Sinks : Len(feed[s].queue) <= QueueSize
PushTypes ==
  /\ arrived \in Frames
  /\ push \in [at : {"idle", "taken", "passed"},
              to : Sinks \cup {NoSink}, frame : Frames]

\* Only the sink that the popup refers to runs, and one still to be made is as
\* it was at first.
OnlySinkRuns ==
  /\ \A s \in Sinks : feed[s].proc = "up" => s = sink
  /\ \A s \in Sinks : s > made => feed[s] = FreshFeed
  /\ sink <= made

\* What the user interface is at says whether the popup has a sink: a start
\* that is due waits for the end of the old one, and streams have one.
SinkFollowsGui ==
  /\ gui \in {"asking", "ending"} => sink # NoSink
  /\ gui = "asking" => ~startDue
  /\ startDue /\ gui = "ready" => sink = NoSink
  /\ streaming => sink # NoSink /\ gui = "ready"
  /\ popup = "new" => sink = NoSink /\ gui = "ready" /\ ~startDue
  /\ popup = "closed" /\ ~ghost => gui # "asking" /\ (gui = "ready" => sink = NoSink)

\* There is one reader of the device at most, and only while a sink runs; each
\* single shot for it goes back to the start of a sink.
ReaderFollowsSink ==
  /\ captures = IF reading THEN 1 ELSE 0
  /\ reading => reader
  /\ reader => sink # NoSink /\ gui # "ending"
  /\ previewDue + retryDue <= made

\* A frame that has found its sink is handed to one that was made.
PushGoesToSink ==
  push.at = "passed" => push.to # NoSink /\ push.to <= made

CameraInv ==
  /\ PopupTypes /\ PreviewTypes /\ FeedTypes /\ PushTypes /\ faults \in 0..MaxFaults
  /\ OnlySinkRuns
  /\ SinkFollowsGui
  /\ ReaderFollowsSink
  /\ PushGoesToSink
  /\ NewestFrameKept

-----------------------------------------------------------------------------

\* The bound of the single shots follows from that of the sinks.
LEMMA CameraInvTypes == CameraInv => CameraTypeOK
<1> SUFFICES ASSUME CameraInv PROVE CameraTypeOK
  OBVIOUS
<1>1. captures \in Nat
  BY DEF CameraInv, ReaderFollowsSink
<1>2. previewDue \in 0..MaxSinks /\ retryDue \in 0..MaxSinks
  BY CameraAssumption DEF CameraInv, ReaderFollowsSink, PreviewTypes, PopupTypes
<1> QED
  BY <1>1, <1>2 DEF CameraInv, CameraTypeOK, PopupTypes, PreviewTypes, FeedTypes, PushTypes

\* Sinks are numbers, and NoSink is none of them.
LEMMA CameraNumbers == NoSink \notin Sinks /\ NoSink = 0 /\ Sinks \subseteq Nat
  BY CameraAssumption DEF Sinks, NoSink

\* A queue may be empty.
LEMMA EmptyQueue ==
  /\ <<>> \in Seq(Frames) /\ Len(<<>>) <= QueueSize
  /\ 0 \in Frames /\ FreshFeed \in Feed /\ FreshFeed.queue = <<>>
<1>1. <<>> \in Seq(Frames) /\ Len(<<>>) = 0 /\ 0 \in Frames
  BY CameraAssumption DEF Frames
<1> QED
  BY <1>1, CameraAssumption DEF FreshFeed, Feed

\* The popup opens with no sink.
LEMMA CameraInitEstablishesInv == CameraInit => CameraInv
<1> SUFFICES ASSUME CameraInit PROVE CameraInv
  OBVIOUS
<1> USE DEF CameraInit
<1>1. PopupTypes
  <2>1. made \in 0..MaxSinks
    BY CameraAssumption
  <2> QED
    BY <2>1 DEF PopupTypes
<1>2. PreviewTypes /\ faults \in 0..MaxFaults
  <2>1. shots \in 0..MaxShots /\ retries \in 0..MaxRetries /\ faults \in 0..MaxFaults
    BY CameraAssumption
  <2> QED
    BY <2>1 DEF PreviewTypes
<1>3. feed = [s \in Sinks |-> FreshFeed]
  BY DEF FreshFeed
<1>4. FeedTypes
  BY <1>3, EmptyQueue DEF FeedTypes
<1>5. PushTypes
  BY EmptyQueue DEF PushTypes, NoPush
<1>6. OnlySinkRuns
  BY <1>3, CameraNumbers DEF OnlySinkRuns, FreshFeed
<1>7. SinkFollowsGui /\ ReaderFollowsSink /\ PushGoesToSink
  BY DEF SinkFollowsGui, ReaderFollowsSink, PushGoesToSink, NoPush
<1>8. NewestFrameKept
  BY DEF NewestFrameKept
<1> QED
  BY <1>1, <1>2, <1>4, <1>5, <1>6, <1>7, <1>8 DEF CameraInv

\* A full queue gives up its oldest frame: it stays in its bound, and the
\* frame that comes is its last.
LEMMA QueueTakesNewest ==
  ASSUME NEW q \in Seq(Frames), Len(q) <= QueueSize, NEW frame \in Frames,
         NEW room, room = Append(IF Len(q) = QueueSize THEN Tail(q) ELSE q, frame)
  PROVE  /\ room \in Seq(Frames) /\ Len(room) <= QueueSize
         /\ room # <<>> /\ room[Len(room)] = frame
<1>1. CASE Len(q) = QueueSize
  <2>1. q # <<>> /\ Tail(q) \in Seq(Frames) /\ Len(Tail(q)) = Len(q) - 1
    BY <1>1, CameraAssumption
  <2> QED
    BY <1>1, <2>1, CameraAssumption
<1>2. CASE Len(q) # QueueSize
  BY <1>2, CameraAssumption
<1> QED
  BY <1>1, <1>2

\* One feed changes, and its queue keeps its bound.
LEMMA OneFeedChanges ==
  ASSUME FeedTypes, NEW s \in Sinks, NEW f \in Feed, Len(f.queue) <= QueueSize,
         feed' = [feed EXCEPT ![s] = f]
  PROVE  FeedTypes' /\ feed'[s] = f /\ \A o \in Sinks \ {s} : feed'[o] = feed[o]
  BY DEF FeedTypes

\* Steps of the popup, of the user and of its timer, that leave the feeds as
\* they are.
LEMMA PopupPreservesInv ==
  ASSUME CameraInv,
         \/ \E test \in BOOLEAN : OpenCamera(test)
         \/ NoCamera \/ StreamGranted \/ EscapeCamera
  PROVE  CameraInv'
<1> USE CameraNumbers DEF CameraInv, Ready, StartDue, previewVars, pushVars
<1>1. CASE \E test \in BOOLEAN : OpenCamera(test)
  BY <1>1 DEF OpenCamera, PopupTypes, PreviewTypes, FeedTypes, PushTypes, OnlySinkRuns,
    SinkFollowsGui, ReaderFollowsSink, PushGoesToSink, NewestFrameKept
<1>2. CASE NoCamera
  BY <1>2 DEF NoCamera, PopupTypes, PreviewTypes, FeedTypes, PushTypes, OnlySinkRuns,
    SinkFollowsGui, ReaderFollowsSink, PushGoesToSink, NewestFrameKept
<1>3. CASE StreamGranted
  BY <1>3 DEF StreamGranted, PopupTypes, PreviewTypes, FeedTypes, PushTypes, OnlySinkRuns,
    SinkFollowsGui, ReaderFollowsSink, PushGoesToSink, NewestFrameKept
<1>4. CASE EscapeCamera
  BY <1>4 DEF EscapeCamera, PopupTypes, PreviewTypes, FeedTypes, PushTypes, OnlySinkRuns,
    SinkFollowsGui, ReaderFollowsSink, PushGoesToSink, NewestFrameKept
<1> QED
  BY <1>1, <1>2, <1>3, <1>4

\* A sink starts: the one before it has ended.
LEMMA FeedStartsPreservesInv == CameraInv /\ FeedStarts => CameraInv'
<1> SUFFICES ASSUME CameraInv, FeedStarts PROVE CameraInv'
  OBVIOUS
<1> USE CameraNumbers DEF CameraInv, Ready, StartDue, FeedStarts, pushVars
<1> DEFINE new == [FreshFeed EXCEPT !.proc = "up", !.known = TRUE, !.writer = "idle"]
<1>1. sink = NoSink /\ ~reader /\ ~streaming /\ popup # "new" /\ made' = made + 1
  BY DEF SinkFollowsGui, ReaderFollowsSink
<1>2. made' \in Sinks /\ made' > made
  BY <1>1, CameraAssumption DEF PopupTypes, Sinks
<1>3. feed[made'] = FreshFeed
  BY <1>2 DEF OnlySinkRuns
<1>4. /\ new \in Feed /\ new.queue = <<>> /\ new.last = 0 /\ new.hold = 0
      /\ Len(new.queue) <= QueueSize
  BY EmptyQueue DEF FreshFeed, Feed
<1>5. feed' = [feed EXCEPT ![made'] = new]
  BY <1>3
<1> HIDE DEF new
<1>6. FeedTypes' /\ feed'[made'] = new /\ \A s \in Sinks \ {made'} : feed'[s] = feed[s]
  BY <1>2, <1>4, <1>5, OneFeedChanges
<1>7. PopupTypes'
  <2>1. made' \in 0..MaxSinks
    BY <1>1, CameraAssumption DEF PopupTypes
  <2> QED
    BY <1>1, <1>2, <2>1 DEF PopupTypes
<1>8. PreviewTypes' /\ PushTypes' /\ faults' \in 0..MaxFaults
  <2>1. previewDue' \in Nat
    BY DEF PreviewTypes
  <2> QED
    BY <2>1 DEF PreviewTypes, PushTypes
<1>9. OnlySinkRuns'
  <2>1. \A s \in Sinks : feed'[s].proc = "up" => s = sink'
    BY <1>1, <1>2, <1>6 DEF OnlySinkRuns
  <2>2. \A s \in Sinks : s > made' => feed'[s] = FreshFeed
    <3> SUFFICES ASSUME NEW s \in Sinks, s > made' PROVE feed'[s] = FreshFeed
      OBVIOUS
    <3>1. s # made' /\ s > made
      BY <1>1 DEF PopupTypes
    <3> QED
      BY <1>6, <3>1 DEF OnlySinkRuns
  <2>3. sink' <= made'
    BY <1>2
  <2> QED
    BY <2>1, <2>2, <2>3 DEF OnlySinkRuns
<1>10. SinkFollowsGui' /\ PushGoesToSink'
  <2>1. SinkFollowsGui'
    BY <1>1, <1>2 DEF SinkFollowsGui, PopupTypes
  <2>2. made \in Nat /\ push.to \in Nat
    BY DEF PopupTypes, PushTypes
  <2>3. PushGoesToSink'
    BY <1>1, <2>2 DEF PushGoesToSink
  <2> QED
    BY <2>1, <2>3
<1>11. ReaderFollowsSink'
  BY <1>1, <1>2 DEF ReaderFollowsSink, PreviewTypes, PopupTypes
<1>12. NewestFrameKept'
  <2> SUFFICES ASSUME NEW s \in Sinks
               PROVE  LET f == feed'[s] IN
                        f.known /\ f.proc = "up" /\ f.writer # "gone" =>
                          f.last = IF f.queue = <<>> THEN f.hold ELSE f.queue[Len(f.queue)]
    BY DEF NewestFrameKept
  <2>1. CASE s = made'
    BY <1>4, <1>6, <2>1
  <2>2. CASE s # made'
    BY <1>6, <2>2 DEF NewestFrameKept
  <2> QED
    BY <2>1, <2>2
<1> QED
  BY <1>6, <1>7, <1>8, <1>9, <1>10, <1>11, <1>12

\* The first half of the stop of a sink leaves its flags and an empty queue.
LEMMA TakeFeedIsSafe ==
  ASSUME CameraInv, sink # NoSink, feed' = TakeFeed, sink' = sink, made' = made
  PROVE  FeedTypes' /\ OnlySinkRuns' /\ NewestFrameKept'
<1> USE CameraNumbers DEF CameraInv
<1> DEFINE f == [feed[sink] EXCEPT !.stopped = TRUE, !.known = FALSE, !.queue = <<>>]
<1>1. sink \in Sinks /\ sink <= made /\ feed[sink] \in Feed
  BY DEF PopupTypes, FeedTypes, OnlySinkRuns
<1>2. f \in Feed /\ Len(f.queue) <= QueueSize /\ f.proc = feed[sink].proc /\ ~f.known
  BY <1>1, EmptyQueue DEF Feed
<1>3. feed' = [feed EXCEPT ![sink] = f]
  BY <1>1 DEF TakeFeed, FeedTypes
<1> HIDE DEF f
<1>4. FeedTypes' /\ feed'[sink] = f /\ \A s \in Sinks \ {sink} : feed'[s] = feed[s]
  BY <1>1, <1>2, <1>3, OneFeedChanges
<1>5. OnlySinkRuns'
  BY <1>1, <1>2, <1>4 DEF OnlySinkRuns, PopupTypes
<1>6. NewestFrameKept'
  BY <1>2, <1>4 DEF NewestFrameKept
<1> QED
  BY <1>4, <1>5, <1>6

\* The stream ends: refused, switched to the other side, or closed.
LEMMA StopPreservesInv ==
  ASSUME CameraInv, StreamRefused \/ SwitchFacing \/ CloseCamera
  PROVE  CameraInv'
<1> USE CameraNumbers DEF CameraInv, Ready, StopPreview, pushVars
<1>1. CASE StreamRefused
  <2>1. sink # NoSink /\ FeedTypes' /\ OnlySinkRuns' /\ NewestFrameKept'
    BY <1>1, TakeFeedIsSafe DEF StreamRefused, SinkFollowsGui
  <2>2. PopupTypes' /\ PreviewTypes' /\ PushTypes' /\ faults' \in 0..MaxFaults
    BY <1>1 DEF StreamRefused, PopupTypes, PreviewTypes, PushTypes
  <2>3. SinkFollowsGui' /\ ReaderFollowsSink' /\ PushGoesToSink'
    BY <1>1, <2>1 DEF StreamRefused, SinkFollowsGui, ReaderFollowsSink, PushGoesToSink
  <2> QED
    BY <2>1, <2>2, <2>3
<1>2. CASE SwitchFacing \/ CloseCamera
  <2>1. /\ Ready /\ StopLocalStream /\ popup = "open" /\ startDue' \in BOOLEAN
        /\ startDue' => startDue \/ streaming
        /\ popup' \in {"open", "closed"}
    <3>1. CASE SwitchFacing
      BY <3>1 DEF SwitchFacing
    <3>2. CASE CloseCamera
      BY <3>2 DEF CloseCamera, PopupTypes
    <3> QED
      BY <1>2, <3>1, <3>2
  <2> USE DEF StopLocalStream
  <2>2. FeedTypes' /\ OnlySinkRuns' /\ NewestFrameKept'
    <3>1. CASE sink = NoSink
      BY <2>1, <3>1 DEF FeedTypes, OnlySinkRuns, NewestFrameKept
    <3>2. CASE sink # NoSink
      BY <2>1, <3>2, TakeFeedIsSafe
    <3> QED
      BY <3>1, <3>2
  <2>3. PopupTypes' /\ PreviewTypes' /\ PushTypes' /\ faults' \in 0..MaxFaults
    BY <2>1 DEF PopupTypes, PreviewTypes, PushTypes
  <2>4. SinkFollowsGui'
    BY <2>1 DEF SinkFollowsGui
  <2>5. ReaderFollowsSink' /\ PushGoesToSink'
    BY <2>1 DEF ReaderFollowsSink, PushGoesToSink
  <2> QED
    BY <2>2, <2>3, <2>4, <2>5
<1> QED
  BY <1>1, <1>2

\* The second half: the process ends, and the popup has no sink.
LEMMA EndFeedPreservesInv == CameraInv /\ EndFeed => CameraInv'
<1> SUFFICES ASSUME CameraInv, EndFeed PROVE CameraInv'
  OBVIOUS
<1> USE CameraNumbers DEF CameraInv, EndFeed, previewVars, pushVars
<1> DEFINE f == [feed[sink] EXCEPT !.proc = "dead"]
<1>1. sink \in Sinks /\ sink <= made /\ feed[sink] \in Feed
  BY DEF PopupTypes, SinkFollowsGui, OnlySinkRuns, FeedTypes
<1>2. f \in Feed /\ Len(f.queue) <= QueueSize /\ f.proc = "dead"
  BY <1>1 DEF Feed, FeedTypes
<1>3. feed' = [feed EXCEPT ![sink] = f]
  BY <1>1 DEF FeedTypes
<1> HIDE DEF f
<1>4. FeedTypes' /\ feed'[sink] = f /\ \A s \in Sinks \ {sink} : feed'[s] = feed[s]
  BY <1>1, <1>2, <1>3, OneFeedChanges
<1>5. PopupTypes' /\ PreviewTypes' /\ PushTypes' /\ faults' \in 0..MaxFaults
  BY DEF PopupTypes, PreviewTypes, PushTypes
<1>6. OnlySinkRuns'
  BY <1>1, <1>2, <1>4 DEF OnlySinkRuns, PopupTypes
<1>7. SinkFollowsGui' /\ ReaderFollowsSink' /\ PushGoesToSink'
  BY DEF SinkFollowsGui, ReaderFollowsSink, PushGoesToSink
<1>8. NewestFrameKept'
  BY <1>2, <1>4 DEF NewestFrameKept
<1> QED
  BY <1>4, <1>5, <1>6, <1>7, <1>8

\* The preview starts, is tried again, reads and breaks; no feed changes.
LEMMA PreviewPreservesInv ==
  ASSUME CameraInv,
         PreviewDue \/ RetryDue \/ ReadBack \/ SetPreviewFrame \/ CaptureEnds
  PROVE  CameraInv'
<1> USE CameraNumbers, CameraAssumption DEF CameraInv, Ready, popupVars, pushVars
<1>1. UNCHANGED <<popupVars, feed, pushVars>> /\ faults' \in 0..MaxFaults
  BY DEF PreviewDue, RetryDue, ReadBack, SetPreviewFrame, CaptureEnds
<1>2. /\ PopupTypes' /\ FeedTypes' /\ PushTypes' /\ faults' \in 0..MaxFaults
      /\ OnlySinkRuns' /\ SinkFollowsGui' /\ PushGoesToSink' /\ NewestFrameKept'
  BY <1>1 DEF PopupTypes, FeedTypes, PushTypes, OnlySinkRuns, SinkFollowsGui,
    PushGoesToSink, NewestFrameKept
<1>3. CASE PreviewDue
  BY <1>2, <1>3 DEF PreviewDue, StartPreview, ReaderFollowsSink, PreviewTypes, PopupTypes
<1>4. CASE RetryDue
  <2>1. ReaderFollowsSink'
    BY <1>4 DEF RetryDue, StopPreview, ReaderFollowsSink, PreviewTypes, PopupTypes
  <2>2. PreviewTypes'
    <3>1. retries' \in 0..MaxRetries
      BY <1>4 DEF RetryDue, PreviewTypes
    <3>2. previewDue' \in Nat /\ retryDue' \in Nat
      BY <1>4 DEF RetryDue, PreviewTypes
    <3> QED
      BY <1>4, <3>1, <3>2 DEF RetryDue, StopPreview, PreviewTypes
  <2> QED
    BY <1>2, <2>1, <2>2
<1>5. CASE ReadBack \/ SetPreviewFrame \/ CaptureEnds
  <2>1. ReaderFollowsSink'
    BY <1>5 DEF ReadBack, SetPreviewFrame, CaptureEnds, ReaderFollowsSink
  <2>2. shots' \in 0..MaxShots
    BY <1>5 DEF ReadBack, SetPreviewFrame, CaptureEnds, PreviewTypes
  <2>3. PreviewTypes'
    BY <1>5, <2>2 DEF ReadBack, SetPreviewFrame, CaptureEnds, PreviewTypes
  <2> QED
    BY <1>2, <2>1, <2>3
<1> QED
  BY <1>3, <1>4, <1>5

\* The session thread hands a frame over; only PushFrame changes a feed.
LEMMA FramePreservesInv ==
  ASSUME CameraInv, FrameArrives \/ HandleFrame \/ PushFrame
  PROVE  CameraInv'
<1> USE CameraNumbers DEF CameraInv, popupVars, previewVars
<1>1. UNCHANGED <<popupVars, previewVars, faults>>
  BY DEF FrameArrives, HandleFrame, PushFrame, PushTo
<1>2. PopupTypes' /\ PreviewTypes' /\ SinkFollowsGui' /\ ReaderFollowsSink'
  BY <1>1 DEF PopupTypes, PreviewTypes, SinkFollowsGui, ReaderFollowsSink
<1>3. CASE FrameArrives \/ HandleFrame
  <2>1. FeedTypes' /\ OnlySinkRuns' /\ NewestFrameKept'
    BY <1>1, <1>3 DEF FrameArrives, HandleFrame, FeedTypes, OnlySinkRuns, NewestFrameKept
  <2>2. PushTypes' /\ PushGoesToSink'
    <3>1. CASE FrameArrives
      BY <3>1, CameraAssumption DEF FrameArrives, PushTypes, PushGoesToSink, Frames
    <3>2. CASE HandleFrame
      <4>1. CASE push' = NoPush
        <5>1. arrived' = arrived
          BY <3>2 DEF HandleFrame
        <5>2. PushTypes'
          BY <4>1, <5>1, EmptyQueue DEF PushTypes, NoPush
        <5>3. PushGoesToSink'
          BY <4>1 DEF PushGoesToSink, NoPush
        <5> QED
          BY <5>2, <5>3
      <4>2. CASE sink # NoSink /\ push' = [push EXCEPT !.at = "passed", !.to = sink]
        BY <1>1, <3>2, <4>2 DEF HandleFrame, PushTypes, PushGoesToSink, PopupTypes, OnlySinkRuns
      <4> QED
        BY <3>2, <4>1, <4>2 DEF HandleFrame
    <3> QED
      BY <1>3, <3>1, <3>2
  <2> QED
    BY <1>1, <1>2, <2>1, <2>2
<1>4. CASE PushFrame
  <2> DEFINE t == push.to
             q == feed[t].queue
             room == Append(IF Len(q) = QueueSize THEN Tail(q) ELSE q, push.frame)
             f == [feed[t] EXCEPT !.queue = room, !.last = push.frame]
  <2>1. /\ t \in Sinks /\ t <= made /\ push.frame \in Frames /\ feed[t] \in Feed
    BY <1>4 DEF PushFrame, PushTo, PushGoesToSink, PushTypes, FeedTypes
  <2>2. q \in Seq(Frames) /\ Len(q) <= QueueSize
    BY <2>1 DEF FeedTypes, Feed
  <2>3. /\ room \in Seq(Frames) /\ Len(room) <= QueueSize
        /\ room # <<>> /\ room[Len(room)] = push.frame
    <3> HIDE DEF q, room
    <3>1. room = Append(IF Len(q) = QueueSize THEN Tail(q) ELSE q, push.frame)
      BY DEF room
    <3> QED
      BY <2>1, <2>2, <3>1, QueueTakesNewest
  <2> HIDE DEF room
  <2>4. /\ feed' = [feed EXCEPT ![t].queue = room, ![t].last = push.frame]
        /\ push' = NoPush /\ arrived' = arrived
    BY <1>4 DEF PushFrame, PushTo, room
  <2>5. f \in Feed /\ f.queue = room /\ f.last = push.frame /\ f.proc = feed[t].proc
    BY <2>1, <2>3 DEF Feed
  <2>6. PushTypes' /\ PushGoesToSink'
    BY <2>4, EmptyQueue DEF PushTypes, PushGoesToSink, NoPush
  <2>7. feed' = [feed EXCEPT ![t] = f]
    BY <2>1, <2>4 DEF FeedTypes
  <2>8. FeedTypes' /\ feed'[t] = f /\ \A s \in Sinks \ {t} : feed'[s] = feed[s]
    BY <2>1, <2>3, <2>5, <2>7, OneFeedChanges
  <2> HIDE DEF f
  <2>9. OnlySinkRuns'
    <3>1. \A s \in Sinks : feed'[s].proc = feed[s].proc
      BY <2>5, <2>8
    <3>2. \A s \in Sinks : s > made => s # t
      BY <2>1, CameraAssumption DEF PopupTypes, Sinks
    <3> QED
      BY <1>1, <2>8, <3>1, <3>2 DEF OnlySinkRuns
  <2>10. NewestFrameKept'
    <3> SUFFICES ASSUME NEW s \in Sinks
                 PROVE  LET g == feed'[s] IN
                          g.known /\ g.proc = "up" /\ g.writer # "gone" =>
                            g.last = IF g.queue = <<>> THEN g.hold ELSE g.queue[Len(g.queue)]
      BY DEF NewestFrameKept
    <3>1. CASE s = t
      BY <2>3, <2>5, <2>8, <3>1
    <3>2. CASE s # t
      BY <2>8, <3>2 DEF NewestFrameKept
    <3> QED
      BY <3>1, <3>2
  <2> QED
    BY <1>1, <1>2, <2>6, <2>8, <2>9, <2>10
<1> QED
  BY <1>3, <1>4

\* The writer of a sink, and an ffmpeg that breaks.
LEMMA WriterPreservesInv ==
  ASSUME CameraInv, NEW s \in Sinks, StartWrite(s) \/ EndWrite(s) \/ FeedBreaks(s)
  PROVE  CameraInv'
<1> USE CameraNumbers DEF CameraInv, popupVars, previewVars, pushVars
<1>1. UNCHANGED <<popupVars, previewVars, pushVars>> /\ faults' \in 0..MaxFaults
  BY CameraAssumption DEF StartWrite, WriteOf, EndWrite, FeedBreaks, RestOfWriter
<1>2. /\ PopupTypes' /\ PreviewTypes' /\ PushTypes'
      /\ SinkFollowsGui' /\ ReaderFollowsSink' /\ PushGoesToSink'
  BY <1>1 DEF PopupTypes, PreviewTypes, PushTypes, SinkFollowsGui, ReaderFollowsSink,
    PushGoesToSink
<1>3. feed[s] \in Feed /\ feed[s].queue \in Seq(Frames) /\ Len(feed[s].queue) <= QueueSize
  BY DEF FeedTypes, Feed
<1>4. ASSUME NEW f \in Feed, feed' = [feed EXCEPT ![s] = f],
             feed[s] # FreshFeed, f.proc \in {feed[s].proc, "dead"},
             Len(f.queue) <= QueueSize,
             f.known /\ f.proc = "up" /\ f.writer # "gone" =>
               f.last = IF f.queue = <<>> THEN f.hold ELSE f.queue[Len(f.queue)]
      PROVE  CameraInv'
  <2>1. FeedTypes' /\ feed'[s] = f /\ \A o \in Sinks \ {s} : feed'[o] = feed[o]
    BY <1>4, OneFeedChanges
  <2>2. OnlySinkRuns'
    BY <1>1, <1>4, <2>1 DEF OnlySinkRuns, PopupTypes
  <2>3. NewestFrameKept'
    BY <1>4, <2>1 DEF NewestFrameKept
  <2> QED
    BY <1>1, <1>2, <2>1, <2>2, <2>3
<1>5. CASE StartWrite(s)
  <2> DEFINE q == feed[s].queue
             frame == IF q = <<>> THEN feed[s].hold ELSE q[Len(q)]
             live == ~feed[s].stopped /\ HasProcess(s)
             to == IF live THEN "writing" ELSE "gone"
             kept == IF live THEN frame ELSE 0
             f == [feed[s] EXCEPT !.writer = to, !.queue = <<>>, !.hold = kept]
  <2>1. frame \in Frames /\ kept \in Frames
    BY <1>3, CameraAssumption DEF Feed, Frames
  <2>2. WriteOf(s, frame)
    BY <1>5 DEF StartWrite
  <2>3. feed[s].known /\ feed[s].proc = "up" => feed[s].last = frame
    BY <2>2 DEF NewestFrameKept, WriteOf, Writer
  <2> HIDE DEF frame
  <2>4. feed' = [feed EXCEPT ![s] = f] /\ feed[s] # FreshFeed
    BY <2>2 DEF WriteOf, Writer, FreshFeed
  <2>5. /\ f \in Feed /\ f.queue = <<>> /\ f.last = feed[s].last
        /\ f.writer # "gone" => f.hold = frame
        /\ f.known = feed[s].known /\ f.proc = feed[s].proc
    BY <1>3, <2>1, EmptyQueue DEF Feed
  <2> HIDE DEF f
  <2>6. Len(f.queue) <= QueueSize
    BY <2>5, EmptyQueue
  <2> QED
    BY <1>4, <2>3, <2>4, <2>5, <2>6
<1>6. CASE EndWrite(s)
  <2> DEFINE f == IF feed[s].proc = "up" THEN [feed[s] EXCEPT !.writer = "idle"]
                  ELSE [feed[s] EXCEPT !.writer = "gone", !.hold = 0]
  <2>1. feed' = [feed EXCEPT ![s] = f] /\ feed[s] # FreshFeed
    BY <1>6 DEF EndWrite, Writer, FreshFeed
  <2>2. /\ f \in Feed /\ f.queue = feed[s].queue
        /\ f.writer # "gone" => f.hold = feed[s].hold
        /\ f.last = feed[s].last /\ f.known = feed[s].known /\ f.proc = feed[s].proc
    <3>1. CASE feed[s].proc = "up"
      BY <1>3, <3>1 DEF Feed
    <3>2. CASE feed[s].proc # "up"
      BY <1>3, <3>2, EmptyQueue DEF Feed
    <3> QED
      BY <3>1, <3>2
  <2>3. feed[s].writer # "gone"
    BY <1>6 DEF EndWrite, Writer
  <2> HIDE DEF f
  <2> QED
    BY <1>3, <1>4, <2>1, <2>2, <2>3 DEF NewestFrameKept
<1>7. CASE FeedBreaks(s)
  <2> DEFINE f == [feed[s] EXCEPT !.proc = "dead"]
  <2>1. feed' = [feed EXCEPT ![s] = f] /\ feed[s] # FreshFeed
    BY <1>7 DEF FeedBreaks, FreshFeed, FeedTypes
  <2>2. f \in Feed /\ f.queue = feed[s].queue /\ f.proc = "dead"
    BY <1>3 DEF Feed
  <2> QED
    BY <1>3, <1>4, <2>1, <2>2
<1> QED
  BY <1>5, <1>6, <1>7

\* The invariant is inductive.
LEMMA CameraNextPreservesInv == CameraInv /\ [CameraNext]_cameraVars => CameraInv'
<1> SUFFICES ASSUME CameraInv, [CameraNext]_cameraVars PROVE CameraInv'
  OBVIOUS
<1>1. CASE \E test \in BOOLEAN : OpenCamera(test)
  BY <1>1, PopupPreservesInv
<1>2. CASE NoCamera \/ StreamGranted \/ EscapeCamera
  BY <1>2, PopupPreservesInv
<1>3. CASE FeedStarts
  BY <1>3, FeedStartsPreservesInv
<1>4. CASE SwitchFacing \/ CloseCamera \/ StreamRefused
  BY <1>4, StopPreservesInv
<1>5. CASE EndFeed
  BY <1>5, EndFeedPreservesInv
<1>6. CASE PreviewDue \/ RetryDue \/ ReadBack \/ SetPreviewFrame \/ CaptureEnds
  BY <1>6, PreviewPreservesInv
<1>7. CASE FrameArrives \/ HandleFrame \/ PushFrame
  BY <1>7, FramePreservesInv
<1>8. CASE \E s \in Sinks : StartWrite(s) \/ EndWrite(s) \/ FeedBreaks(s)
  BY <1>8, WriterPreservesInv
<1>9. CASE UNCHANGED cameraVars
  BY <1>9 DEF CameraInv, PopupTypes, PreviewTypes, FeedTypes, PushTypes, OnlySinkRuns,
    SinkFollowsGui, ReaderFollowsSink, PushGoesToSink, NewestFrameKept, cameraVars,
    popupVars, previewVars, pushVars
<1> QED
  BY <1>1, <1>2, <1>3, <1>4, <1>5, <1>6, <1>7, <1>8, <1>9 DEF CameraNext

\* The types of the popup, which sinks run, that the reader and the frames
\* belong to the popup's own sink, and that the newest frame stays, hold always
\* (CameraAliveDialog, VirtualCameraSink).
THEOREM CameraInvHolds == CameraSpec => []CameraInv
  BY CameraInitEstablishesInv, CameraNextPreservesInv, PTL DEF CameraSpec

\* Of a popup that is closed nothing runs on.
LEMMA CameraInvClosed == CameraInv => ClosedPopupLeavesNothing
<1> SUFFICES ASSUME CameraInv, popup = "closed", gui = "ready", ~startDue, ~ghost
             PROVE  captures = 0 /\ \A s \in Sinks : feed[s].proc # "up"
  BY DEF ClosedPopupLeavesNothing
<1>1. sink = NoSink
  BY DEF CameraInv, SinkFollowsGui
<1>2. captures = 0
  BY <1>1 DEF CameraInv, ReaderFollowsSink
<1>3. \A s \in Sinks : feed[s].proc # "up"
  BY <1>1, CameraNumbers DEF CameraInv, OnlySinkRuns
<1> QED
  BY <1>2, <1>3

-----------------------------------------------------------------------------
(* DeviceScreens: each screen behaves as it does alone.                    *)

\* The window begins with every screen in its first state.
LEMMA ScreensStart ==
  ScreensInit => HomeInit /\ DialogsInit /\ CenterInit /\ CameraInit
  BY DEF ScreensInit

\* A step is one of the screen that is looked at; the others rest.
LEMMA ScreensStep ==
  [ScreensNext]_screensVars =>
    /\ [HomeNext]_homeVars /\ [DialogsNext]_dialogsVars
    /\ [CenterNext]_centerVars /\ [CameraNext]_cameraVars
<1>1. ASSUME UNCHANGED screensVars
      PROVE  /\ UNCHANGED homeVars /\ UNCHANGED dialogsVars
             /\ UNCHANGED centerVars /\ UNCHANGED cameraVars
  BY <1>1 DEF screensVars
<1>2. ASSUME ScreensNext
      PROVE  /\ [HomeNext]_homeVars /\ [DialogsNext]_dialogsVars
             /\ [CenterNext]_centerVars /\ [CameraNext]_cameraVars
  BY <1>2 DEF ScreensNext, OnHome, OnDialogs, OnCenter, OnCamera
<1> QED
  BY <1>1, <1>2

\* A behaviour of DeviceScreens is one of each of its modules: only one screen is
\* looked at, and the variables of the others rest.
LEMMA ScreensImplementEach ==
  ScreensSpec => HomeSpec /\ DialogsSpec /\ CenterSpec /\ CameraSpec
  BY ScreensStart, ScreensStep, PTL
     DEF ScreensSpec, HomeSpec, DialogsSpec, CenterSpec, CameraSpec

\* Every variable of the screens keeps its type.
THEOREM ScreensTypes == ScreensSpec => []ScreensTypeOK
<1> DEFINE Looked == screen \in {"home", "dialogs", "center", "camera"}
<1>1. ScreensInit => Looked
  BY DEF ScreensInit
<1>2. Looked /\ [ScreensNext]_screensVars => Looked'
  BY DEF ScreensNext, OnHome, OnDialogs, OnCenter, OnCamera, screensVars
<1>3. Looked /\ HomeInv /\ DialogsInv /\ CenterInv /\ CameraInv => ScreensTypeOK
  BY HomeInvTypes, DialogsInvTypes, CenterInvTypes, CameraInvTypes DEF ScreensTypeOK
<1> HIDE DEF Looked
<1> QED
  BY <1>1, <1>2, <1>3, ScreensImplementEach, HomeInvHolds, DialogsInvHolds, CenterInvHolds,
     CameraInvHolds, PTL DEF ScreensSpec

\* Cards that nobody has left to redraw show the devices as they are, whatever
\* the sessions do while the page reads them (DevicesPanel.refresh).
THEOREM CardsFollowDevicesHolds == ScreensSpec => []CardsFollowDevices
  BY ScreensImplementEach, HomeInvHolds, PTL DEF HomeInv

\* The rows of a notification page that nobody has left to redraw are those of
\* the history, without what was hidden (NotificationCenter's pages).
THEOREM RowsFollowRecordsHolds == ScreensSpec => []RowsFollowRecords
  BY ScreensImplementEach, CenterInvHolds, PTL DEF CenterInv

\* A camera popup that is closed by its button or its window leaves no sink
\* running and no preview, unless its start timer was running at that moment
\* (CameraAliveDialog.closeEvent).
THEOREM ClosedPopupHolds == ScreensSpec => []ClosedPopupLeavesNothing
  BY ScreensImplementEach, CameraInvHolds, CameraInvClosed, PTL

\* A frame that is dropped makes room for a newer one (VirtualCameraSink.push_frame).
THEOREM NewestFrameHolds == ScreensSpec => []NewestFrameKept
  BY ScreensImplementEach, CameraInvHolds, PTL DEF CameraInv
=============================================================================
