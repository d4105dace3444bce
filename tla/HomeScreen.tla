------------------------------ MODULE HomeScreen ------------------------------
(***************************************************************************)
(* The home page: a card per trusted phone with its buttons and dialogs,   *)
(* the settings page of a phone, and the switch and list of safe networks. *)
(*                                                                         *)
(* Threads: the user interface; the session thread of the one session that *)
(* the server has.  What a session does beside coming, going and reporting *)
(* is DesktopSession's matter.  The user interface calls refresh directly  *)
(* when it made the change itself, and through its event queue when the    *)
(* session thread did.  Left out: names, addresses and layout, how cards   *)
(* are sorted, and what the dialogs do (PhoneDialogs).                     *)
(***************************************************************************)
EXTENDS Naturals, FiniteSets

CONSTANTS
  Phones,      \* device ids
  NoPhone,     \* none of them
  Wifis,       \* names of networks
  NoWifi,      \* none of them
  MaxActs      \* bound: what the user, the phones and the network do

ASSUME HomeAssumption ==
  NoPhone \notin Phones /\ NoWifi \notin Wifis /\ MaxActs \in Nat

VARIABLES
  trusted, settings,   \* phones in the trust store and in the settings store
  active, manual, closing, bluetooth,   \* the registry: _active_devices,
               \* _manual_disconnects, _disconnect_requests and
               \* _bluetooth_connected_devices
  pairable,    \* _new_pairing_allowed_until lies ahead
  allowAll, networks, \* the stored safe Wi-Fi policy
  wifi,        \* the network the desktop is on
  session,     \* what the session thread is at, and with which phone
  told,        \* it has changed the registry and not yet announced that
  homeDue,     \* an announcement is on its way to the user interface
  ui,          \* what the user interface is in the middle of
  glimpse,     \* what list_devices has read of the registry
  cards,       \* _last_devices: per phone, what its card shows
  ringing,     \* cards whose ring button says stop
  dialog,      \* the open dialog, its card, or the open settings page
  wifiShown,   \* what the switch shows
  unseen,      \* history: phones paired since the last refresh
  acts         \* what was used of MaxActs

stores   == <<trusted, settings>>
registry == <<active, manual, closing, bluetooth>>
policy   == <<allowAll, networks, wifi>>
shown    == <<cards, ringing, wifiShown, unseen>>
homeVars == <<stores, registry, pairable, policy, session, told, homeDue, ui,
              glimpse, shown, dialog, acts>>

Model == [at : {"connected", "manual", "unavailable"}, bt : BOOLEAN]
NoCard == [at |-> "none"]
NoDialog == [kind |-> "none", phone |-> NoPhone]
Idle == [at |-> "none", phone |-> NoPhone]

HomeTypeOK ==
  /\ trusted \subseteq Phones /\ settings \subseteq Phones
  /\ active \subseteq Phones /\ manual \subseteq Phones
  /\ closing \subseteq Phones /\ bluetooth \subseteq Phones
  /\ pairable \in BOOLEAN /\ allowAll \in BOOLEAN
  /\ networks \in [Wifis -> {"unknown", "off", "on"}] /\ wifi \in Wifis \cup {NoWifi}
  /\ session \in [at : {"none", "pairing", "allowed", "up"}, phone : Phones \cup {NoPhone}]
  /\ told \in BOOLEAN /\ homeDue \in BOOLEAN
  /\ ui \in [at : {"none", "forget", "refresh", "shows"}, phone : Phones \cup {NoPhone}]
  /\ glimpse \in [active : SUBSET Phones, manual : SUBSET Phones, bt : SUBSET Phones]
  /\ cards \in [Phones -> Model \cup {NoCard}] /\ ringing \subseteq Phones
  /\ dialog \in [kind : {"none", "forget", "unpair", "popup", "settings"},
                 phone : Phones \cup {NoPhone}]
  /\ wifiShown \in BOOLEAN /\ unseen \subseteq Phones /\ acts \in 0..MaxActs

HomeInit ==
  /\ trusted \in {{}, Phones} /\ settings = {}
  /\ active = {} /\ manual = {} /\ closing = {} /\ bluetooth = {} /\ pairable = FALSE
  /\ allowAll = FALSE /\ wifi \in Wifis
  /\ networks = [w \in Wifis |-> IF w = wifi /\ trusted # {} THEN "on" ELSE "unknown"]
  /\ session = Idle /\ told = FALSE /\ homeDue = FALSE /\ ui = Idle
  /\ glimpse = [active |-> {}, manual |-> {}, bt |-> {}]
  /\ cards = [p \in Phones |-> IF p \in trusted THEN [at |-> "unavailable", bt |-> FALSE]
                               ELSE NoCard]
  /\ ringing = {} /\ dialog = NoDialog /\ wifiShown = FALSE /\ unseen = {} /\ acts = 0

Act == acts < MaxActs /\ acts' = acts + 1

\* build_device_models, for one phone.
ModelOf(p, reg, records) ==
  IF p \notin records THEN NoCard
  ELSE [at |-> IF p \in reg.active THEN "connected"
               ELSE IF p \in reg.manual THEN "manual" ELSE "unavailable",
        bt |-> p \in reg.bt]
RegistryNow == [active |-> active, manual |-> manual, bt |-> bluetooth]

\* DesktopSafeWifiStore.is_current_wifi_allowed
WifiAllowed == allowAll \/ (wifi # NoWifi /\ networks[wifi] = "on")

-----------------------------------------------------------------------------
(* HomePanel.refresh, in the two reads of list_devices.                    *)

RefreshReads ==
  /\ ui.at = "refresh" \/ (ui.at = "none" /\ homeDue)
  /\ ui' = [Idle EXCEPT !.at = "shows"]
  /\ homeDue' = (homeDue /\ ui.at = "refresh")
  /\ glimpse' = RegistryNow /\ wifiShown' = allowAll
  /\ UNCHANGED <<stores, registry, pairable, policy, session, told, cards, ringing,
                 unseen, dialog, acts>>

Cards == [p \in Phones |-> ModelOf(p, glimpse, trusted)]
Redraw ==
  IF Cards = cards THEN UNCHANGED <<cards, ringing, dialog>>
  ELSE /\ cards' = Cards /\ ringing' = {}
       /\ dialog' = IF dialog.kind = "settings" THEN dialog ELSE NoDialog

\* Faulty variant: an announcement that comes meanwhile counts as handled.
RefreshShowsAll ==
  /\ ui.at = "shows" /\ ui' = Idle /\ unseen' = {} /\ homeDue' = FALSE
  /\ Redraw
  /\ UNCHANGED <<stores, registry, pairable, policy, session, told,
                 glimpse, wifiShown, acts>>

\* When a card shows something else all cards are made anew: a ring button
\* starts over, and a dialog, a child of its card, goes.
RefreshShows ==
  /\ ui.at = "shows" /\ ui' = Idle /\ unseen' = {}
  /\ Redraw
  /\ UNCHANGED <<stores, registry, pairable, policy, session, told, homeDue,
                 glimpse, wifiShown, acts>>

-----------------------------------------------------------------------------
(* The user, on the cards, in dialogs and on the settings page.            *)

Hand(kind, p) ==   \* the user is at such a dialog, or at the card itself
  /\ ui = Idle /\ Act /\ dialog = [kind |-> kind, phone |-> p]
RestOfUser == UNCHANGED <<session, told, homeDue, glimpse, shown>>

OpenDialog(p, kind) ==
  /\ Hand("none", NoPhone) /\ cards[p] # NoCard
  /\ kind = "unpair" => cards[p].at = "connected"
  /\ dialog' = [kind |-> kind, phone |-> p]
  /\ UNCHANGED <<stores, registry, pairable, policy, ui>> /\ RestOfUser

\* Leaving the settings page shows the home page, which is refreshed.
CloseDialog ==
  /\ ui = Idle /\ dialog # NoDialog /\ dialog' = NoDialog
  /\ ui' = IF dialog.kind = "settings" THEN [Idle EXCEPT !.at = "refresh"] ELSE Idle
  /\ UNCHANGED <<stores, registry, pairable, policy, acts>> /\ RestOfUser

RingClicked(p) ==
  /\ Hand("none", NoPhone) /\ cards[p] # NoCard /\ cards[p].at = "connected"
  /\ ringing' = IF p \in ringing THEN ringing \ {p} ELSE ringing \cup {p}
  /\ UNCHANGED <<stores, registry, pairable, policy, ui, session, told, homeDue,
                 glimpse, cards, wifiShown, unseen, dialog>>

Refreshes == ui' = [Idle EXCEPT !.at = "refresh"] /\ RestOfUser

UnpairDevice(p) ==
  /\ Hand("unpair", p) /\ dialog' = NoDialog
  /\ manual' = manual \cup {p} /\ closing' = closing \cup {p}
  /\ active' = active \ {p} /\ bluetooth' = bluetooth \ {p}
  /\ UNCHANGED <<stores, pairable, policy>> /\ Refreshes

AllowReconnect(p) ==
  /\ Hand("none", NoPhone) /\ cards[p] # NoCard /\ cards[p].at # "connected"
  /\ manual' = manual \ {p} /\ closing' = closing \ {p}
  /\ UNCHANGED <<stores, active, bluetooth, pairable, policy, dialog>> /\ Refreshes

\* forget_device, the registry first.
ForgetDevice(p) ==
  /\ Hand("forget", p) /\ dialog' = NoDialog
  /\ manual' = manual \ {p} /\ closing' = closing \ {p}
  /\ active' = active \ {p} /\ bluetooth' = bluetooth \ {p}
  /\ pairable' = TRUE
  /\ ui' = [at |-> "forget", phone |-> p]
  /\ UNCHANGED <<stores, policy>> /\ RestOfUser

\* and then the stores.
ForgetStores ==
  /\ ui.at = "forget"
  /\ trusted' = trusted \ {ui.phone} /\ settings' = settings \ {ui.phone}
  /\ UNCHANGED <<registry, pairable, policy, dialog, acts>> /\ Refreshes

SetDeviceSetting(p) ==
  /\ Hand("settings", p) /\ settings' = settings \cup {p}
  /\ UNCHANGED <<trusted, registry, pairable, policy, dialog>> /\ Refreshes

AllowNewPairing ==
  /\ Hand("none", NoPhone) /\ pairable' = TRUE
  /\ UNCHANGED <<stores, registry, policy, dialog>> /\ Refreshes

\* set_allow_all_wifi: switching it off approves the network of the moment,
\* even one the user has disabled in the list.
ToggleWifi ==
  /\ Hand("none", NoPhone) /\ allowAll' = ~wifiShown
  /\ networks' = IF wifiShown /\ wifi # NoWifi THEN [networks EXCEPT ![wifi] = "on"]
                 ELSE networks
  /\ UNCHANGED <<stores, registry, pairable, wifi, dialog>> /\ Refreshes

\* A switch of SafeWifiListDialog, which is reached while not all are allowed.
ToggleNetwork(w) ==
  /\ Hand("none", NoPhone) /\ ~wifiShown /\ networks[w] # "unknown"
  /\ networks' = [networks EXCEPT ![w] = IF @ = "on" THEN "off" ELSE "on"]
  /\ UNCHANGED <<stores, registry, pairable, allowAll, wifi, dialog>> /\ Refreshes

-----------------------------------------------------------------------------
(* The session thread, and the world.                                      *)

RestOfSession == UNCHANGED <<settings, manual, policy, homeDue, ui, glimpse, cards,
                             ringing, wifiShown, dialog>>

\* A pairing passes _new_pairing_allowed, and ends in the trust store without
\* an announcement.
PairingAllowed(p) ==
  /\ session = Idle /\ Act
  /\ WifiAllowed /\ (trusted = {} \/ pairable)
  /\ session' = [at |-> "pairing", phone |-> p]
  /\ UNCHANGED <<trusted, active, closing, bluetooth, pairable, told, unseen>>
  /\ RestOfSession

Paired ==
  /\ session.at = "pairing" /\ ~told /\ session' = Idle
  /\ trusted' = trusted \cup {session.phone}
  /\ unseen' = unseen \cup {session.phone}
  /\ UNCHANGED <<active, closing, bluetooth, pairable, told, acts>> /\ RestOfSession

\* _trusted_session_allowed
SessionAllowed(p) ==
  /\ session = Idle /\ Act
  /\ p \in trusted \ manual /\ WifiAllowed
  /\ session' = [at |-> "allowed", phone |-> p]
  /\ UNCHANGED <<trusted, active, closing, bluetooth, pairable, told, unseen>>
  /\ RestOfSession

\* _mark_device_connected
MarkConnected ==
  /\ session.at = "allowed" /\ ~told
  /\ session' = [session EXCEPT !.at = "up"]
  /\ told' = (session.phone \notin active)
  /\ active' = active \cup {session.phone}
  /\ UNCHANGED <<trusted, closing, bluetooth, pairable, unseen, acts>> /\ RestOfSession

\* _record_bluetooth_status
RecordBluetooth ==
  /\ session.at = "up" /\ ~told /\ Act /\ told' = TRUE
  /\ bluetooth' = IF session.phone \in bluetooth THEN bluetooth \ {session.phone}
                  ELSE bluetooth \cup {session.phone}
  /\ UNCHANGED <<trusted, active, closing, pairable, session, unseen>> /\ RestOfSession

Closed ==
  /\ active' = active \ {session.phone} /\ closing' = closing \ {session.phone}
  /\ session' = Idle
  /\ UNCHANGED <<trusted, bluetooth, pairable, unseen>> /\ RestOfSession

\* Faulty variant: it is announced only when the phone was still listed.
MarkClosedIfListed ==
  /\ session.at = "up" /\ ~told /\ session.phone \in manual \cup closing
  /\ Closed /\ told' = (session.phone \in active /\ session.phone \notin manual)
  /\ UNCHANGED acts

\* The session ends because the user asks for it, and _mark_device_closed.
AskedToClose ==
  /\ session.at = "up" /\ ~told /\ session.phone \in manual \cup closing
  /\ Closed /\ told' = TRUE /\ UNCHANGED acts

\* It ends for another reason.
LinkLost == session.at = "up" /\ ~told /\ Act /\ Closed /\ told' = TRUE

\* on_devices_changed
Tell ==
  /\ told /\ told' = FALSE /\ homeDue' = TRUE
  /\ UNCHANGED <<stores, registry, pairable, policy, session, ui, glimpse, shown,
                 dialog, acts>>

WifiMoves(w) ==
  /\ Act /\ w # wifi /\ wifi' = w
  /\ UNCHANGED <<stores, registry, pairable, allowAll, networks, session, told,
                 homeDue, ui, glimpse, shown, dialog>>

PairingTimePasses ==
  /\ pairable /\ pairable' = FALSE
  /\ UNCHANGED <<stores, registry, policy, session, told, homeDue, ui, glimpse,
                 shown, dialog, acts>>

-----------------------------------------------------------------------------
HomeRefreshes == RefreshReads \/ RefreshShows \/ ForgetStores
HomeSession   == Paired \/ MarkConnected \/ AskedToClose \/ Tell

HomeNext ==
  \/ RefreshReads \/ RefreshShows \/ ForgetStores
  \/ Paired \/ MarkConnected \/ AskedToClose \/ Tell
  \/ \E p \in Phones :
       \/ \E kind \in {"forget", "unpair", "popup", "settings"} : OpenDialog(p, kind)
       \/ RingClicked(p) \/ UnpairDevice(p) \/ AllowReconnect(p) \/ ForgetDevice(p)
       \/ SetDeviceSetting(p) \/ PairingAllowed(p) \/ SessionAllowed(p)
  \/ CloseDialog \/ AllowNewPairing \/ ToggleWifi
  \/ \E w \in Wifis : ToggleNetwork(w)
  \/ RecordBluetooth \/ LinkLost
  \/ \E w \in Wifis \cup {NoWifi} : WifiMoves(w)
  \/ PairingTimePasses

HomeSpec == HomeInit /\ [][HomeNext]_homeVars

-----------------------------------------------------------------------------
(* What the page owes its user.                                            *)

\* With nothing left to announce or to redraw, each card shows what the stores
\* and the registry say of its phone, but for a phone that has been paired and
\* has not yet connected; list_devices reads them one after the other, without
\* a common lock.
CardsFollowDevices ==
  ui = Idle /\ ~told /\ ~homeDue =>
    /\ \A p \in Phones \ unseen : cards[p] = ModelOf(p, RegistryNow, trusted)
    /\ wifiShown = allowAll

\* The card of a phone the user has unpaired soon says so, even when the phone
\* was being marked as connected at that moment, unless the user takes it back.
UnpairedIsShown ==
  \A p \in Phones :
    (p \in manual) ~> (p \notin manual \/ cards[p] = NoCard \/ cards[p].at # "connected")

=============================================================================
