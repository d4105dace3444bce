----------------------------- MODULE DeviceScreens -----------------------------
(***************************************************************************)
(* The screens of the desktop side by side: the home page, the dialogs of  *)
(* a card, the notification pages and the camera popup.  They share no     *)
(* variable of these models, so that a behaviour of one says nothing of    *)
(* another and each is looked at while the others rest.                    *)
(***************************************************************************)
EXTENDS HomeScreen, PhoneDialogs, NotificationCenter, VirtualCamera

VARIABLE screen   \* the one that is looked at

screensVars == <<homeVars, dialogsVars, centerVars, cameraVars, screen>>

ScreensTypeOK ==
  /\ screen \in {"home", "dialogs", "center", "camera"}
  /\ HomeTypeOK /\ DialogsTypeOK /\ CenterTypeOK /\ CameraTypeOK

ScreensInit ==
  /\ screen \in {"home", "dialogs", "center", "camera"}
  /\ HomeInit /\ DialogsInit /\ CenterInit /\ CameraInit
  /\ screen # "home" => trusted = {} /\ wifi = CHOOSE w \in Wifis : TRUE

OnHome    == screen = "home" /\ HomeNext
               /\ UNCHANGED <<dialogsVars, centerVars, cameraVars, screen>>
OnDialogs == screen = "dialogs" /\ DialogsNext
               /\ UNCHANGED <<homeVars, centerVars, cameraVars, screen>>
OnCenter  == screen = "center" /\ CenterNext
               /\ UNCHANGED <<homeVars, dialogsVars, cameraVars, screen>>
OnCamera  == screen = "camera" /\ CameraNext
               /\ UNCHANGED <<homeVars, dialogsVars, centerVars, screen>>

ScreensNext == OnHome \/ OnDialogs \/ OnCenter \/ OnCamera

\* The threads of the home page and of a card's dialog go on.
ScreensFairness ==
  /\ WF_homeVars(screen = "home" /\ HomeRefreshes)
  /\ WF_homeVars(screen = "home" /\ HomeSession)
  /\ WF_dialogsVars(screen = "dialogs" /\ (SendSearch \/ SendLateSearch))
  /\ WF_dialogsVars(screen = "dialogs" /\ PollContacts)
  /\ WF_dialogsVars(screen = "dialogs" /\ PollFiles)
  /\ WF_dialogsVars(screen = "dialogs" /\ Answer)
  /\ \A f \in Families : WF_dialogsVars(screen = "dialogs" /\ Send(f))

ScreensSpec == ScreensInit /\ [][ScreensNext]_screensVars /\ ScreensFairness
=============================================================================
