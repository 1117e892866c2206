----------------------------- MODULE PageTitle ------------------------------
(***************************************************************************)
(* The title bar of every page (PageTitle.jsx): it polls /v1/info every    *)
(* second, shows whether the last request got through as a light that is   *)
(* green or blinks, and opens a dialog when the connection is lost.  The   *)
(* bar and the dialog are on the page once there has been an answer.       *)
(***************************************************************************)
EXTENDS Integers

CONSTANTS Delays,       \* seconds a request takes with the second before it
          MaxSilence    \* bound: seconds without a success that are counted

ASSUME TimeAssumption == Delays \subseteq Nat /\ MaxSilence \in Nat

VARIABLES connected,
          noConnection, lightShown, info, modalShown,
          silence,      \* seconds since lastSuccess
          modal,        \* the dialog is open
          dismissed,    \* the user has closed it in this outage
          timer, inFlight,
          succeeded     \* history: how the last request ended

titleState == << noConnection, lightShown, info, modalShown, silence >>
titleVars == << connected, titleState, modal, dismissed, timer, inFlight, succeeded >>

TitleInit ==
    /\ connected \in BOOLEAN
    /\ noConnection = FALSE /\ lightShown = FALSE /\ info = FALSE /\ modalShown = FALSE /\ silence = 0
    /\ modal = FALSE /\ dismissed = FALSE
    /\ timer = FALSE /\ inFlight = 1
    /\ succeeded = TRUE

refreshLoop ==
    /\ timer
    /\ timer' = FALSE /\ inFlight' = inFlight + 1
    /\ UNCHANGED << connected, titleState, modal, dismissed, succeeded >>

resetTimer == timer' = TRUE

\* mutant: the flag of the dialog stays set
ReceiveInfoKeepingFlag ==
    /\ inFlight > 0 /\ connected
    /\ inFlight' = inFlight - 1
    /\ info' = TRUE /\ noConnection' = FALSE /\ silence' = 0
    /\ modal' = FALSE /\ dismissed' = FALSE
    /\ resetTimer
    /\ succeeded' = TRUE
    /\ UNCHANGED << connected, lightShown, modalShown >>

\* An answer.
ReceiveInfo ==
    /\ inFlight > 0 /\ connected
    /\ inFlight' = inFlight - 1
    /\ info' = TRUE /\ noConnection' = FALSE /\ silence' = 0 /\ modalShown' = FALSE
    /\ modal' = FALSE /\ dismissed' = FALSE
    /\ resetTimer
    /\ succeeded' = TRUE
    /\ UNCHANGED << connected, lightShown >>

\* Whether a failed request opens the dialog.  The second condition of the code, an
\* error or thirty seconds without success, is always met: there is an error.
Announce == ~modalShown

\* What a failed request makes of the light.
Blink(light) == ~light

\* No answer.
ReceiveError(secs) ==
    /\ inFlight > 0 /\ ~connected
    /\ inFlight' = inFlight - 1
    /\ noConnection' = TRUE /\ lightShown' = Blink(lightShown)
    /\ silence' = IF silence + secs > MaxSilence THEN MaxSilence ELSE silence + secs
    /\ resetTimer
    /\ modal' = (modal \/ (Announce /\ info))
    /\ modalShown' = TRUE
    /\ succeeded' = FALSE
    /\ UNCHANGED << connected, info, dismissed >>

\* The user closes the dialog.
Dismiss ==
    /\ modal
    /\ modal' = FALSE /\ dismissed' = TRUE
    /\ UNCHANGED << connected, titleState, timer, inFlight, succeeded >>

\* The connection comes or goes.
Reconnect ==
    /\ connected' = ~connected
    /\ UNCHANGED << titleState, modal, dismissed, timer, inFlight, succeeded >>

TitleNext == refreshLoop \/ ReceiveInfo \/ (\E secs \in Delays : ReceiveError(secs)) \/ Dismiss \/ Reconnect

TitleSpec == TitleInit /\ [][TitleNext]_titleVars

renderStatusLight == IF ~noConnection THEN "green" ELSE IF lightShown THEN "red" ELSE "off"

-----------------------------------------------------------------------------
(* Properties. *)

TitleTypeOK ==
    /\ connected \in BOOLEAN /\ noConnection \in BOOLEAN /\ lightShown \in BOOLEAN /\ info \in BOOLEAN
    /\ modalShown \in BOOLEAN /\ silence \in 0..MaxSilence /\ modal \in BOOLEAN /\ dismissed \in BOOLEAN
    /\ modal => info
    /\ timer \in BOOLEAN /\ inFlight \in 0..1 /\ succeeded \in BOOLEAN

\* The light is green exactly when the last request got through.
LightIsTrue == renderStatusLight = "green" <=> succeeded

\* While the connection is lost the light blinks: it changes with every failed request.
LightBlinks ==
    [][noConnection /\ noConnection' /\ inFlight' < inFlight => renderStatusLight' # renderStatusLight]_titleVars

\* In every outage, the second and later ones too, a page that knew the server has the
\* dialog open until the user closes it or the connection is back, and not again.
OutageIsAnnounced == noConnection /\ info => (modal <=> ~dismissed)

\* With the connection the dialog goes.
DialogGoes == ~noConnection => ~modal

\* The page never stops asking, and asks once at a time.
PollingNeverStops == timer <=> inFlight = 0
=============================================================================
