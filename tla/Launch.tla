------------------------------- MODULE Launch -------------------------------
(***************************************************************************)
(* From the icon to the list of games: ApiCaller.ApiCall with its timeout   *)
(* and its alerts, the isLoadingData gate, LoadingVC.finishLoading and the  *)
(* segue to HomeVC, and the notifications the user taps meanwhile           *)
(* (NavigationService).                                                     *)
(*                                                                         *)
(* All this code runs on the main thread: one block of the main queue at a  *)
(* time, in order, or the timer when the thread is idle.  The network, the  *)
(* user and the anonymous sign-in only put blocks on the queue.             *)
(***************************************************************************)
EXTENDS Naturals, Sequences, FiniteSets

CONSTANTS
  MaxCalls,     \* bound: calls of ApiCall, the first and the retries
  MaxTaps       \* bound: notifications tapped

ASSUME LaunchAssumption == MaxCalls \in Nat \ {0} /\ MaxTaps \in Nat

\* What is asked of the network: the feed, LastAPIUpdate, the checks of the
\* games, and the whole list for a sync.
Requests == {"feed", "lastUpdate", "checks", "sync"}

\* What answers a request puts on the main queue.
Answers(request) ==
  CASE request = "feed"       -> {"noResult", "noData", "data"}
    [] request = "lastUpdate" -> {"lastUpdate"}
    [] request = "checks"     -> {"checked"}
    [] request = "sync"       -> {"synced"}

Blocks == {"alert", "finish", "segue", "tap"}
            \cup UNION {Answers(r) : r \in Requests}

VARIABLES
  isLoadingData,
  timeoutTimer, \* it is armed
  calls,        \* calls of ApiCall so far
  underway,     \* requests not yet answered, by kind
  mainQueue,
  asleep,       \* the main thread sleeps in finishLoading
  stored,       \* the local database has games, or placeholders of games
  presented,    \* what LoadingVC presents
  alertOnTop,   \* the controller above LoadingVC shows the alert
  pendingTaps,  \* pendingNotificationsData
  delayed,      \* handleAllPendingNotificationsData is due in half a second
  taps,         \* notifications tapped so far
  segued,       \* performSegue calls so far
  signedIn,     \* there is a current user
  crashed

netVars  == <<underway, stored, signedIn>>
uiVars   == <<presented, alertOnTop>>
tapVars  == <<pendingTaps, delayed, taps>>
gateVars == <<isLoadingData, timeoutTimer>>
vars == <<isLoadingData, timeoutTimer, calls, underway, mainQueue, asleep,
          stored, presented, alertOnTop, pendingTaps, delayed, taps, segued,
          signedIn, crashed>>

\* The loading screen has just called ApiCall (LoadingVC.viewDidAppear); taps
\* made before that are taps made now.  A phone that has run the app before
\* may have games and a user.
Init ==
  /\ isLoadingData = TRUE
  /\ timeoutTimer = TRUE
  /\ calls = 1
  /\ underway = [r \in Requests |-> IF r = "feed" THEN 1 ELSE 0]
  /\ mainQueue = <<>>
  /\ asleep = FALSE
  /\ stored \in BOOLEAN
  /\ presented = "nothing"
  /\ alertOnTop = FALSE
  /\ pendingTaps = 0
  /\ delayed = FALSE
  /\ taps = 0
  /\ segued = 0
  /\ signedIn \in BOOLEAN
  /\ crashed = FALSE

(***************************************************************************)
(* Helpers.  queue is what the running block leaves on the main queue.     *)
(***************************************************************************)

\* MUTANT of Complete: the completion does not look at isLoadingData.
CompleteUngated(queue) ==
  /\ isLoadingData' = FALSE
  /\ timeoutTimer' = FALSE
  /\ mainQueue' = Append(queue, "finish")

\* The completion LoadingVC passes to ApiCall, at its first call only; the
\* observer of isLoadingData stops the timer.
Complete(queue) ==
  \/ /\ isLoadingData
     /\ isLoadingData' = FALSE
     /\ timeoutTimer' = FALSE
     /\ mainQueue' = Append(queue, "finish")
  \/ /\ ~isLoadingData
     /\ mainQueue' = queue
     /\ UNCHANGED gateVars

\* syncLocalDatabase: without a connection it is complete at once.
SyncLocalDatabase(queue) ==
  \/ /\ underway' = [underway EXCEPT !["sync"] = @ + 1]
     /\ mainQueue' = queue
     /\ UNCHANGED gateVars
  \/ /\ Complete(queue)
     /\ UNCHANGED underway

\* presentOKAlertWithTitle: only where nothing is presented.  HomeVC may
\* present an alert of its own.
PresentAlert ==
  \/ /\ presented = "nothing"
     /\ presented' = "alert"
     /\ UNCHANGED alertOnTop
  \/ /\ presented \in {"detail", "home"}
     /\ alertOnTop' = TRUE
     /\ UNCHANGED presented
  \/ /\ presented # "nothing"
     /\ UNCHANGED uiVars

\* NavigationService.navigate: the detail of a game is presented by LoadingVC,
\* unless that presents an alert, or pushed on what covers it.  A game that is
\* not in the local database is not shown.
Navigate ==
  \/ /\ presented = "nothing"
     /\ presented' = "detail"
     /\ UNCHANGED alertOnTop
  \/ UNCHANGED uiVars

\* The running block has been taken from the main queue.
Running(block) ==
  /\ ~crashed /\ ~asleep
  /\ mainQueue # <<>>
  /\ Head(mainQueue) = block

(***************************************************************************)
(* ApiCall.                                                                *)
(***************************************************************************)

\* MUTANT of ApiCall: a retry does not arm the timer.
ApiCallUntimed ==
  /\ calls < MaxCalls
  /\ calls' = calls + 1
  /\ underway' = [underway EXCEPT !["feed"] = @ + 1]
  /\ UNCHANGED timeoutTimer

\* A retry arms the timer anew and asks for the feed again.
ApiCall ==
  /\ calls < MaxCalls
  /\ calls' = calls + 1
  /\ timeoutTimer' = TRUE
  /\ underway' = [underway EXCEPT !["feed"] = @ + 1]

\* The user closes the alert.
TapOK ==
  /\ ~crashed /\ ~asleep
  /\ \/ /\ presented = "alert"
        /\ presented' = "nothing"
        /\ UNCHANGED alertOnTop
     \/ /\ alertOnTop
        /\ alertOnTop' = FALSE
        /\ UNCHANGED presented
  /\ ApiCall
  /\ UNCHANGED <<isLoadingData, mainQueue, asleep, stored, tapVars, segued,
                 signedIn, crashed>>

\* An answer of the network comes in, if ever.
Answer(request) ==
  /\ ~crashed
  /\ underway[request] > 0
  /\ underway' = [underway EXCEPT ![request] = @ - 1]
  /\ \E block \in Answers(request) : mainQueue' = Append(mainQueue, block)
  /\ UNCHANGED <<gateVars, calls, asleep, stored, uiVars, tapVars, segued,
                 signedIn, crashed>>

\* timeoutApiCall.
TimerFires ==
  /\ ~crashed /\ ~asleep
  /\ timeoutTimer
  /\ isLoadingData' = FALSE
  /\ timeoutTimer' = FALSE
  /\ mainQueue' = IF isLoadingData THEN Append(mainQueue, "finish")
                                   ELSE mainQueue
  /\ UNCHANGED <<calls, netVars, asleep, uiVars, tapVars, segued, crashed>>

\* The request failed: the alert is put on the queue when there is neither a
\* connection nor a game to show, and nothing is done otherwise.
NoResult ==
  /\ Running("noResult")
  /\ \/ ~stored /\ mainQueue' = Append(Tail(mainQueue), "alert")
     \/ mainQueue' = Tail(mainQueue)
  /\ UNCHANGED <<gateVars, calls, netVars, asleep, uiVars, tapVars, segued,
                 crashed>>

Alert ==
  /\ Running("alert")
  /\ mainQueue' = Tail(mainQueue)
  /\ timeoutTimer' = FALSE
  /\ PresentAlert
  /\ UNCHANGED <<isLoadingData, calls, netVars, asleep, tapVars, segued,
                 crashed>>

\* A result without "Data": with a connection, sync; without one, present the
\* alert when there is no game, and leave it to the timer when there is.
NoData ==
  /\ Running("noData")
  /\ \/ /\ SyncLocalDatabase(Tail(mainQueue))
        /\ UNCHANGED uiVars
     \/ /\ ~stored
        /\ PresentAlert
        /\ mainQueue' = Tail(mainQueue)
        /\ UNCHANGED <<gateVars, underway>>
     \/ /\ stored
        /\ mainQueue' = Tail(mainQueue)
        /\ UNCHANGED <<gateVars, underway, uiVars>>
  /\ UNCHANGED <<calls, stored, signedIn, asleep, tapVars, segued, crashed>>

\* A result: look up LastAPIUpdate.
Data ==
  /\ Running("data")
  /\ mainQueue' = Tail(mainQueue)
  /\ underway' = [underway EXCEPT !["lastUpdate"] = @ + 1]
  /\ UNCHANGED <<gateVars, calls, stored, signedIn, asleep, uiVars, tapVars,
                 segued, crashed>>

\* Sync, and check the games of the feed.
LastUpdate ==
  /\ Running("lastUpdate")
  /\ \/ /\ underway' = [underway EXCEPT !["sync"] = @ + 1, !["checks"] = @ + 1]
        /\ mainQueue' = Tail(mainQueue)
        /\ UNCHANGED gateVars
     \/ /\ underway' = [underway EXCEPT !["checks"] = @ + 1]
        /\ Complete(Tail(mainQueue))
  /\ UNCHANGED <<calls, stored, signedIn, asleep, uiVars, tapVars, segued,
                 crashed>>

\* All games are checked: publish them and sync again.
Checked ==
  /\ Running("checked")
  /\ SyncLocalDatabase(Tail(mainQueue))
  /\ UNCHANGED <<calls, stored, signedIn, asleep, uiVars, tapVars, segued,
                 crashed>>

\* The block of a sync: the local database may have got games.
Synced ==
  /\ Running("synced")
  /\ \/ stored' = TRUE
     \/ UNCHANGED stored
  /\ Complete(Tail(mainQueue))
  /\ UNCHANGED <<calls, underway, signedIn, asleep, uiVars, tapVars, segued,
                 crashed>>

(***************************************************************************)
(* LoadingVC.finishLoading: sort and prune, sleep for a second, and go home *)
(* in a block of its own.                                                   *)
(***************************************************************************)

FinishLoading ==
  /\ Running("finish")
  /\ mainQueue' = Tail(mainQueue)
  /\ asleep' = TRUE
  /\ \/ stored' = FALSE       \* every game was too old
     \/ UNCHANGED stored
  /\ UNCHANGED <<gateVars, calls, underway, signedIn, uiVars, tapVars, segued,
                 crashed>>

WakeUp ==
  /\ asleep
  /\ asleep' = FALSE
  /\ mainQueue' = Append(mainQueue, "segue")
  /\ UNCHANGED <<gateVars, calls, netVars, uiVars, tapVars, segued, crashed>>

\* MUTANT of Segue: pending notifications are handled by a HomeVC on screen.
SegueHandlingIfShown ==
  /\ Running("segue")
  /\ mainQueue' = Tail(mainQueue)
  /\ segued' = segued + 1
  /\ presented' = IF presented = "nothing" THEN "home" ELSE presented
  /\ delayed' = (presented = "nothing")
  /\ UNCHANGED <<gateVars, calls, netVars, asleep, alertOnTop, pendingTaps,
                 taps, crashed>>

\* The segue is refused while LoadingVC presents something, but its
\* preparation is not.  A HomeVC with a connection (refreshSettings) needs the
\* user; in a database without games it stores placeholders.
Segue ==
  /\ Running("segue")
  /\ mainQueue' = Tail(mainQueue)
  /\ segued' = segued + 1
  /\ delayed' = TRUE
  /\ \/ /\ presented = "nothing"
        /\ presented' = "home"
        /\ stored' = TRUE
        /\ \/ ~signedIn /\ crashed' = TRUE
           \/ UNCHANGED crashed
     \/ /\ presented # "nothing"
        /\ UNCHANGED <<presented, stored, crashed>>
  /\ UNCHANGED <<gateVars, calls, underway, signedIn, asleep, alertOnTop,
                 pendingTaps, taps>>

(***************************************************************************)
(* NavigationService.                                                      *)
(***************************************************************************)

\* The user taps a notification: the system puts its handler on the queue.
TapNotification ==
  /\ ~crashed
  /\ taps < MaxTaps
  /\ taps' = taps + 1
  /\ mainQueue' = Append(mainQueue, "tap")
  /\ UNCHANGED <<gateVars, calls, netVars, asleep, uiVars, pendingTaps,
                 delayed, segued, crashed>>

\* handle(notificationData:).
HandleTap ==
  /\ Running("tap")
  /\ mainQueue' = Tail(mainQueue)
  /\ \/ /\ isLoadingData
        /\ pendingTaps' = pendingTaps + 1
        /\ UNCHANGED uiVars
     \/ /\ ~isLoadingData
        /\ Navigate
        /\ UNCHANGED pendingTaps
  /\ UNCHANGED <<gateVars, calls, netVars, asleep, delayed, taps, segued,
                 crashed>>

\* handleAllPendingNotificationsData.
HandlePendingTaps ==
  /\ ~crashed /\ ~asleep
  /\ delayed
  /\ delayed' = FALSE
  /\ pendingTaps' = 0
  /\ IF pendingTaps > 0 THEN Navigate ELSE UNCHANGED uiVars
  /\ UNCHANGED <<gateVars, calls, netVars, mainQueue, asleep, taps, segued,
                 crashed>>

\* signInAnonymously succeeds, if ever.
SignIn ==
  /\ ~crashed
  /\ ~signedIn
  /\ signedIn' = TRUE
  /\ UNCHANGED <<gateVars, calls, underway, mainQueue, asleep, stored, uiVars,
                 tapVars, segued, crashed>>

RunBlock ==
  \/ NoResult \/ Alert \/ NoData \/ Data
  \/ LastUpdate \/ Checked \/ Synced
  \/ FinishLoading \/ Segue \/ HandleTap

Next ==
  \/ RunBlock
  \/ TimerFires \/ WakeUp \/ HandlePendingTaps
  \/ \E r \in Requests : Answer(r)
  \/ TapOK \/ TapNotification \/ SignIn

\* The main thread goes on and its timers fire; the network may never answer
\* and the user may do nothing.
Fairness ==
  /\ WF_vars(RunBlock)
  /\ WF_vars(TimerFires)
  /\ WF_vars(WakeUp)
  /\ WF_vars(HandlePendingTaps)

Spec == Init /\ [][Next]_vars /\ Fairness

(***************************************************************************)
(* Properties.                                                             *)
(***************************************************************************)

\* Every variable has its type.
TypeOK ==
  /\ isLoadingData \in BOOLEAN /\ timeoutTimer \in BOOLEAN
  /\ calls \in 1 .. MaxCalls
  /\ underway \in [Requests -> Nat]
  /\ mainQueue \in Seq(Blocks)
  /\ asleep \in BOOLEAN /\ stored \in BOOLEAN
  /\ presented \in {"nothing", "alert", "detail", "home"}
  /\ alertOnTop \in BOOLEAN
  /\ pendingTaps \in 0 .. MaxTaps /\ delayed \in BOOLEAN
  /\ taps \in 0 .. MaxTaps
  /\ segued \in Nat
  /\ signedIn \in BOOLEAN /\ crashed \in BOOLEAN

\* How many blocks of a queue are among some.
Count(queue, blocks) == Cardinality({i \in DOMAIN queue : queue[i] \in blocks})

Queued(block) == Count(mainQueue, {block}) > 0

\* finishLoading prunes Firebase and sleeps on the main thread, and the segue
\* builds a HomeVC: of the timer, the two syncs and every retry's, exactly one
\* gets the launch through the gate, and it does so once.
EnteredOnce ==
  Count(mainQueue, {"finish", "segue"}) + (IF asleep THEN 1 ELSE 0) + segued
    = (IF isLoadingData THEN 0 ELSE 1)

\* A launch that is still loading has a timer that ends the wait, or asks the
\* user to try again; ApiCall stops the timer only to show the alert.
LoadingHasAWayOn ==
  isLoadingData => timeoutTimer \/ presented = "alert"

\* A notification kept for later has somebody to open it later: the gate that
\* kept it, or the end of the loading on its way
\* (handleAllPendingNotificationsData).
PendingTapsHaveAHandler ==
  (pendingTaps > 0 /\ ~crashed) =>
    isLoadingData \/ Queued("finish") \/ asleep \/ Queued("segue") \/ delayed

\* Neither the loading nor a tapped notification is left with nobody to go on.
NobodyIsStranded == LoadingHasAWayOn /\ PendingTapsHaveAHandler

\* Whatever the network does, home is presented, or the user is shown the alert
\* and has not closed it; unless LoadingVC presents something, an alert or a
\* game, when the block of the segue is to run, and UIKit refuses it
\* (timeoutApiCall, the gate, finishLoading, performSegue).
NeverWaitsForever ==
  [](Running("segue") => presented = "nothing")
    => []<>(presented \in {"home", "alert"} \/ crashed)

\* ApiCaller.swift:40, "We should just let the user in the app": when the
\* loading is over, the user does not stay on the loading screen with nothing
\* presented.  The code does not keep this: after a segue refused because of an
\* alert, the alert closed, the gate is shut and nothing tries again.
UserIsLetIn == []<>(isLoadingData \/ presented # "nothing" \/ crashed)

\* Once the loading is over, a notification kept for later is dealt with.
PendingTapsAreHandled ==
  (pendingTaps > 0 /\ ~isLoadingData) ~> (pendingTaps = 0 \/ crashed)
=============================================================================
