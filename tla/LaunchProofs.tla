---------------------------- MODULE LaunchProofs ----------------------------
(***************************************************************************)
(* Proofs about Launch, for any number of retries and of notifications:    *)
(* the gate lets the launch through once, and nobody is left waiting with  *)
(* nothing that goes on.                                                   *)
(***************************************************************************)
EXTENDS Launch, FiniteSetTheorems, SequenceTheorems, TLAPS

(***************************************************************************)
(* What a step makes of the number of blocks of a kind on the queue.       *)
(***************************************************************************)

LEMMA CountType ==
  ASSUME NEW S, NEW q \in Seq(S), NEW B
  PROVE  /\ IsFiniteSet({i \in DOMAIN q : q[i] \in B})
         /\ Count(q, B) \in Nat
<1>1. IsFiniteSet(1 .. Len(q))
  BY FS_Interval
<1>2. IsFiniteSet({i \in DOMAIN q : q[i] \in B})
  BY <1>1, FS_Subset
<1> QED BY <1>2, FS_CardinalityType DEF Count

LEMMA CountAppend ==
  ASSUME NEW S, NEW q \in Seq(S), NEW b \in S, NEW B
  PROVE  Count(Append(q, b), B) = Count(q, B) + (IF b \in B THEN 1 ELSE 0)
<1> DEFINE Old == {i \in DOMAIN q : q[i] \in B}
           New == {i \in DOMAIN Append(q, b) : Append(q, b)[i] \in B}
<1>1. New = IF b \in B THEN Old \cup {Len(q) + 1} ELSE Old
  OBVIOUS
<1>2. Len(q) + 1 \notin Old
  OBVIOUS
<1>3. IsFiniteSet(Old) /\ Cardinality(Old) \in Nat
  BY CountType, FS_CardinalityType
<1>4. Count(q, B) = Cardinality(Old)
        /\ Count(Append(q, b), B) = Cardinality(New)
  BY DEF Count
<1>5. Cardinality(Old \cup {Len(q) + 1}) = Cardinality(Old) + 1
  <2> HIDE DEF Old
  <2> QED BY <1>2, <1>3, FS_AddElement
<1> HIDE DEF Old, New
<1> QED BY <1>1, <1>3, <1>4, <1>5

LEMMA CountTail ==
  ASSUME NEW S, NEW q \in Seq(S), q # <<>>, NEW B
  PROVE  Count(q, B) = Count(Tail(q), B) + (IF Head(q) \in B THEN 1 ELSE 0)
<1> DEFINE Old == {i \in DOMAIN q : q[i] \in B}
           New == {i \in DOMAIN Tail(q) : Tail(q)[i] \in B}
           Rest == Old \ {1}
           f == [i \in New |-> i + 1]
<1>1. \A i \in New : i \in Nat /\ i + 1 \in Rest
  OBVIOUS
<1>2. \A j \in Rest : j - 1 \in New /\ j = (j - 1) + 1
  OBVIOUS
<1>3. IsFiniteSet(Old) /\ IsFiniteSet(New)
  <2>1. Tail(q) \in Seq(S)
    OBVIOUS
  <2> QED BY <2>1, CountType
<1>4. f \in Bijection(New, Rest)
  <2>1. f \in [New -> Rest]
    BY <1>1
  <2>2. \A i, j \in New : f[i] = f[j] => i = j
    BY <1>1
  <2>3. \A j \in Rest : \E i \in New : f[i] = j
    BY <1>2
  <2> HIDE DEF f, New, Rest
  <2> QED BY <2>1, <2>2, <2>3 DEF Bijection, Injection, Surjection, IsInjective
<1>5. Cardinality(New) = Cardinality(Rest)
  <2> HIDE DEF f, New, Rest
  <2> QED BY <1>3, <1>4, FS_Bijection DEF ExistsBijection
<1>6. Cardinality(Old) = Cardinality(Rest) + (IF 1 \in Old THEN 1 ELSE 0)
  <2>1. Cardinality(Old) \in Nat
    BY <1>3, FS_CardinalityType
  <2>2. Cardinality(Rest) = IF 1 \in Old THEN Cardinality(Old) - 1 ELSE Cardinality(Old)
    <3> HIDE DEF Old
    <3> QED BY <1>3, FS_RemoveElement
  <2> HIDE DEF Old, Rest
  <2> QED BY <2>1, <2>2
<1>7. 1 \in Old <=> Head(q) \in B
  OBVIOUS
<1>8. Count(q, B) = Cardinality(Old) /\ Count(Tail(q), B) = Cardinality(New)
  BY DEF Count
<1>9. Cardinality(Old) \in Nat /\ Cardinality(New) \in Nat
  BY <1>3, FS_CardinalityType
<1> HIDE DEF Old, New
<1> QED BY <1>5, <1>6, <1>7, <1>8, <1>9

LEMMA BlocksOnTheQueue ==
  /\ {"alert", "finish", "segue", "tap"} \subseteq Blocks
  /\ \A r \in Requests : Answers(r) \subseteq Blocks
  /\ \A r \in Requests : Answers(r) \cap {"finish", "segue", "tap"} = {}
<1>1. {"alert", "finish", "segue", "tap"} \subseteq Blocks
  BY DEF Blocks
<1>2. \A r \in Requests : Answers(r) \subseteq Blocks
  BY DEF Blocks
<1>3. \A r \in Requests : Answers(r) \cap {"finish", "segue", "tap"} = {}
  BY DEF Requests, Answers
<1> QED BY <1>1, <1>2, <1>3

\* How many blocks of each kind the invariants count.
Gates(q)    == Count(q, {"finish", "segue"})
TapsOn(q)   == Count(q, {"tap"})
Finishes(q) == Count(q, {"finish"})
Segues(q)   == Count(q, {"segue"})

One(condition) == IF condition THEN 1 ELSE 0

LEMMA CountsType ==
  ASSUME NEW q \in Seq(Blocks)
  PROVE  /\ Gates(q) \in Nat /\ TapsOn(q) \in Nat
         /\ Finishes(q) \in Nat /\ Segues(q) \in Nat
BY CountType DEF Gates, TapsOn, Finishes, Segues

LEMMA Appending ==
  ASSUME NEW q \in Seq(Blocks), NEW b \in Blocks
  PROVE  /\ Append(q, b) \in Seq(Blocks)
         /\ Gates(Append(q, b)) = Gates(q) + One(b \in {"finish", "segue"})
         /\ TapsOn(Append(q, b)) = TapsOn(q) + One(b = "tap")
         /\ Finishes(Append(q, b)) = Finishes(q) + One(b = "finish")
         /\ Segues(Append(q, b)) = Segues(q) + One(b = "segue")
<1>1. Append(q, b) \in Seq(Blocks)
  OBVIOUS
<1>2. Gates(Append(q, b)) = Gates(q) + One(b \in {"finish", "segue"})
  BY CountAppend DEF Gates, One
<1>3. TapsOn(Append(q, b)) = TapsOn(q) + One(b \in {"tap"})
  BY CountAppend DEF TapsOn, One
<1>4. Finishes(Append(q, b)) = Finishes(q) + One(b \in {"finish"})
  BY CountAppend DEF Finishes, One
<1>5. Segues(Append(q, b)) = Segues(q) + One(b \in {"segue"})
  BY CountAppend DEF Segues, One
<1> QED BY <1>1, <1>2, <1>3, <1>4, <1>5 DEF One

LEMMA Taking ==
  ASSUME NEW q \in Seq(Blocks), q # <<>>
  PROVE  /\ Tail(q) \in Seq(Blocks)
         /\ Gates(q) = Gates(Tail(q)) + One(Head(q) \in {"finish", "segue"})
         /\ TapsOn(q) = TapsOn(Tail(q)) + One(Head(q) = "tap")
         /\ Finishes(q) = Finishes(Tail(q)) + One(Head(q) = "finish")
         /\ Segues(q) = Segues(Tail(q)) + One(Head(q) = "segue")
<1>1. Tail(q) \in Seq(Blocks)
  OBVIOUS
<1>2. Gates(q) = Gates(Tail(q)) + One(Head(q) \in {"finish", "segue"})
  BY CountTail DEF Gates, One
<1>3. TapsOn(q) = TapsOn(Tail(q)) + One(Head(q) \in {"tap"})
  BY CountTail DEF TapsOn, One
<1>4. Finishes(q) = Finishes(Tail(q)) + One(Head(q) \in {"finish"})
  BY CountTail DEF Finishes, One
<1>5. Segues(q) = Segues(Tail(q)) + One(Head(q) \in {"segue"})
  BY CountTail DEF Segues, One
<1> QED BY <1>1, <1>2, <1>3, <1>4, <1>5 DEF One

(***************************************************************************)
(* The inductive invariant, in the numbers counted.  That a tap is on the  *)
(* queue or pending, once, bounds pendingTaps; that LoadingVC shows        *)
(* nothing but the alert while it loads is what makes "the timer is armed  *)
(* or the alert is shown" survive Alert, which stops the timer and then    *)
(* presents the alert only where nothing is presented.                     *)
(***************************************************************************)

Flags ==
  /\ isLoadingData \in BOOLEAN /\ timeoutTimer \in BOOLEAN
  /\ asleep \in BOOLEAN /\ stored \in BOOLEAN
  /\ presented \in {"nothing", "alert", "detail", "home"}
  /\ alertOnTop \in BOOLEAN /\ delayed \in BOOLEAN
  /\ signedIn \in BOOLEAN /\ crashed \in BOOLEAN

Numbers ==
  /\ calls \in 1 .. MaxCalls
  /\ underway \in [Requests -> Nat]
  /\ pendingTaps \in Nat
  /\ taps \in 0 .. MaxTaps
  /\ segued \in Nat

\* The gate lets the launch through once.
OneThrough == Gates(mainQueue) + One(asleep) + segued = One(~isLoadingData)

\* A tapped notification is on the queue, pending, or dealt with.
TapsAreCounted == pendingTaps + TapsOn(mainQueue) <= taps

\* While it loads, LoadingVC presents the alert or nothing, and has not gone.
LoadingIsInFront ==
  isLoadingData =>
    presented \in {"nothing", "alert"} /\ ~alertOnTop /\ ~delayed

\* The pending notifications have a handler.
TapsAreAwaited ==
  (pendingTaps > 0 /\ ~crashed) =>
    \/ isLoadingData \/ asleep \/ delayed
    \/ Finishes(mainQueue) > 0 \/ Segues(mainQueue) > 0

IInv ==
  /\ Flags /\ Numbers
  /\ mainQueue \in Seq(Blocks)
  /\ OneThrough
  /\ TapsAreCounted
  /\ LoadingIsInFront
  /\ LoadingHasAWayOn
  /\ TapsAreAwaited

LEMMA InitIInv == Init => IInv
<1> SUFFICES ASSUME Init PROVE IInv
  OBVIOUS
<1>1. mainQueue \in Seq(Blocks)
  BY DEF Init
<1>2. \A B : Count(mainQueue, B) = 0
  BY FS_EmptySet DEF Init, Count
<1>3. Flags
  BY DEF Init, Flags
<1>4. Numbers
  <2>1. calls \in 1 .. MaxCalls
    BY LaunchAssumption DEF Init
  <2>2. underway \in [Requests -> Nat]
    BY DEF Init
  <2>3. pendingTaps \in Nat /\ taps \in 0 .. MaxTaps /\ segued \in Nat
    BY LaunchAssumption DEF Init
  <2> QED BY <2>1, <2>2, <2>3 DEF Numbers
<1>5. OneThrough
  BY <1>2 DEF Init, OneThrough, Gates, One
<1>6. TapsAreCounted
  BY <1>2 DEF Init, TapsAreCounted, TapsOn
<1>7. LoadingIsInFront /\ LoadingHasAWayOn /\ TapsAreAwaited
  BY DEF Init, LoadingIsInFront, LoadingHasAWayOn, TapsAreAwaited
<1> QED
  BY <1>1, <1>3, <1>4, <1>5, <1>6, <1>7 DEF IInv

(***************************************************************************)
(* The step.  The types first, action by action; then the queue: each      *)
(* action takes at most one block and adds at most one.                    *)
(***************************************************************************)

LEMMA NextFlags == Flags /\ [Next]_vars => Flags'
<1> SUFFICES ASSUME Flags, [Next]_vars PROVE Flags'
  OBVIOUS
<1> USE DEF Flags, Running, gateVars, netVars, uiVars, tapVars
<1>1. ASSUME NoResult PROVE Flags'
  BY <1>1 DEF NoResult
<1>2. ASSUME Alert PROVE Flags'
  BY <1>2 DEF Alert, PresentAlert
<1>3. ASSUME NoData PROVE Flags'
  BY <1>3 DEF NoData, SyncLocalDatabase, Complete, PresentAlert
<1>4. ASSUME Data PROVE Flags'
  BY <1>4 DEF Data
<1>5. ASSUME LastUpdate PROVE Flags'
  BY <1>5 DEF LastUpdate, Complete
<1>6. ASSUME Checked PROVE Flags'
  BY <1>6 DEF Checked, SyncLocalDatabase, Complete
<1>7. ASSUME Synced PROVE Flags'
  BY <1>7 DEF Synced, Complete
<1>8. ASSUME FinishLoading PROVE Flags'
  BY <1>8 DEF FinishLoading
<1>9. ASSUME Segue PROVE Flags'
  BY <1>9 DEF Segue
<1>10. ASSUME HandleTap PROVE Flags'
  BY <1>10 DEF HandleTap, Navigate
<1>11. ASSUME TimerFires PROVE Flags'
  BY <1>11 DEF TimerFires
<1>12. ASSUME WakeUp PROVE Flags'
  BY <1>12 DEF WakeUp
<1>13. ASSUME HandlePendingTaps PROVE Flags'
  BY <1>13 DEF HandlePendingTaps, Navigate
<1>14. ASSUME TapOK PROVE Flags'
  BY <1>14 DEF TapOK, ApiCall
<1>15. ASSUME TapNotification PROVE Flags'
  BY <1>15 DEF TapNotification
<1>16. ASSUME SignIn PROVE Flags'
  BY <1>16 DEF SignIn
<1>17. ASSUME (\E r \in Requests : Answer(r)) PROVE Flags'
  BY <1>17 DEF Answer
<1>18. ASSUME UNCHANGED vars PROVE Flags'
  BY <1>18 DEF vars
<1> QED
  BY <1>1, <1>2, <1>3, <1>4, <1>5, <1>6, <1>7, <1>8, <1>9, <1>10, <1>11, <1>12,
      <1>13, <1>14, <1>15, <1>16, <1>17, <1>18
  DEF Next, RunBlock

LEMMA NextNumbers == Numbers /\ [Next]_vars => Numbers'
<1> SUFFICES ASSUME Numbers, [Next]_vars PROVE Numbers'
  OBVIOUS
<1> USE LaunchAssumption DEF Numbers, Requests, gateVars, netVars, uiVars,
           tapVars
<1>1. ASSUME NoResult PROVE Numbers'
  BY <1>1 DEF NoResult
<1>2. ASSUME Alert PROVE Numbers'
  BY <1>2 DEF Alert, PresentAlert
<1>3. ASSUME NoData PROVE Numbers'
  BY <1>3 DEF NoData, SyncLocalDatabase, Complete, PresentAlert
<1>4. ASSUME Data PROVE Numbers'
  BY <1>4 DEF Data
<1>5. ASSUME LastUpdate PROVE Numbers'
  BY <1>5 DEF LastUpdate, Complete
<1>6. ASSUME Checked PROVE Numbers'
  BY <1>6 DEF Checked, SyncLocalDatabase, Complete
<1>7. ASSUME Synced PROVE Numbers'
  BY <1>7 DEF Synced, Complete
<1>8. ASSUME FinishLoading PROVE Numbers'
  BY <1>8 DEF FinishLoading
<1>9. ASSUME Segue PROVE Numbers'
  BY <1>9 DEF Segue
<1>10. ASSUME HandleTap PROVE Numbers'
  BY <1>10 DEF HandleTap, Navigate
<1>11. ASSUME TimerFires PROVE Numbers'
  BY <1>11 DEF TimerFires
<1>12. ASSUME WakeUp PROVE Numbers'
  BY <1>12 DEF WakeUp
<1>13. ASSUME HandlePendingTaps PROVE Numbers'
  BY <1>13 DEF HandlePendingTaps, Navigate
<1>14. ASSUME TapOK PROVE Numbers'
  BY <1>14 DEF TapOK, ApiCall
<1>15. ASSUME TapNotification PROVE Numbers'
  BY <1>15 DEF TapNotification
<1>16. ASSUME SignIn PROVE Numbers'
  BY <1>16 DEF SignIn
<1>17. ASSUME (\E r \in Requests : Answer(r)) PROVE Numbers'
  BY <1>17 DEF Answer
<1>18. ASSUME UNCHANGED vars PROVE Numbers'
  BY <1>18 DEF vars
<1> QED
  BY <1>1, <1>2, <1>3, <1>4, <1>5, <1>6, <1>7, <1>8, <1>9, <1>10, <1>11, <1>12,
      <1>13, <1>14, <1>15, <1>16, <1>17, <1>18
  DEF Next, RunBlock

\* A queue, in numbers.
Has(q, g, t, f, h) ==
  /\ q \in Seq(Blocks)
  /\ g \in Nat /\ t \in Nat /\ f \in Nat /\ h \in Nat
  /\ Gates(q) = g /\ TapsOn(q) = t /\ Finishes(q) = f /\ Segues(q) = h

Uncounted == Blocks \ {"finish", "segue", "tap"}

LEMMA HasAppended ==
  ASSUME NEW q, NEW g, NEW t, NEW f, NEW h, Has(q, g, t, f, h)
  PROVE  /\ \A b \in Uncounted : Has(Append(q, b), g, t, f, h)
         /\ Has(Append(q, "finish"), g + 1, t, f + 1, h)
         /\ Has(Append(q, "segue"), g + 1, t, f, h + 1)
         /\ Has(Append(q, "tap"), g, t + 1, f, h)
<1> USE DEF Has
<1>1. ASSUME NEW b \in Uncounted PROVE Has(Append(q, b), g, t, f, h)
  <2>1. b \in Blocks /\ b # "finish" /\ b # "segue" /\ b # "tap"
    BY DEF Uncounted
  <2> QED BY <2>1, Appending DEF One
<1>2. Has(Append(q, "finish"), g + 1, t, f + 1, h)
  BY BlocksOnTheQueue, Appending DEF One
<1>3. Has(Append(q, "segue"), g + 1, t, f, h + 1)
  BY BlocksOnTheQueue, Appending DEF One
<1>4. Has(Append(q, "tap"), g, t + 1, f, h)
  BY BlocksOnTheQueue, Appending DEF One
<1> QED BY <1>1, <1>2, <1>3, <1>4

LEMMA HasTaken ==
  ASSUME NEW q, NEW g, NEW t, NEW f, NEW h, Has(q, g, t, f, h), q # <<>>
  PROVE  /\ Head(q) \notin {"finish", "segue", "tap"}
              => Has(Tail(q), g, t, f, h)
         /\ Head(q) = "finish" => Has(Tail(q), g - 1, t, f - 1, h)
         /\ Head(q) = "segue" => Has(Tail(q), g - 1, t, f, h - 1)
         /\ Head(q) = "tap" => Has(Tail(q), g, t - 1, f, h)
<1>1. /\ q \in Seq(Blocks)
      /\ g \in Nat /\ t \in Nat /\ f \in Nat /\ h \in Nat
      /\ Gates(q) = g /\ TapsOn(q) = t /\ Finishes(q) = f /\ Segues(q) = h
  BY DEF Has
<1>2. Tail(q) \in Seq(Blocks)
  BY <1>1, Taking
<1>3. /\ Gates(Tail(q)) \in Nat /\ TapsOn(Tail(q)) \in Nat
      /\ Finishes(Tail(q)) \in Nat /\ Segues(Tail(q)) \in Nat
  BY <1>2, CountsType
<1>4. /\ g = Gates(Tail(q)) + One(Head(q) \in {"finish", "segue"})
      /\ t = TapsOn(Tail(q)) + One(Head(q) = "tap")
      /\ f = Finishes(Tail(q)) + One(Head(q) = "finish")
      /\ h = Segues(Tail(q)) + One(Head(q) = "segue")
  BY <1>1, Taking
<1>5. CASE Head(q) \notin {"finish", "segue", "tap"}
  BY <1>1, <1>2, <1>3, <1>4, <1>5 DEF One, Has
<1>6. CASE Head(q) = "finish"
  BY <1>1, <1>2, <1>3, <1>4, <1>6 DEF One, Has
<1>7. CASE Head(q) = "segue"
  BY <1>1, <1>2, <1>3, <1>4, <1>7 DEF One, Has
<1>8. CASE Head(q) = "tap"
  BY <1>1, <1>2, <1>3, <1>4, <1>8 DEF One, Has
<1> QED BY <1>5, <1>6, <1>7, <1>8

LEMMA HasCompleted ==
  ASSUME NEW q, NEW g, NEW t, NEW f, NEW h, Has(q, g, t, f, h), Complete(q)
  PROVE  /\ isLoadingData => /\ Has(mainQueue', g + 1, t, f + 1, h)
                             /\ ~isLoadingData'
         /\ ~isLoadingData => Has(mainQueue', g, t, f, h) /\ UNCHANGED gateVars
BY HasAppended DEF Complete

LEMMA NextIInv == IInv /\ [Next]_vars => IInv'
<1> SUFFICES ASSUME IInv, [Next]_vars PROVE IInv'
  OBVIOUS
<1> DEFINE g == Gates(mainQueue)
           t == TapsOn(mainQueue)
           f == Finishes(mainQueue)
           h == Segues(mainQueue)
<1>h. Has(mainQueue, g, t, f, h)
  BY CountsType DEF IInv, Has
<1>n. g \in Nat /\ t \in Nat /\ f \in Nat /\ h \in Nat
  BY <1>h DEF Has
<1>i. Flags /\ Numbers /\ OneThrough /\ TapsAreCounted /\ LoadingIsInFront
        /\ LoadingHasAWayOn /\ TapsAreAwaited
  BY DEF IInv
<1>t. Flags' /\ Numbers'
  BY NextFlags, NextNumbers DEF IInv
<1>1. ASSUME NoResult PROVE IInv'
  <2>1. mainQueue # <<>> /\ Head(mainQueue) = "noResult"
    BY <1>1 DEF Running, NoResult
  <2>2. Has(Tail(mainQueue), g, t, f, h)
    BY <1>h, <2>1, HasTaken
  <2>3. Has(mainQueue', g, t, f, h)
    BY <1>1, <2>2, HasAppended, BlocksOnTheQueue DEF NoResult, Uncounted
  <2>4. OneThrough'
    BY <1>i, <1>t, <1>n, <1>1, <2>3
    DEF Has, One, Flags, Numbers, OneThrough, Running, gateVars, netVars,
        uiVars, tapVars, NoResult
  <2>5. TapsAreCounted'
    BY <1>i, <1>n, <1>1, <2>3
    DEF Has, Numbers, TapsAreCounted, Running, gateVars, netVars, uiVars,
        tapVars, NoResult
  <2>6. TapsAreAwaited'
    BY <1>i, <1>n, <1>1, <2>3
    DEF Has, Flags, Numbers, TapsAreAwaited, Running, gateVars, netVars,
        uiVars, tapVars, NoResult
  <2>7. LoadingIsInFront' /\ LoadingHasAWayOn'
    BY <1>i, <1>t, <1>1
    DEF LoadingIsInFront, LoadingHasAWayOn, Flags, Running, gateVars, netVars,
        uiVars, tapVars, NoResult
  <2> QED BY <1>t, <2>3, <2>4, <2>5, <2>6, <2>7 DEF IInv, Has
<1>2. ASSUME Alert PROVE IInv'
  <2>1. mainQueue # <<>> /\ Head(mainQueue) = "alert"
    BY <1>2 DEF Running, Alert
  <2>2. Has(Tail(mainQueue), g, t, f, h)
    BY <1>h, <2>1, HasTaken
  <2>3. Has(mainQueue', g, t, f, h)
    BY <1>2, <2>2 DEF Alert, PresentAlert
  <2>4. OneThrough'
    BY <1>i, <1>t, <1>n, <1>2, <2>3
    DEF Has, One, Flags, Numbers, OneThrough, Running, gateVars, netVars,
        uiVars, tapVars, Alert, PresentAlert
  <2>5. TapsAreCounted'
    BY <1>i, <1>n, <1>2, <2>3
    DEF Has, Numbers, TapsAreCounted, Running, gateVars, netVars, uiVars,
        tapVars, Alert, PresentAlert
  <2>6. TapsAreAwaited'
    BY <1>i, <1>n, <1>2, <2>3
    DEF Has, Flags, Numbers, TapsAreAwaited, Running, gateVars, netVars,
        uiVars, tapVars, Alert, PresentAlert
  <2>7. LoadingIsInFront' /\ LoadingHasAWayOn'
    BY <1>i, <1>t, <1>2
    DEF LoadingIsInFront, LoadingHasAWayOn, Flags, Running, gateVars, netVars,
        uiVars, tapVars, Alert, PresentAlert
  <2> QED BY <1>t, <2>3, <2>4, <2>5, <2>6, <2>7 DEF IInv, Has
<1>3. ASSUME NoData PROVE IInv'
  <2>1. mainQueue # <<>> /\ Head(mainQueue) = "noData"
    BY <1>3 DEF Running, NoData
  <2>2. Has(Tail(mainQueue), g, t, f, h)
    BY <1>h, <2>1, HasTaken
  <2>3. \/ Has(mainQueue', g, t, f, h)
          /\ UNCHANGED <<isLoadingData, timeoutTimer>>
        \/ isLoadingData /\ ~isLoadingData'
          /\ Has(mainQueue', g + 1, t, f + 1, h)
    BY <1>3, <2>2, HasCompleted
    DEF NoData, SyncLocalDatabase, PresentAlert, gateVars
  <2>4. OneThrough'
    BY <1>i, <1>t, <1>n, <1>3, <2>3
    DEF Has, One, Flags, Numbers, OneThrough, Running, gateVars, netVars,
        uiVars, tapVars, NoData, SyncLocalDatabase, Complete, PresentAlert
  <2>5. TapsAreCounted'
    BY <1>i, <1>n, <1>3, <2>3
    DEF Has, Numbers, TapsAreCounted, Running, gateVars, netVars, uiVars,
        tapVars, NoData, SyncLocalDatabase, Complete, PresentAlert
  <2>6. TapsAreAwaited'
    BY <1>i, <1>n, <1>3, <2>3
    DEF Has, Flags, Numbers, TapsAreAwaited, Running, gateVars, netVars,
        uiVars, tapVars, NoData, SyncLocalDatabase, Complete, PresentAlert
  <2>7. LoadingIsInFront' /\ LoadingHasAWayOn'
    BY <1>i, <1>t, <1>3
    DEF LoadingIsInFront, LoadingHasAWayOn, Flags, Running, gateVars, netVars,
        uiVars, tapVars, NoData, SyncLocalDatabase, Complete, PresentAlert
  <2> QED BY <1>t, <2>3, <2>4, <2>5, <2>6, <2>7 DEF IInv, Has
<1>4. ASSUME Data PROVE IInv'
  <2>1. mainQueue # <<>> /\ Head(mainQueue) = "data"
    BY <1>4 DEF Running, Data
  <2>2. Has(Tail(mainQueue), g, t, f, h)
    BY <1>h, <2>1, HasTaken
  <2>3. Has(mainQueue', g, t, f, h)
    BY <1>4, <2>2 DEF Data
  <2>4. OneThrough'
    BY <1>i, <1>t, <1>n, <1>4, <2>3
    DEF Has, One, Flags, Numbers, OneThrough, Running, gateVars, netVars,
        uiVars, tapVars, Data
  <2>5. TapsAreCounted'
    BY <1>i, <1>n, <1>4, <2>3
    DEF Has, Numbers, TapsAreCounted, Running, gateVars, netVars, uiVars,
        tapVars, Data
  <2>6. TapsAreAwaited'
    BY <1>i, <1>n, <1>4, <2>3
    DEF Has, Flags, Numbers, TapsAreAwaited, Running, gateVars, netVars,
        uiVars, tapVars, Data
  <2>7. LoadingIsInFront' /\ LoadingHasAWayOn'
    BY <1>i, <1>t, <1>4
    DEF LoadingIsInFront, LoadingHasAWayOn, Flags, Running, gateVars, netVars,
        uiVars, tapVars, Data
  <2> QED BY <1>t, <2>3, <2>4, <2>5, <2>6, <2>7 DEF IInv, Has
<1>5. ASSUME LastUpdate PROVE IInv'
  <2>1. mainQueue # <<>> /\ Head(mainQueue) = "lastUpdate"
    BY <1>5 DEF Running, LastUpdate
  <2>2. Has(Tail(mainQueue), g, t, f, h)
    BY <1>h, <2>1, HasTaken
  <2>3. \/ Has(mainQueue', g, t, f, h)
          /\ UNCHANGED <<isLoadingData, timeoutTimer>>
        \/ isLoadingData /\ ~isLoadingData'
          /\ Has(mainQueue', g + 1, t, f + 1, h)
    BY <1>5, <2>2, HasCompleted DEF LastUpdate, gateVars
  <2>4. OneThrough'
    BY <1>i, <1>t, <1>n, <1>5, <2>3
    DEF Has, One, Flags, Numbers, OneThrough, Running, gateVars, netVars,
        uiVars, tapVars, LastUpdate, Complete
  <2>5. TapsAreCounted'
    BY <1>i, <1>n, <1>5, <2>3
    DEF Has, Numbers, TapsAreCounted, Running, gateVars, netVars, uiVars,
        tapVars, LastUpdate, Complete
  <2>6. TapsAreAwaited'
    BY <1>i, <1>n, <1>5, <2>3
    DEF Has, Flags, Numbers, TapsAreAwaited, Running, gateVars, netVars,
        uiVars, tapVars, LastUpdate, Complete
  <2>7. LoadingIsInFront' /\ LoadingHasAWayOn'
    BY <1>i, <1>t, <1>5
    DEF LoadingIsInFront, LoadingHasAWayOn, Flags, Running, gateVars, netVars,
        uiVars, tapVars, LastUpdate, Complete
  <2> QED BY <1>t, <2>3, <2>4, <2>5, <2>6, <2>7 DEF IInv, Has
<1>6. ASSUME Checked PROVE IInv'
  <2>1. mainQueue # <<>> /\ Head(mainQueue) = "checked"
    BY <1>6 DEF Running, Checked
  <2>2. Has(Tail(mainQueue), g, t, f, h)
    BY <1>h, <2>1, HasTaken
  <2>3. \/ Has(mainQueue', g, t, f, h)
          /\ UNCHANGED <<isLoadingData, timeoutTimer>>
        \/ isLoadingData /\ ~isLoadingData'
          /\ Has(mainQueue', g + 1, t, f + 1, h)
    BY <1>6, <2>2, HasCompleted DEF Checked, SyncLocalDatabase, gateVars
  <2>4. OneThrough'
    BY <1>i, <1>t, <1>n, <1>6, <2>3
    DEF Has, One, Flags, Numbers, OneThrough, Running, gateVars, netVars,
        uiVars, tapVars, Checked, SyncLocalDatabase, Complete
  <2>5. TapsAreCounted'
    BY <1>i, <1>n, <1>6, <2>3
    DEF Has, Numbers, TapsAreCounted, Running, gateVars, netVars, uiVars,
        tapVars, Checked, SyncLocalDatabase, Complete
  <2>6. TapsAreAwaited'
    BY <1>i, <1>n, <1>6, <2>3
    DEF Has, Flags, Numbers, TapsAreAwaited, Running, gateVars, netVars,
        uiVars, tapVars, Checked, SyncLocalDatabase, Complete
  <2>7. LoadingIsInFront' /\ LoadingHasAWayOn'
    BY <1>i, <1>t, <1>6
    DEF LoadingIsInFront, LoadingHasAWayOn, Flags, Running, gateVars, netVars,
        uiVars, tapVars, Checked, SyncLocalDatabase, Complete
  <2> QED BY <1>t, <2>3, <2>4, <2>5, <2>6, <2>7 DEF IInv, Has
<1>7. ASSUME Synced PROVE IInv'
  <2>1. mainQueue # <<>> /\ Head(mainQueue) = "synced"
    BY <1>7 DEF Running, Synced
  <2>2. Has(Tail(mainQueue), g, t, f, h)
    BY <1>h, <2>1, HasTaken
  <2>3. \/ Has(mainQueue', g, t, f, h)
          /\ UNCHANGED <<isLoadingData, timeoutTimer>>
        \/ isLoadingData /\ ~isLoadingData'
          /\ Has(mainQueue', g + 1, t, f + 1, h)
    BY <1>7, <2>2, HasCompleted DEF Synced, gateVars
  <2>4. OneThrough'
    BY <1>i, <1>t, <1>n, <1>7, <2>3
    DEF Has, One, Flags, Numbers, OneThrough, Running, gateVars, netVars,
        uiVars, tapVars, Synced, Complete
  <2>5. TapsAreCounted'
    BY <1>i, <1>n, <1>7, <2>3
    DEF Has, Numbers, TapsAreCounted, Running, gateVars, netVars, uiVars,
        tapVars, Synced, Complete
  <2>6. TapsAreAwaited'
    BY <1>i, <1>n, <1>7, <2>3
    DEF Has, Flags, Numbers, TapsAreAwaited, Running, gateVars, netVars,
        uiVars, tapVars, Synced, Complete
  <2>7. LoadingIsInFront' /\ LoadingHasAWayOn'
    BY <1>i, <1>t, <1>7
    DEF LoadingIsInFront, LoadingHasAWayOn, Flags, Running, gateVars, netVars,
        uiVars, tapVars, Synced, Complete
  <2> QED BY <1>t, <2>3, <2>4, <2>5, <2>6, <2>7 DEF IInv, Has
<1>8. ASSUME FinishLoading PROVE IInv'
  <2>1. mainQueue # <<>> /\ Head(mainQueue) = "finish"
    BY <1>8 DEF Running, FinishLoading
  <2>2. Has(Tail(mainQueue), g - 1, t, f - 1, h)
    BY <1>h, <2>1, HasTaken
  <2>3. Has(mainQueue', g - 1, t, f - 1, h)
    BY <1>8, <2>2 DEF FinishLoading
  <2>4. OneThrough'
    BY <1>i, <1>t, <1>n, <1>8, <2>3
    DEF Has, One, Flags, Numbers, OneThrough, Running, gateVars, netVars,
        uiVars, tapVars, FinishLoading
  <2>5. TapsAreCounted'
    BY <1>i, <1>n, <1>8, <2>3
    DEF Has, Numbers, TapsAreCounted, Running, gateVars, netVars, uiVars,
        tapVars, FinishLoading
  <2>6. TapsAreAwaited'
    BY <1>i, <1>n, <1>8, <2>3
    DEF Has, Flags, Numbers, TapsAreAwaited, Running, gateVars, netVars,
        uiVars, tapVars, FinishLoading
  <2>7. LoadingIsInFront' /\ LoadingHasAWayOn'
    BY <1>i, <1>t, <1>8
    DEF LoadingIsInFront, LoadingHasAWayOn, Flags, Running, gateVars, netVars,
        uiVars, tapVars, FinishLoading
  <2> QED BY <1>t, <2>3, <2>4, <2>5, <2>6, <2>7 DEF IInv, Has
<1>9. ASSUME Segue PROVE IInv'
  <2>1. mainQueue # <<>> /\ Head(mainQueue) = "segue"
    BY <1>9 DEF Running, Segue
  <2>2. Has(Tail(mainQueue), g - 1, t, f, h - 1)
    BY <1>h, <2>1, HasTaken
  <2>3. Has(mainQueue', g - 1, t, f, h - 1)
    BY <1>9, <2>2 DEF Segue
  <2>4. OneThrough'
    BY <1>i, <1>t, <1>n, <1>9, <2>3
    DEF Has, One, Flags, Numbers, OneThrough, Running, gateVars, netVars,
        uiVars, tapVars, Segue
  <2>5. TapsAreCounted'
    BY <1>i, <1>n, <1>9, <2>3
    DEF Has, Numbers, TapsAreCounted, Running, gateVars, netVars, uiVars,
        tapVars, Segue
  <2>6. TapsAreAwaited'
    BY <1>i, <1>n, <1>9, <2>3
    DEF Has, Flags, Numbers, TapsAreAwaited, Running, gateVars, netVars,
        uiVars, tapVars, Segue
  <2>7. LoadingIsInFront' /\ LoadingHasAWayOn'
    BY <1>i, <1>t, <1>n, <2>2, <1>9
    DEF LoadingIsInFront, LoadingHasAWayOn, Flags, OneThrough, Numbers, One,
        Has, Running, gateVars, netVars, uiVars, tapVars, Segue
  <2> QED BY <1>t, <2>3, <2>4, <2>5, <2>6, <2>7 DEF IInv, Has
<1>10. ASSUME HandleTap PROVE IInv'
  <2>1. mainQueue # <<>> /\ Head(mainQueue) = "tap"
    BY <1>10 DEF Running, HandleTap
  <2>2. Has(Tail(mainQueue), g, t - 1, f, h)
    BY <1>h, <2>1, HasTaken
  <2>3. Has(mainQueue', g, t - 1, f, h)
    BY <1>10, <2>2 DEF HandleTap, Navigate
  <2>4. OneThrough'
    BY <1>i, <1>t, <1>n, <1>10, <2>3
    DEF Has, One, Flags, Numbers, OneThrough, Running, gateVars, netVars,
        uiVars, tapVars, HandleTap, Navigate
  <2>5. TapsAreCounted'
    BY <1>i, <1>n, <1>10, <2>3
    DEF Has, Numbers, TapsAreCounted, Running, gateVars, netVars, uiVars,
        tapVars, HandleTap, Navigate
  <2>6. TapsAreAwaited'
    BY <1>i, <1>n, <1>10, <2>3
    DEF Has, Flags, Numbers, TapsAreAwaited, Running, gateVars, netVars,
        uiVars, tapVars, HandleTap, Navigate
  <2>7. LoadingIsInFront' /\ LoadingHasAWayOn'
    BY <1>i, <1>t, <1>10
    DEF LoadingIsInFront, LoadingHasAWayOn, Flags, Running, gateVars, netVars,
        uiVars, tapVars, HandleTap, Navigate
  <2> QED BY <1>t, <2>3, <2>4, <2>5, <2>6, <2>7 DEF IInv, Has
<1>11. ASSUME TimerFires PROVE IInv'
  <2>3. \/ ~isLoadingData /\ ~isLoadingData' /\ Has(mainQueue', g, t, f, h)
        \/ isLoadingData /\ ~isLoadingData'
          /\ Has(mainQueue', g + 1, t, f + 1, h)
    BY <1>11, <1>h, HasAppended DEF TimerFires, gateVars
  <2>4. OneThrough'
    BY <1>i, <1>t, <1>n, <1>11, <2>3
    DEF Has, One, Flags, Numbers, OneThrough, Running, gateVars, netVars,
        uiVars, tapVars, TimerFires
  <2>5. TapsAreCounted'
    BY <1>i, <1>n, <1>11, <2>3
    DEF Has, Numbers, TapsAreCounted, Running, gateVars, netVars, uiVars,
        tapVars, TimerFires
  <2>6. TapsAreAwaited'
    BY <1>i, <1>n, <1>11, <2>3
    DEF Has, Flags, Numbers, TapsAreAwaited, Running, gateVars, netVars,
        uiVars, tapVars, TimerFires
  <2>7. LoadingIsInFront' /\ LoadingHasAWayOn'
    BY <1>i, <1>t, <1>11
    DEF LoadingIsInFront, LoadingHasAWayOn, Flags, Running, gateVars, netVars,
        uiVars, tapVars, TimerFires
  <2> QED BY <1>t, <2>3, <2>4, <2>5, <2>6, <2>7 DEF IInv, Has
<1>12. ASSUME WakeUp PROVE IInv'
  <2>3. Has(mainQueue', g + 1, t, f, h + 1)
    BY <1>12, <1>h, HasAppended DEF WakeUp
  <2>4. OneThrough'
    BY <1>i, <1>t, <1>n, <1>12, <2>3
    DEF Has, One, Flags, Numbers, OneThrough, Running, gateVars, netVars,
        uiVars, tapVars, WakeUp
  <2>5. TapsAreCounted'
    BY <1>i, <1>n, <1>12, <2>3
    DEF Has, Numbers, TapsAreCounted, Running, gateVars, netVars, uiVars,
        tapVars, WakeUp
  <2>6. TapsAreAwaited'
    BY <1>i, <1>n, <1>12, <2>3
    DEF Has, Flags, Numbers, TapsAreAwaited, Running, gateVars, netVars,
        uiVars, tapVars, WakeUp
  <2>7. LoadingIsInFront' /\ LoadingHasAWayOn'
    BY <1>i, <1>t, <1>12
    DEF LoadingIsInFront, LoadingHasAWayOn, Flags, Running, gateVars, netVars,
        uiVars, tapVars, WakeUp
  <2> QED BY <1>t, <2>3, <2>4, <2>5, <2>6, <2>7 DEF IInv, Has
<1>13. ASSUME HandlePendingTaps PROVE IInv'
  <2>3. Has(mainQueue', g, t, f, h)
    BY <1>13, <1>h DEF HandlePendingTaps, Navigate
  <2>4. OneThrough'
    BY <1>i, <1>t, <1>n, <1>13, <2>3
    DEF Has, One, Flags, Numbers, OneThrough, Running, gateVars, netVars,
        uiVars, tapVars, HandlePendingTaps, Navigate
  <2>5. TapsAreCounted'
    BY <1>i, <1>n, <1>13, <2>3
    DEF Has, Numbers, TapsAreCounted, Running, gateVars, netVars, uiVars,
        tapVars, HandlePendingTaps, Navigate
  <2>6. TapsAreAwaited'
    BY <1>i, <1>n, <1>13, <2>3
    DEF Has, Flags, Numbers, TapsAreAwaited, Running, gateVars, netVars,
        uiVars, tapVars, HandlePendingTaps, Navigate
  <2>7. LoadingIsInFront' /\ LoadingHasAWayOn'
    BY <1>i, <1>t, <1>13
    DEF LoadingIsInFront, LoadingHasAWayOn, Flags, Running, gateVars, netVars,
        uiVars, tapVars, HandlePendingTaps, Navigate
  <2> QED BY <1>t, <2>3, <2>4, <2>5, <2>6, <2>7 DEF IInv, Has
<1>14. ASSUME TapOK PROVE IInv'
  <2>3. Has(mainQueue', g, t, f, h)
    BY <1>14, <1>h DEF TapOK, ApiCall
  <2>4. OneThrough'
    BY <1>i, <1>t, <1>n, <1>14, <2>3
    DEF Has, One, Flags, Numbers, OneThrough, Running, gateVars, netVars,
        uiVars, tapVars, TapOK, ApiCall
  <2>5. TapsAreCounted'
    BY <1>i, <1>n, <1>14, <2>3
    DEF Has, Numbers, TapsAreCounted, Running, gateVars, netVars, uiVars,
        tapVars, TapOK, ApiCall
  <2>6. TapsAreAwaited'
    BY <1>i, <1>n, <1>14, <2>3
    DEF Has, Flags, Numbers, TapsAreAwaited, Running, gateVars, netVars,
        uiVars, tapVars, TapOK, ApiCall
  <2>7. LoadingIsInFront' /\ LoadingHasAWayOn'
    BY <1>i, <1>t, <1>14
    DEF LoadingIsInFront, LoadingHasAWayOn, Flags, Running, gateVars, netVars,
        uiVars, tapVars, TapOK, ApiCall
  <2> QED BY <1>t, <2>3, <2>4, <2>5, <2>6, <2>7 DEF IInv, Has
<1>15. ASSUME TapNotification PROVE IInv'
  <2>3. Has(mainQueue', g, t + 1, f, h)
    BY <1>15, <1>h, HasAppended DEF TapNotification
  <2>4. OneThrough'
    BY <1>i, <1>t, <1>n, <1>15, <2>3
    DEF Has, One, Flags, Numbers, OneThrough, Running, gateVars, netVars,
        uiVars, tapVars, TapNotification
  <2>5. TapsAreCounted'
    BY <1>i, <1>n, <1>15, <2>3
    DEF Has, Numbers, TapsAreCounted, Running, gateVars, netVars, uiVars,
        tapVars, TapNotification
  <2>6. TapsAreAwaited'
    BY <1>i, <1>n, <1>15, <2>3
    DEF Has, Flags, Numbers, TapsAreAwaited, Running, gateVars, netVars,
        uiVars, tapVars, TapNotification
  <2>7. LoadingIsInFront' /\ LoadingHasAWayOn'
    BY <1>i, <1>t, <1>15
    DEF LoadingIsInFront, LoadingHasAWayOn, Flags, Running, gateVars, netVars,
        uiVars, tapVars, TapNotification
  <2> QED BY <1>t, <2>3, <2>4, <2>5, <2>6, <2>7 DEF IInv, Has
<1>16. ASSUME SignIn PROVE IInv'
  <2>3. Has(mainQueue', g, t, f, h)
    BY <1>16, <1>h DEF SignIn
  <2>4. OneThrough'
    BY <1>i, <1>t, <1>n, <1>16, <2>3
    DEF Has, One, Flags, Numbers, OneThrough, Running, gateVars, netVars,
        uiVars, tapVars, SignIn
  <2>5. TapsAreCounted'
    BY <1>i, <1>n, <1>16, <2>3
    DEF Has, Numbers, TapsAreCounted, Running, gateVars, netVars, uiVars,
        tapVars, SignIn
  <2>6. TapsAreAwaited'
    BY <1>i, <1>n, <1>16, <2>3
    DEF Has, Flags, Numbers, TapsAreAwaited, Running, gateVars, netVars,
        uiVars, tapVars, SignIn
  <2>7. LoadingIsInFront' /\ LoadingHasAWayOn'
    BY <1>i, <1>t, <1>16
    DEF LoadingIsInFront, LoadingHasAWayOn, Flags, Running, gateVars, netVars,
        uiVars, tapVars, SignIn
  <2> QED BY <1>t, <2>3, <2>4, <2>5, <2>6, <2>7 DEF IInv, Has
<1>17. ASSUME (\E r \in Requests : Answer(r)) PROVE IInv'
  <2>1. PICK r \in Requests : Answer(r)
    BY <1>17
  <2>2. PICK b \in Uncounted : mainQueue' = Append(mainQueue, b)
    BY <2>1, BlocksOnTheQueue DEF Answer, Uncounted
  <2>3. Has(mainQueue', g, t, f, h)
    BY <1>17, <1>h, <2>2, HasAppended DEF Answer
  <2>4. OneThrough'
    BY <1>i, <1>t, <1>n, <1>17, <2>3
    DEF Has, One, Flags, Numbers, OneThrough, Running, gateVars, netVars,
        uiVars, tapVars, Answer
  <2>5. TapsAreCounted'
    BY <1>i, <1>n, <1>17, <2>3
    DEF Has, Numbers, TapsAreCounted, Running, gateVars, netVars, uiVars,
        tapVars, Answer
  <2>6. TapsAreAwaited'
    BY <1>i, <1>n, <1>17, <2>3
    DEF Has, Flags, Numbers, TapsAreAwaited, Running, gateVars, netVars,
        uiVars, tapVars, Answer
  <2>7. LoadingIsInFront' /\ LoadingHasAWayOn'
    BY <1>i, <1>t, <1>17
    DEF LoadingIsInFront, LoadingHasAWayOn, Flags, Running, gateVars, netVars,
        uiVars, tapVars, Answer
  <2> QED BY <1>t, <2>3, <2>4, <2>5, <2>6, <2>7 DEF IInv, Has
<1>18. ASSUME UNCHANGED vars PROVE IInv'
  <2>3. Has(mainQueue', g, t, f, h)
    BY <1>18, <1>h DEF vars
  <2>4. OneThrough'
    BY <1>i, <1>t, <1>n, <1>18, <2>3
    DEF Has, One, Flags, Numbers, OneThrough, Running, gateVars, netVars,
        uiVars, tapVars, vars
  <2>5. TapsAreCounted'
    BY <1>i, <1>n, <1>18, <2>3
    DEF Has, Numbers, TapsAreCounted, Running, gateVars, netVars, uiVars,
        tapVars, vars
  <2>6. TapsAreAwaited'
    BY <1>i, <1>n, <1>18, <2>3
    DEF Has, Flags, Numbers, TapsAreAwaited, Running, gateVars, netVars,
        uiVars, tapVars, vars
  <2>7. LoadingIsInFront' /\ LoadingHasAWayOn'
    BY <1>i, <1>t, <1>18
    DEF LoadingIsInFront, LoadingHasAWayOn, Flags, Running, gateVars, netVars,
        uiVars, tapVars, vars
  <2> QED BY <1>t, <2>3, <2>4, <2>5, <2>6, <2>7 DEF IInv, Has
<1> QED
  BY <1>1, <1>2, <1>3, <1>4, <1>5, <1>6, <1>7, <1>8, <1>9, <1>10, <1>11, <1>12,
      <1>13, <1>14, <1>15, <1>16, <1>17, <1>18
  DEF Next, RunBlock

(***************************************************************************)
(* The theorems.                                                           *)
(***************************************************************************)

LEMMA Invariant == Spec => []IInv
<1>1. IInv /\ [Next]_vars => IInv'
  BY NextIInv
<1> QED BY InitIInv, <1>1, PTL DEF Spec

\* Every variable has its type; pendingTaps never exceeds the notifications
\* tapped.
THEOREM TypeCorrect == Spec => []TypeOK
<1>1. IInv => TypeOK
  <2> SUFFICES ASSUME IInv PROVE TypeOK
    OBVIOUS
  <2>1. pendingTaps \in 0 .. MaxTaps
    BY CountsType, LaunchAssumption DEF IInv, Numbers, TapsAreCounted
  <2> QED BY <2>1 DEF IInv, Flags, Numbers, TypeOK
<1> QED BY Invariant, <1>1, PTL

\* The launch gets through the gate of isLoadingData once: however often the
\* user tries again, and in whatever order the timer, the feed and the syncs
\* answer, finishLoading runs once and performSegue is called once.
THEOREM EntersOnce == Spec => []EnteredOnce
<1>1. IInv => EnteredOnce
  BY DEF IInv, Flags, OneThrough, EnteredOnce, Gates, One
<1> QED BY Invariant, <1>1, PTL

\* A launch that is loading has its timer or shows the alert, and a
\* notification
\* kept for later has somebody to open it.
THEOREM NobodyStranded == Spec => []NobodyIsStranded
<1>1. IInv => NobodyIsStranded
  BY DEF IInv, TapsAreAwaited, NobodyIsStranded, PendingTapsHaveAHandler,
         Queued, Finishes, Segues
<1> QED BY Invariant, <1>1, PTL
=============================================================================
