-------------------------- MODULE LiveStreamProofs --------------------------
(***************************************************************************)
(* The live-tail hook and the follow mode over it, proved for every set of *)
(* filters, every buffer capacity, argument limit, list and threshold, and *)
(* any number of rows and changes.                                         *)
(*                                                                         *)
(* IInv adds to the properties what they rest on: the rows shown are a     *)
(* snapshot of the buffer, the buffer stays within its capacity, and a     *)
(* source that may still deliver belongs to the effect that last ran.      *)
(* "Is a suffix" is taken apart into positions (Ends), which appending a   *)
(* row and evicting the oldest ones preserve.                              *)
(***************************************************************************)
EXTENDS ExplorerLive, FiniteSetTheorems, TLAPS

USE StreamAssumption

(* s is what t ends with. *)
Ends(s, t) ==
    /\ Len(s) <= Len(t)
    /\ \A i \in 1..Len(s) : s[i] = t[Len(t) - Len(s) + i]

From(u, seq) == \A i \in 1..Len(seq) : seq[i].url = u

Snapshot == rows = buffer /\ Len(buffer) <= BUFFER_CAPACITY

Wanted == source \in {"connecting", "open"} => effect.enabled

OneFilter == effect.enabled => From(effect.url, buffer) /\ From(effect.url, pending)

Gathered ==
    ~lost => /\ Ends(buffer \o pending, arrived)
             /\ Len(buffer \o pending) < Len(arrived) => Len(buffer) = BUFFER_CAPACITY

IInv ==
    /\ StreamTypeOK /\ Snapshot /\ Wanted /\ StatusFollowsSource
    /\ OneFilter /\ Gathered

-----------------------------------------------------------------------------
(* Sequences. *)

LEMMA ReverseIndex ==
    ASSUME NEW S, NEW s \in Seq(S)
    PROVE  /\ Reverse(s) \in Seq(S) /\ Len(Reverse(s)) = Len(s)
           /\ \A i \in 1..Len(s) : Reverse(s)[i] = s[Len(s) - i + 1]
BY DEF Reverse

LEMMA SuffixIsEnds ==
    ASSUME NEW S, NEW s \in Seq(S), NEW t \in Seq(S), Ends(s, t)
    PROVE  IsSuffix(s, t)
<1>1. Len(s) \in Nat /\ Len(t) \in Nat /\ Len(s) <= Len(t)
  BY DEF Ends
<1>2. ASSUME NEW i \in 1..Len(s) PROVE Reverse(s)[i] = Reverse(t)[i]
  <2>1. /\ i \in 1..Len(t) /\ Len(s) - i + 1 \in 1..Len(s)
        /\ Len(t) - Len(s) + (Len(s) - i + 1) = Len(t) - i + 1
    BY <1>1
  <2>2. s[Len(s) - i + 1] = t[Len(t) - i + 1]
    BY <2>1 DEF Ends
  <2>. QED
    BY <2>1, <2>2, ReverseIndex
<1>3. SubSeq(Reverse(s), 1, Len(s)) = SubSeq(Reverse(t), 1, Len(s))
  <2>1. /\ Reverse(s) \in Seq(S) /\ Len(Reverse(s)) = Len(s)
        /\ Reverse(t) \in Seq(S) /\ Len(Reverse(t)) = Len(t)
    BY ReverseIndex
  <2>2. /\ SubSeq(Reverse(s), 1, Len(s)) = [i \in 1..Len(s) |-> Reverse(s)[i]]
        /\ SubSeq(Reverse(t), 1, Len(s)) = [i \in 1..Len(s) |-> Reverse(t)[i]]
    BY <1>1, <2>1
  <2>. QED
    BY <1>2, <2>2
<1>. QED
  BY <1>1, <1>3, ReverseIndex DEF IsSuffix, IsPrefix

LEMMA EndsAppend ==
    ASSUME NEW S, NEW s \in Seq(S), NEW t \in Seq(S), NEW e \in S, Ends(s, t)
    PROVE  Ends(Append(s, e), Append(t, e))
<1> DEFINE a == Append(s, e)
           b == Append(t, e)
<1>1. /\ Len(s) \in Nat /\ Len(t) \in Nat /\ Len(s) <= Len(t)
      /\ Len(a) = Len(s) + 1 /\ Len(b) = Len(t) + 1
      /\ \A i \in 1..Len(s) : a[i] = s[i]
      /\ \A i \in 1..Len(t) : b[i] = t[i]
      /\ a[Len(s) + 1] = e /\ b[Len(t) + 1] = e
  BY DEF Ends
<1> HIDE DEF a, b
<1>2. ASSUME NEW i \in 1..Len(a) PROVE a[i] = b[Len(b) - Len(a) + i]
  <2>1. CASE i = Len(s) + 1
    <3>1. Len(b) - Len(a) + i = Len(t) + 1
      BY <1>1, <2>1
    <3>. QED
      BY <1>1, <2>1, <3>1
  <2>2. CASE i # Len(s) + 1
    <3>1. /\ i \in 1..Len(s) /\ Len(t) - Len(s) + i \in 1..Len(t)
          /\ Len(b) - Len(a) + i = Len(t) - Len(s) + i
      BY <1>1, <2>2
    <3>2. a[i] = s[i] /\ b[Len(t) - Len(s) + i] = t[Len(t) - Len(s) + i]
      BY <1>1, <3>1
    <3>. QED
      BY <3>1, <3>2 DEF Ends
  <2>. QED
    BY <2>1, <2>2
<1>3. Ends(a, b)
  BY <1>1, <1>2 DEF Ends
<1>. QED
  BY <1>3 DEF a, b

LEMMA NewestEnds ==
    ASSUME NEW S, NEW s \in Seq(S)
    PROVE  /\ Newest(s) \in Seq(S)
           /\ Len(Newest(s)) = IF Len(s) > BUFFER_CAPACITY THEN BUFFER_CAPACITY ELSE Len(s)
           /\ \A i \in 1..Len(Newest(s)) : Newest(s)[i] = s[Len(s) - Len(Newest(s)) + i]
<1> DEFINE first == IF Len(s) > BUFFER_CAPACITY THEN Len(s) - BUFFER_CAPACITY + 1 ELSE 1
<1>1. Newest(s) = SubSeq(s, first, Len(s))
  BY DEF Newest
<1>2. /\ Len(s) \in Nat /\ first \in 1..(Len(s) + 1)
      /\ Len(s) - first + 1 = IF Len(s) > BUFFER_CAPACITY THEN BUFFER_CAPACITY ELSE Len(s)
  OBVIOUS
<1> HIDE DEF first
<1>3. /\ SubSeq(s, first, Len(s)) \in Seq(S)
      /\ Len(SubSeq(s, first, Len(s))) = Len(s) - first + 1
      /\ \A i \in 1..(Len(s) - first + 1) : SubSeq(s, first, Len(s))[i] = s[first + i - 1]
  BY <1>2
<1>4. \A i \in 1..(Len(s) - first + 1) : first + i - 1 = Len(s) - (Len(s) - first + 1) + i
  BY <1>2
<1>. QED
  BY <1>1, <1>2, <1>3, <1>4

LEMMA EvictedEnds ==
    ASSUME NEW S, NEW s \in Seq(S), NEW t \in Seq(S), Ends(s, t)
    PROVE  Ends(Newest(s), t)
<1> DEFINE n == Newest(s)
<1>1. /\ n \in Seq(S) /\ Len(n) \in Nat /\ Len(s) \in Nat /\ Len(t) \in Nat
      /\ Len(n) <= Len(s) /\ Len(s) <= Len(t)
  BY NewestEnds DEF Ends
<1>2. ASSUME NEW i \in 1..Len(n) PROVE n[i] = t[Len(t) - Len(n) + i]
  <2>1. /\ Len(s) - Len(n) + i \in 1..Len(s)
        /\ Len(t) - Len(s) + (Len(s) - Len(n) + i) = Len(t) - Len(n) + i
    BY <1>1
  <2>2. n[i] = s[Len(s) - Len(n) + i]
    BY NewestEnds
  <2>3. s[Len(s) - Len(n) + i] = t[Len(t) - Len(s) + (Len(s) - Len(n) + i)]
    BY <2>1 DEF Ends
  <2>. QED
    BY <2>1, <2>2, <2>3
<1>. QED
  BY <1>1, <1>2 DEF Ends

-----------------------------------------------------------------------------
LEMMA EmptyTail == <<>> \in Seq(Tailed) /\ Len(<<>>) = 0
OBVIOUS

LEMMA InitIInv == StreamInit => IInv
<1> SUFFICES ASSUME StreamInit PROVE IInv
  OBVIOUS
<1>1. StreamTypeOK
  <2>1. effect \in [enabled : BOOLEAN, url : Filters]
    BY DEF StreamInit
  <2>2. 0 \in 0..IDLE_CHECKS
    OBVIOUS
  <2>3. \A seq \in {pending, buffer, rows, arrived} : seq \in Seq(Tailed)
    BY EmptyTail DEF StreamInit
  <2>. QED
    BY <2>1, <2>2, <2>3 DEF StreamInit, StreamTypeOK, ReadyState
<1>2. Snapshot /\ Wanted /\ StatusFollowsSource /\ OneFilter
  BY EmptyTail DEF StreamInit, Snapshot, Wanted, StatusFollowsSource, OneFilter
<1>3. Gathered
  BY EmptyTail DEF StreamInit, Gathered, Ends
<1>. QED
  BY <1>1, <1>2, <1>3 DEF IInv

(* Steps that leave the rows alone. *)
LEMMA TailUnchanged ==
    ASSUME IInv, UNCHANGED <<pending, buffer, rows, arrived, lost>>, effect' = effect
    PROVE  Snapshot' /\ OneFilter' /\ Gathered'
BY DEF IInv, Snapshot, OneFilter, Gathered, From, Ends

(* Steps that throw them away. *)
LEMMA TailAfresh ==
    ASSUME StartAfresh
    PROVE  Snapshot' /\ OneFilter' /\ Gathered'
BY DEF StartAfresh, Snapshot, OneFilter, Gathered, From, Ends

LEMMA ChangeIInv ==
    ASSUME IInv, Toggle \/ SetFilter
    PROVE  IInv'
<1>1. PICK on \in BOOLEAN, u \in Filters : Change(on, u)
  BY DEF Toggle, SetFilter, IInv, StreamTypeOK
<1>2. /\ enabled' = on /\ url' = u /\ changes' = changes + 1
      /\ UNCHANGED <<effect, source, idleTimer, quiet, isConnected, isFailed,
                     pending, frame, buffer, rows, arrived, lost, received>>
  BY <1>1 DEF Change, statusVars, tailVars
<1>3. StreamTypeOK' /\ Wanted' /\ StatusFollowsSource'
  BY <1>2 DEF IInv, StreamTypeOK, Wanted, StatusFollowsSource
<1>. QED
  BY <1>2, <1>3, TailUnchanged DEF IInv

LEMMA RunEffectIInv ==
    ASSUME IInv, RunEffect
    PROVE  IInv'
<1>1. /\ effect' = [enabled |-> enabled, url |-> url]
      /\ isFailed' = FALSE /\ frame' \in {"none", frame}
      /\ UNCHANGED <<enabled, url, changes>>
  BY DEF RunEffect, CancelFrame, userVars
<1>2. effect' \in [enabled : BOOLEAN, url : Filters] /\ effect'.enabled = enabled
  BY <1>1 DEF IInv, StreamTypeOK
<1>3. CASE Disable
  <2>1. /\ effect'.enabled = FALSE
        /\ source' \in {"none", "closed"} /\ idleTimer' = FALSE /\ isConnected' = FALSE
        /\ UNCHANGED <<quiet, pending, buffer, rows, arrived, lost, received>>
    BY <1>2, <1>3 DEF Disable
  <2>2. StreamTypeOK'
    BY <1>1, <1>2, <2>1 DEF IInv, StreamTypeOK, ReadyState
  <2>3. Wanted' /\ StatusFollowsSource' /\ Snapshot' /\ OneFilter' /\ Gathered'
    BY <1>1, <2>1 DEF IInv, Wanted, StatusFollowsSource, Snapshot, OneFilter, Gathered, Ends
  <2>. QED
    BY <2>2, <2>3 DEF IInv
<1>4. CASE Subscribe
  <2>1. /\ effect'.enabled = TRUE /\ StartAfresh
        /\ source' = "connecting" /\ idleTimer' = TRUE /\ quiet' = 0
        /\ UNCHANGED isConnected
    BY <1>2, <1>4 DEF Subscribe
  <2>2. /\ pending' = <<>> /\ buffer' = <<>> /\ rows' = <<>> /\ arrived' = <<>>
        /\ lost' = FALSE /\ received' = received
    BY <2>1 DEF StartAfresh
  <2>3. StreamTypeOK'
    <3>1. \A seq \in {pending', buffer', rows', arrived'} : seq \in Seq(Tailed)
      BY <2>2, EmptyTail
    <3>2. 0 \in 0..IDLE_CHECKS
      OBVIOUS
    <3>. QED
      BY <1>1, <1>2, <2>1, <2>2, <3>1, <3>2 DEF IInv, StreamTypeOK, ReadyState
  <2>4. Wanted' /\ StatusFollowsSource'
    BY <1>1, <2>1 DEF Wanted, StatusFollowsSource
  <2>. QED
    BY <2>1, <2>3, <2>4, TailAfresh DEF IInv
<1>. QED
  BY <1>3, <1>4 DEF RunEffect

LEMMA ConnectionIInv ==
    ASSUME IInv, Open \/ Lose \/ Refuse \/ IdleStop \/ IdleCheck
    PROVE  IInv'
<1>1. /\ UNCHANGED <<effect, enabled, url, changes>>
      /\ UNCHANGED <<pending, frame, buffer, rows, arrived, lost, received>>
  BY DEF Open, Lose, Refuse, Error, IdleStop, IdleCheck, tailVars, userVars
<1>2. CASE Open
  BY <1>1, <1>2, TailUnchanged DEF Open, IInv, StreamTypeOK, ReadyState, Wanted, StatusFollowsSource
<1>3. CASE Lose \/ Refuse
  <2>1. PICK state \in {"connecting", "closed"} : Error(state)
    BY <1>3 DEF Lose, Refuse
  <2>2. /\ source \in {"connecting", "open"} /\ source' = state /\ isConnected' = FALSE
        /\ isFailed' = (isFailed \/ state = "closed")
        /\ UNCHANGED <<idleTimer, quiet>>
    BY <2>1 DEF Error, FailedBy
  <2>3. effect.enabled /\ ~isFailed
    BY <2>2 DEF IInv, Wanted, StatusFollowsSource
  <2>. QED
    BY <1>1, <2>2, <2>3, TailUnchanged DEF IInv, StreamTypeOK, ReadyState, Wanted, StatusFollowsSource
<1>4. CASE IdleStop
  BY <1>1, <1>4, TailUnchanged DEF IdleStop, IInv, StreamTypeOK, ReadyState, Wanted, StatusFollowsSource
<1>5. CASE IdleCheck
  BY <1>1, <1>5, TailUnchanged DEF IdleCheck, statusVars, IInv, StreamTypeOK, ReadyState, Wanted,
     StatusFollowsSource
<1>. QED
  BY <1>2, <1>3, <1>4, <1>5

LEMMA MessageIInv ==
    ASSUME IInv, Message
    PROVE  IInv'
<1> DEFINE row == [url |-> effect.url, n |-> received + 1]
<1>1. /\ received' = received + 1
      /\ pending' = Append(pending, row) /\ arrived' = Append(arrived, row)
      /\ quiet' = 0 /\ frame' \in {"queued", frame}
      /\ UNCHANGED <<effect, source, idleTimer, buffer, rows, lost, isConnected, isFailed,
                     enabled, url, changes>>
  BY DEF Message, statusVars, userVars
<1>2. row \in Tailed /\ row.url = effect.url
  BY DEF IInv, StreamTypeOK, Tailed
<1> HIDE DEF row
<1>3. pending \in Seq(Tailed) /\ buffer \in Seq(Tailed) /\ arrived \in Seq(Tailed)
  BY DEF IInv, StreamTypeOK
<1>4. StreamTypeOK'
  BY <1>1, <1>2, <1>3 DEF IInv, StreamTypeOK
<1>5. Snapshot' /\ Wanted' /\ StatusFollowsSource'
  BY <1>1 DEF IInv, Snapshot, Wanted, StatusFollowsSource
<1>6. OneFilter'
  BY <1>1, <1>2, <1>3 DEF IInv, OneFilter, From
<1>7. Gathered'
  <2> DEFINE s == buffer \o pending
  <2>1. s \in Seq(Tailed)
    BY <1>3
  <2>2. buffer' \o pending' = Append(s, row)
    BY <1>1, <1>2, <1>3
  <2>3. Len(Append(s, row)) = Len(s) + 1 /\ Len(Append(arrived, row)) = Len(arrived) + 1
        /\ Len(s) \in Nat /\ Len(arrived) \in Nat
    BY <1>2, <1>3, <2>1
  <2>4. ~lost => Ends(Append(s, row), Append(arrived, row))
    BY <1>2, <1>3, <2>1, EndsAppend DEF IInv, Gathered
  <2>. QED
    BY <1>1, <2>2, <2>3, <2>4 DEF IInv, Gathered
<1>. QED
  BY <1>4, <1>5, <1>6, <1>7 DEF IInv

LEMMA FlushIInv ==
    ASSUME IInv, Flush
    PROVE  IInv'
<1> DEFINE s == buffer \o pending
<1>1. /\ buffer' = Newest(s) /\ rows' = buffer' /\ pending' = <<>> /\ frame' = "none"
      /\ UNCHANGED <<effect, source, idleTimer, quiet, arrived, lost, received, isConnected,
                     isFailed, enabled, url, changes>>
  BY DEF Flush, FrameDone, statusVars, userVars
<1>2. /\ pending \in Seq(Tailed) /\ buffer \in Seq(Tailed) /\ arrived \in Seq(Tailed)
      /\ s \in Seq(Tailed) /\ Len(s) = Len(buffer) + Len(pending)
  BY DEF IInv, StreamTypeOK
<1>3. /\ Newest(s) \in Seq(Tailed)
      /\ Len(Newest(s)) = IF Len(s) > BUFFER_CAPACITY THEN BUFFER_CAPACITY ELSE Len(s)
      /\ \A i \in 1..Len(Newest(s)) : Newest(s)[i] = s[Len(s) - Len(Newest(s)) + i]
  BY <1>2, NewestEnds
<1>4. StreamTypeOK'
  BY <1>1, <1>2, <1>3 DEF IInv, StreamTypeOK
<1>5. Snapshot' /\ Wanted' /\ StatusFollowsSource'
  BY <1>1, <1>2, <1>3 DEF IInv, Snapshot, Wanted, StatusFollowsSource
<1>6. OneFilter'
  <2> SUFFICES ASSUME effect.enabled, NEW i \in 1..Len(Newest(s))
               PROVE  Newest(s)[i].url = effect.url
    BY <1>1 DEF OneFilter, From
  <2>1. Len(s) - Len(Newest(s)) + i \in 1..Len(s)
    BY <1>2, <1>3
  <2>2. \A j \in 1..Len(s) : s[j].url = effect.url
    BY <1>2 DEF IInv, OneFilter, From
  <2>. QED
    BY <1>3, <2>1, <2>2
<1>7. Gathered'
  <2>1. Newest(s) \o <<>> = Newest(s)
    BY <1>3
  <2> SUFFICES ASSUME ~lost
               PROVE  /\ Ends(Newest(s), arrived)
                      /\ Len(Newest(s)) < Len(arrived) => Len(Newest(s)) = BUFFER_CAPACITY
    BY <1>1, <2>1 DEF Gathered
  <2>2. Ends(Newest(s), arrived)
    BY <1>2, EvictedEnds DEF IInv, Gathered
  <2>3. Len(s) < Len(arrived) => Len(buffer) = BUFFER_CAPACITY
    BY DEF IInv, Gathered
  <2>. QED
    BY <1>2, <1>3, <2>2, <2>3 DEF IInv, Snapshot
<1>. QED
  BY <1>4, <1>5, <1>6, <1>7 DEF IInv

LEMMA FlushThrowsIInv ==
    ASSUME IInv, FlushThrows
    PROVE  IInv'
BY DEF FlushThrows, statusVars, userVars, IInv, StreamTypeOK, Snapshot, Wanted, StatusFollowsSource,
   OneFilter, From, Gathered

LEMMA ClearIInv ==
    ASSUME IInv, Clear
    PROVE  IInv'
<1>1. /\ StartAfresh /\ frame' = "none"
      /\ UNCHANGED <<effect, source, idleTimer, quiet, isConnected, isFailed, enabled, url, changes>>
  BY DEF Clear, CancelFrame, statusVars, userVars
<1>2. StreamTypeOK'
  BY <1>1, EmptyTail DEF StartAfresh, IInv, StreamTypeOK
<1>. QED
  BY <1>1, <1>2, TailAfresh DEF IInv, Wanted, StatusFollowsSource

-----------------------------------------------------------------------------
LEMMA NextIInv == IInv /\ [StreamNext]_streamVars => IInv'
<1> SUFFICES ASSUME IInv, [StreamNext]_streamVars PROVE IInv'
  OBVIOUS
<1>1. CASE StreamNext
  BY <1>1, ChangeIInv, RunEffectIInv, ConnectionIInv, MessageIInv, FlushIInv, FlushThrowsIInv,
     ClearIInv DEF StreamNext, HookNext
<1>2. CASE UNCHANGED streamVars
  BY <1>2 DEF streamVars, IInv, StreamTypeOK, Snapshot, Wanted, StatusFollowsSource,
     OneFilter, From, Gathered, Ends
<1>. QED
  BY <1>1, <1>2

LEMMA Invariance == StreamSpec => []IInv
BY InitIInv, NextIInv, PTL DEF StreamSpec

-----------------------------------------------------------------------------
(* Every variable of the hook keeps its type. *)
THEOREM StreamTypeCorrect == StreamSpec => []StreamTypeOK
BY Invariance, PTL DEF IInv

(* Once the effect has run for a filter, no row of an earlier one is shown  *)
(* or waiting to be, whatever frame was queued when the filter changed.     *)
THEOREM NoneStale == StreamSpec => []NoStaleRows
<1>1. IInv => NoStaleRows
  BY DEF IInv, StreamTypeOK, Snapshot, OneFilter, From, NoStaleRows, ToSet
<1>. QED
  BY <1>1, Invariance, PTL

(* The status bar: an open connection is never hidden, and "failed" is only *)
(* said of a stream that is wanted and that the browser has given up.       *)
THEOREM StatusTold == StreamSpec => []StatusFollowsSource
BY Invariance, PTL DEF IInv

(* What is shown and about to be shown is the end of what was received, in  *)
(* order and without gaps, for every capacity of the buffer.                *)
THEOREM TailIsSuffix == StreamSpec => []TailIsNewest
<1>1. IInv => TailIsNewest
  <2> SUFFICES ASSUME IInv, ~lost PROVE
        /\ IsSuffix(rows \o pending, arrived)
        /\ Len(rows \o pending) < Len(arrived) => Len(rows) = BUFFER_CAPACITY
    BY DEF TailIsNewest
  <2>1. rows = buffer /\ buffer \o pending \in Seq(Tailed) /\ arrived \in Seq(Tailed)
    BY DEF IInv, Snapshot, StreamTypeOK
  <2>2. /\ Ends(buffer \o pending, arrived)
        /\ Len(buffer \o pending) < Len(arrived) => Len(buffer) = BUFFER_CAPACITY
    BY DEF IInv, Gathered
  <2>. QED
    BY <2>1, <2>2, SuffixIsEnds
<1>. QED
  BY <1>1, Invariance, PTL

(* PendingIsShown, as far as it is safety.  A handle that is kept belongs   *)
(* to the effect that ran last, and is of no frame only after one threw.    *)
FrameInv ==
    /\ frame # "none" => effect.enabled
    /\ frame = "stuck" => lost
    /\ frame = "none" /\ effect.enabled => pending = <<>>

PendingHasFrame == pending # <<>> /\ effect.enabled /\ ~lost => frame = "queued"

LEMMA FrameKept ==
    ASSUME IInv, FrameInv, [StreamNext]_streamVars
    PROVE  FrameInv'
<1>1. CASE RunEffect
  <2>1. effect' = [enabled |-> enabled, url |-> url] /\ frame' = "none"
    BY <1>1 DEF RunEffect, CancelFrame, FrameInv, IInv, StreamTypeOK
  <2>2. CASE Disable
    BY <2>1, <2>2 DEF Disable, FrameInv
  <2>3. CASE Subscribe
    BY <2>1, <2>3 DEF Subscribe, StartAfresh, FrameInv
  <2>. QED
    BY <1>1, <2>2, <2>3 DEF RunEffect
<1>2. CASE Message
  <2>1. effect' = effect /\ effect.enabled /\ lost' = lost
    BY <1>2 DEF Message, IInv, Wanted
  <2>2. frame' # "none" /\ (frame' = "stuck" => frame = "stuck")
    BY <1>2 DEF Message
  <2>. QED
    BY <2>1, <2>2 DEF FrameInv
<1>3. CASE Flush
  BY <1>3 DEF Flush, FrameDone, FrameInv
<1>4. CASE FlushThrows
  BY <1>4 DEF FlushThrows, FrameInv
<1>5. CASE Clear
  BY <1>5 DEF Clear, CancelFrame, StartAfresh, FrameInv
<1>6. CASE Toggle \/ SetFilter \/ Open \/ Lose \/ Refuse \/ IdleStop \/ IdleCheck
  BY <1>6 DEF Toggle, SetFilter, Change, Open, Lose, Refuse, Error, IdleStop, IdleCheck, tailVars,
              FrameInv
<1>7. CASE UNCHANGED streamVars
  BY <1>7 DEF streamVars, FrameInv
<1>. QED
  BY <1>1, <1>2, <1>3, <1>4, <1>5, <1>6, <1>7 DEF StreamNext, HookNext

(* A row that waits has a frame to wait for, however messages, clears and   *)
(* effects interleave, until the stream is turned off or a frame throws:    *)
(* with a tab that runs its frames (StreamFairSpec), it is shown.           *)
THEOREM FrameAwaited == StreamSpec => []PendingHasFrame
<1>1. StreamInit => FrameInv
  BY DEF StreamInit, FrameInv
<1>2. IInv /\ FrameInv => PendingHasFrame
  BY DEF IInv, StreamTypeOK, FrameInv, PendingHasFrame
<1>. QED
  BY <1>1, <1>2, FrameKept, Invariance, PTL DEF StreamSpec

-----------------------------------------------------------------------------
(***************************************************************************)
(* The follow mode.                                                        *)
(*                                                                         *)
(* A row has one number and numbers rise from the oldest row to the newest *)
(* (Numbered), so that rows which came without one leaving are exactly     *)
(* what the length grew by: what the paint saw arrive is what the effect   *)
(* will count.  FollowInv says what each queue still holds: the effect     *)
(* that is due, the rows not counted yet; the scroll event that is due, a  *)
(* table at its end.                                                       *)
(***************************************************************************)
Rising(s) == \A i, j \in 1..Len(s) : i < j => s[i].n < s[j].n

Distinct(s) == \A i, j \in 1..Len(s) : s[i] = s[j] => i = j

Numbered ==
    /\ Rising(buffer \o pending)
    /\ \A i \in 1..Len(buffer \o pending) : (buffer \o pending)[i].n <= received

(* The count once the effect that is due has run. *)
Counted == IF effectDue /\ effectPaused THEN newCount + Arrivals(Len(painted) - prevCount)
                                        ELSE newCount

CountInv ==
    /\ Distinct(painted)
    /\ ~effectDue => prevCount = Len(painted)
    /\ ~replaced => Counted >= missed

FollowInv ==
    following => /\ ~explicitPause
                 /\ spoiled = {} => IF scrollDue THEN AtEnd ELSE pinned

LiveInv == IInv /\ Numbered /\ TypeOK /\ CountInv /\ FollowInv

LEMMA NumberType == \A r \in Tailed : r.n \in Nat
BY DEF Tailed

(* Messages are numbered as they come, and a flush keeps their order. *)
LEMMA NumberedStep == IInv /\ Numbered /\ [StreamNext]_streamVars => Numbered'
<1> SUFFICES ASSUME IInv, Numbered, [StreamNext]_streamVars PROVE Numbered'
  OBVIOUS
<1> DEFINE s == buffer \o pending
<1>1. /\ pending \in Seq(Tailed) /\ buffer \in Seq(Tailed) /\ s \in Seq(Tailed)
      /\ Len(s) = Len(buffer) + Len(pending) /\ Len(s) \in Nat /\ received \in Nat
  BY DEF IInv, StreamTypeOK
<1>9. \A i \in 1..Len(s) : s[i] \in Tailed /\ s[i].n \in Nat
  <2> HIDE DEF s
  <2>. QED
    BY <1>1, NumberType
<1>10. Rising(s) /\ \A i \in 1..Len(s) : s[i].n <= received
  BY DEF Numbered
<1>2. ASSUME UNCHANGED <<buffer, pending, received>> PROVE Numbered'
  BY <1>2 DEF Numbered, Rising
<1>3. ASSUME buffer' = <<>>, pending' = <<>> PROVE Numbered'
  <2>1. Len(buffer' \o pending') = 0
    BY <1>3
  <2>. QED
    BY <2>1 DEF Numbered, Rising
<1>4. CASE Message
  <2> DEFINE row == [url |-> effect.url, n |-> received + 1]
  <2>1. row \in Tailed /\ row.n = received + 1
    BY <1>1 DEF IInv, StreamTypeOK, Tailed
  <2>2. /\ received' = received + 1 /\ buffer' = buffer /\ pending' = Append(pending, row)
    BY <1>4 DEF Message
  <2> HIDE DEF row
  <2>3. buffer' \o pending' = Append(s, row)
    BY <1>1, <2>1, <2>2
  <2> HIDE DEF s
  <2>4. /\ Len(Append(s, row)) = Len(s) + 1 /\ Append(s, row)[Len(s) + 1] = row
        /\ \A i \in 1..Len(s) : Append(s, row)[i] = s[i]
    BY <1>1, <2>1
  <2>6. Rising(Append(s, row))
    <3> SUFFICES ASSUME NEW i \in 1..(Len(s) + 1), NEW j \in 1..(Len(s) + 1), i < j
                 PROVE  Append(s, row)[i].n < Append(s, row)[j].n
      BY <2>4 DEF Rising
    <3>1. i \in 1..Len(s)
      BY <1>1
    <3>2. CASE j \in 1..Len(s)
      BY <1>10, <2>4, <3>1, <3>2 DEF Rising
    <3>3. CASE j = Len(s) + 1
      <4>1. Append(s, row)[i] = s[i] /\ Append(s, row)[j].n = received + 1
        BY <2>1, <2>4, <3>1, <3>3
      <4>2. s[i].n \in Nat /\ s[i].n <= received
        BY <1>9, <1>10, <3>1
      <4>. QED
        BY <1>1, <4>1, <4>2
    <3>4. j \in 1..Len(s) \/ j = Len(s) + 1
      <4>1. Len(s) \in Nat
        BY <1>1
      <4>. QED
        BY <4>1
    <3>. QED
      BY <3>2, <3>3, <3>4
  <2>7. ASSUME NEW i \in 1..(Len(s) + 1) PROVE Append(s, row)[i].n <= received + 1
    <3>1. CASE i \in 1..Len(s)
      BY <1>1, <1>9, <1>10, <2>4, <3>1
    <3>2. CASE i = Len(s) + 1
      BY <1>1, <2>1, <2>4, <3>2
    <3>. QED
      BY <1>1, <3>1, <3>2
  <2>. QED
    BY <2>2, <2>3, <2>4, <2>6, <2>7 DEF Numbered
<1>5. CASE Flush
  <2>1. buffer' = Newest(s) /\ pending' = <<>> /\ received' = received
    BY <1>5 DEF Flush
  <2> HIDE DEF s
  <2>2. /\ Newest(s) \in Seq(Tailed) /\ Len(Newest(s)) \in Nat /\ Len(Newest(s)) <= Len(s)
        /\ \A i \in 1..Len(Newest(s)) : Newest(s)[i] = s[Len(s) - Len(Newest(s)) + i]
    BY <1>1, NewestEnds
  <2>3. buffer' \o pending' = Newest(s)
    BY <2>1, <2>2
  <2>5. \A i \in 1..Len(Newest(s)) : Len(s) - Len(Newest(s)) + i \in 1..Len(s)
    BY <1>1, <2>2
  <2>6. Rising(Newest(s))
    <3> SUFFICES ASSUME NEW i \in 1..Len(Newest(s)), NEW j \in 1..Len(Newest(s)), i < j
                 PROVE  Newest(s)[i].n < Newest(s)[j].n
      BY DEF Rising
    <3>1. Len(s) - Len(Newest(s)) + i < Len(s) - Len(Newest(s)) + j
      BY <1>1, <2>2
    <3>. QED
      BY <1>10, <2>2, <2>5, <3>1 DEF Rising
  <2>7. \A i \in 1..Len(Newest(s)) : Newest(s)[i].n <= received
    BY <1>10, <2>2, <2>5
  <2>. QED
    BY <2>1, <2>3, <2>6, <2>7 DEF Numbered
<1>6. CASE FlushThrows
  <2>1. buffer' = buffer /\ pending' = <<>> /\ received' = received
    BY <1>6 DEF FlushThrows
  <2>2. buffer' \o pending' = buffer /\ \A i \in 1..Len(buffer) : i \in 1..Len(s) /\ s[i] = buffer[i]
    BY <1>1, <2>1
  <2>. QED
    BY <2>1, <2>2 DEF Numbered, Rising
<1>7. CASE Toggle \/ SetFilter \/ Open \/ Lose \/ Refuse \/ IdleStop \/ IdleCheck \/ UNCHANGED streamVars
  BY <1>2, <1>7 DEF Toggle, SetFilter, Change, Open, Lose, Refuse, Error, IdleStop, IdleCheck,
     tailVars, streamVars
<1>8. CASE RunEffect \/ Clear
  BY <1>2, <1>3, <1>8 DEF RunEffect, Disable, Subscribe, Clear, StartAfresh
<1>. QED
  BY <1>4, <1>5, <1>6, <1>7, <1>8 DEF StreamNext, HookNext

LEMMA RisingIsDistinct ==
    ASSUME NEW s \in Seq(Tailed), Rising(s)
    PROVE  Distinct(s)
<1>1. \A i \in 1..Len(s) : s[i].n \in Nat
  BY NumberType
<1>2. ASSUME NEW i \in 1..Len(s), NEW j \in 1..Len(s), i < j PROVE s[i] # s[j]
  <2>1. s[i].n < s[j].n
    BY <1>2 DEF Rising
  <2>. QED
    BY <1>1, <2>1
<1>. QED
  BY <1>2 DEF Distinct

(* A sequence without repetitions has as many members as it is long. *)
LEMMA DistinctCount ==
    ASSUME NEW s \in Seq(Tailed), Distinct(s)
    PROVE  IsFiniteSet(ToSet(s)) /\ Cardinality(ToSet(s)) = Len(s)
<1>1. s \in Bijection(1..Len(s), ToSet(s))
  <2>1. DOMAIN s = 1..Len(s) /\ s = [i \in 1..Len(s) |-> s[i]]
    OBVIOUS
  <2>2. s \in [1..Len(s) -> ToSet(s)] /\ \A r \in ToSet(s) : \E i \in 1..Len(s) : s[i] = r
    BY <2>1 DEF ToSet
  <2>3. IsInjective(s)
    BY <2>1 DEF Distinct, IsInjective
  <2>. QED
    BY <2>2, <2>3 DEF Bijection, Injection, Surjection
<1>2. IsFiniteSet(1..Len(s)) /\ Cardinality(1..Len(s)) = Len(s)
  <2>1. 1 \in Int /\ Len(s) \in Int /\ Len(s) >= 0
    OBVIOUS
  <2>2. /\ IsFiniteSet(1..Len(s))
        /\ Cardinality(1..Len(s)) = IF 1 > Len(s) THEN 0 ELSE Len(s) - 1 + 1
    BY <2>1, FS_Interval
  <2>. QED
    BY <2>1, <2>2
<1>. QED
  BY <1>1, <1>2, FS_Bijection DEF ExistsBijection

(* Rows that came while none left are what the length grew by. *)
LEMMA FreshCount ==
    ASSUME NEW p \in Seq(Tailed), NEW q \in Seq(Tailed), Distinct(p), Distinct(q)
    PROVE  /\ Cardinality(ToSet(q) \ ToSet(p)) \in Nat
           /\ ToSet(p) \subseteq ToSet(q) => Cardinality(ToSet(q) \ ToSet(p)) = Len(q) - Len(p)
<1> DEFINE fresh == ToSet(q) \ ToSet(p)
<1>1. /\ IsFiniteSet(ToSet(p)) /\ Cardinality(ToSet(p)) = Len(p)
      /\ IsFiniteSet(ToSet(q)) /\ Cardinality(ToSet(q)) = Len(q)
  BY DistinctCount
<1>2. IsFiniteSet(fresh) /\ Cardinality(fresh) \in Nat
  BY <1>1, FS_Subset, FS_CardinalityType
<1>3. ASSUME ToSet(p) \subseteq ToSet(q) PROVE Cardinality(fresh) = Len(q) - Len(p)
  <2>1. ToSet(q) = ToSet(p) \cup fresh /\ ToSet(p) \cap fresh = {}
    BY <1>3
  <2>2. Cardinality(ToSet(p) \cup fresh)
          = Cardinality(ToSet(p)) + Cardinality(fresh) - Cardinality(ToSet(p) \cap fresh)
    BY <1>1, <1>2, FS_Union
  <2>3. Cardinality(ToSet(p) \cap fresh) = 0
    BY <2>1, FS_EmptySet
  <2> HIDE DEF fresh
  <2>. QED
    BY <1>1, <1>2, <2>1, <2>2, <2>3
<1>. QED
  BY <1>2, <1>3

LEMMA InitLive == Init => LiveInv
<1> SUFFICES ASSUME Init PROVE LiveInv
  OBVIOUS
<1>1. IInv
  BY InitIInv DEF Init
<1>2. Numbered
  <2>1. Len(buffer \o pending) = 0
    BY DEF Init, StreamInit
  <2>. QED
    BY <2>1 DEF Numbered, Rising
<1>3. TypeOK
  <2>1. painted \in Seq(Tailed) /\ listed \in Seq(Tailed)
    BY EmptyTail DEF Init
  <2>2. StreamTypeOK /\ below \in Nat
    BY <1>1, FollowAssumption DEF Init, IInv
  <2>3. \A b \in {pinned, explicitPause, scrollDue, replaced, following} : b \in BOOLEAN
    BY DEF Init
  <2>5. live \in BOOLEAN /\ loaded \in 0..History
    BY FollowAssumption DEF Init
  <2>4. prevCount \in Nat /\ newCount \in Nat /\ missed \in Nat
        /\ effectDue \in BOOLEAN /\ effectPaused \in BOOLEAN /\ spoiled = {}
    BY DEF Init
  <2>. QED
    BY <2>1, <2>2, <2>3, <2>4, <2>5 DEF TypeOK
<1>4. CountInv /\ FollowInv
  BY EmptyTail DEF Init, CountInv, FollowInv, Distinct, Counted
<1>. QED
  BY <1>1, <1>2, <1>3, <1>4 DEF LiveInv

(* Steps of the stream touch nothing of the follow mode, and the other way  *)
(* round.                                                                   *)
LEMMA StreamKeeps ==
    ASSUME LiveInv, Stream \/ SwitchLive \/ UNCHANGED vars
    PROVE  LiveInv'
<1>1. [StreamNext]_streamVars /\ UNCHANGED followVars
  BY DEF Stream, SwitchLive, StreamNext, vars
<1>5. live' \in BOOLEAN
  BY DEF LiveInv, TypeOK, Stream, SwitchLive, vars
<1>2. IInv' /\ Numbered'
  BY <1>1, NextIInv, NumberedStep DEF LiveInv
<1>3. TypeOK'
  BY <1>1, <1>2, <1>5 DEF LiveInv, TypeOK, followVars, IInv
<1>4. CountInv' /\ FollowInv'
  BY <1>1 DEF LiveInv, CountInv, FollowInv, followVars, Distinct, Counted, AtEnd
<1>. QED
  BY <1>2, <1>3, <1>4 DEF LiveInv

LEMMA StreamAside ==
    ASSUME LiveInv, UNCHANGED streamVars
    PROVE  IInv' /\ Numbered' /\ StreamTypeOK'
<1>1. IInv' /\ Numbered'
  BY NextIInv, NumberedStep DEF LiveInv
<1>. QED
  BY <1>1 DEF IInv

(* What the paint finds new is what the effect will count. *)
LEMMA PaintKeeps ==
    ASSUME LiveInv, Paint
    PROVE  LiveInv'
<1>0. PICK h \in 0..History : PaintOver(h)
  BY DEF Paint
<1> DEFINE grown == h + Len(LiveRows) - (loaded + Len(listed))
           fresh == Cardinality(ToSet(rows) \ ToSet(painted))
<1>1. /\ ~effectDue /\ loaded' = h /\ painted' = rows /\ listed' = LiveRows
      /\ effectDue' = (Len(rows) # Len(painted)) /\ effectPaused' = paused
      /\ below' = (IF grown >= 0 THEN below + grown ELSE Monus(below, -grown))
      /\ scrollDue' = (scrollDue \/ below + grown < 0)
      /\ missed' = (IF paused THEN missed + fresh ELSE missed)
      /\ replaced' = (replaced \/ (paused /\ ~(ToSet(painted) \subseteq ToSet(rows))))
      /\ spoiled' = (IF grown > 0 /\ scrollDue THEN spoiled \cup {"outrun"} ELSE spoiled)
      /\ UNCHANGED <<prevCount, pinned, explicitPause, newCount, following>>
      /\ UNCHANGED <<streamVars, live>>
  BY <1>0 DEF PaintOver
<1>2. /\ rows \in Seq(Tailed) /\ painted \in Seq(Tailed)
      /\ LiveRows \in Seq(Tailed) /\ listed \in Seq(Tailed)
  BY EmptyTail DEF LiveInv, TypeOK, StreamTypeOK, LiveRows
<1>3. Distinct(rows)
  <2>1. rows = buffer /\ buffer \in Seq(Tailed) /\ pending \in Seq(Tailed)
    BY DEF LiveInv, IInv, Snapshot, StreamTypeOK
  <2>2. \A i \in 1..Len(buffer) : i \in 1..Len(buffer \o pending) /\ (buffer \o pending)[i] = buffer[i]
    BY <2>1
  <2>3. Rising(buffer)
    BY <2>2 DEF LiveInv, Numbered, Rising
  <2>. QED
    BY <2>1, <2>3, RisingIsDistinct
<1>4. /\ fresh \in Nat
      /\ ToSet(painted) \subseteq ToSet(rows) => fresh = Len(rows) - Len(painted)
  BY <1>2, <1>3, FreshCount DEF LiveInv, CountInv
<1>5. grown \in Int /\ h \in Nat /\ Len(rows) \in Nat /\ Len(painted) \in Nat /\ below \in Nat
      /\ missed \in Nat /\ newCount \in Nat /\ prevCount \in Nat
  BY <1>2, FollowAssumption DEF LiveInv, TypeOK
<1> HIDE DEF grown, fresh
<1>6. below' \in Nat /\ (grown <= 0 => below' <= below) /\ (below + grown < 0 => below' = 0)
  BY <1>1, <1>5 DEF Monus
<1>7. missed' \in Nat /\ effectDue' \in BOOLEAN /\ effectPaused' \in BOOLEAN
      /\ scrollDue' \in BOOLEAN /\ replaced' \in BOOLEAN
  BY <1>1, <1>4, <1>5 DEF LiveInv, TypeOK, paused
<1>8. TypeOK'
  BY <1>1, <1>2, <1>6, <1>7, StreamAside DEF LiveInv, TypeOK
<1>9. CountInv'
  <2>1. prevCount = Len(painted) /\ (~replaced => newCount >= missed)
    BY <1>1, <1>5 DEF LiveInv, CountInv, Counted
  <2>2. ~effectDue' => prevCount' = Len(painted')
    BY <1>1, <2>1
  <2>3. ASSUME ~replaced' PROVE Counted' >= missed'
    <3>1. ~replaced
      BY <1>1, <2>3
    <3>2. CASE ~paused
      BY <1>1, <1>5, <2>1, <3>1, <3>2 DEF Counted
    <3>3. CASE paused
      <4>1. fresh = Len(rows) - prevCount /\ missed' = missed + fresh
        BY <1>1, <1>4, <2>1, <2>3, <3>3
      <4>2. Counted' = IF Len(rows) # prevCount THEN newCount + Arrivals(Len(rows) - prevCount)
                                                ELSE newCount
        BY <1>1, <2>1, <3>3 DEF Counted
      <4>3. Counted' = newCount + fresh
        BY <1>4, <1>5, <4>1, <4>2 DEF Arrivals
      <4>. QED
        BY <1>1, <1>4, <1>5, <2>1, <3>1, <4>1, <4>3
    <3>. QED
      BY <3>2, <3>3
  <2>. QED
    BY <1>1, <1>3, <2>2, <2>3 DEF CountInv, Distinct
<1>10. FollowInv'
  <2> SUFFICES ASSUME following
               PROVE  /\ ~explicitPause
                      /\ spoiled' = {} => IF scrollDue' THEN AtEnd' ELSE pinned
    BY <1>1 DEF FollowInv
  <2>1. ~explicitPause /\ (spoiled = {} => IF scrollDue THEN AtEnd ELSE pinned)
    BY DEF LiveInv, FollowInv
  <2>2. spoiled' = {} => spoiled = {} /\ (scrollDue => grown <= 0)
    <3>1. CASE grown > 0 /\ scrollDue
      <4>1. spoiled' = spoiled \cup {"outrun"}
        BY <1>1, <3>1
      <4>. QED
        BY <4>1
    <3>2. CASE ~(grown > 0 /\ scrollDue)
      <4>1. spoiled' = spoiled
        BY <1>1, <3>2
      <4>. QED
        BY <1>5, <3>2, <4>1
    <3>. QED
      BY <3>1, <3>2
  <2>3. scrollDue /\ AtEnd /\ grown <= 0 => AtEnd'
    BY <1>5, <1>6, FollowAssumption DEF AtEnd
  <2>4. below + grown < 0 => AtEnd'
    BY <1>6, FollowAssumption DEF AtEnd
  <2>. QED
    BY <1>1, <2>1, <2>2, <2>3, <2>4
<1>. QED
  BY <1>1, <1>8, <1>9, <1>10, StreamAside DEF LiveInv

LEMMA FollowEffectKeeps ==
    ASSUME LiveInv, FollowEffect
    PROVE  LiveInv'
<1> DEFINE delta == Len(painted) - prevCount
<1>1. /\ effectDue /\ effectDue' = FALSE /\ prevCount' = Len(painted)
      /\ IF delta > 0 /\ ~effectPaused
         THEN /\ below' = 0 /\ scrollDue' = (scrollDue \/ below # 0) /\ newCount' = newCount
         ELSE /\ newCount' = newCount + Arrivals(delta)
              /\ UNCHANGED <<below, scrollDue>>
      /\ UNCHANGED <<loaded, painted, listed, effectPaused, pinned, explicitPause, missed, replaced,
                     following, spoiled>>
      /\ UNCHANGED <<streamVars, live>>
  BY DEF FollowEffect, ScrollToEnd
<1>2. /\ Len(painted) \in Nat /\ delta \in Int /\ Arrivals(delta) \in Nat
      /\ below \in Nat /\ missed \in Nat /\ newCount \in Nat
      /\ scrollDue \in BOOLEAN /\ effectPaused \in BOOLEAN
  BY DEF LiveInv, TypeOK, Arrivals
<1>3. below' \in Nat /\ newCount' \in Nat /\ scrollDue' \in BOOLEAN
  <2>1. CASE delta > 0 /\ ~effectPaused
    BY <1>1, <1>2, <2>1
  <2>2. CASE ~(delta > 0 /\ ~effectPaused)
    <3>1. newCount' = newCount + Arrivals(delta) /\ below' = below /\ scrollDue' = scrollDue
      BY <1>1, <2>2
    <3> HIDE DEF delta
    <3>. QED
      BY <1>2, <3>1
  <2>. QED
    BY <2>1, <2>2
<1>4. TypeOK'
  BY <1>1, <1>2, <1>3, StreamAside DEF LiveInv, TypeOK
<1>5. CountInv'
  <2>1. Counted = IF effectPaused THEN newCount + Arrivals(delta) ELSE newCount
    BY <1>1 DEF Counted
  <2>2. Counted' = newCount'
    BY <1>1 DEF Counted
  <2>3. newCount' >= Counted
    BY <1>1, <1>2, <2>1
  <2>4. Distinct(painted') /\ prevCount' = Len(painted')
    BY <1>1 DEF LiveInv, CountInv, Distinct
  <2>5. Counted \in Nat
    BY <1>2, <2>1
  <2>6. ~replaced => newCount' >= missed
    BY <1>2, <1>3, <2>3, <2>5 DEF LiveInv, CountInv
  <2>. QED
    BY <1>1, <2>2, <2>4, <2>6 DEF CountInv, Distinct
<1>6. FollowInv'
  <2>1. (scrollDue /\ AtEnd => AtEnd') /\ (scrollDue' /\ ~scrollDue => AtEnd')
    BY <1>1, FollowAssumption DEF AtEnd
  <2>. QED
    BY <1>1, <2>1 DEF LiveInv, FollowInv
<1>. QED
  BY <1>1, <1>4, <1>5, <1>6, StreamAside DEF LiveInv

LEMMA ScrollEventKeeps ==
    ASSUME LiveInv, ScrollEvent
    PROVE  LiveInv'
<1>1. /\ scrollDue /\ scrollDue' = FALSE /\ pinned' = AtEnd
      /\ \/ newCount' = 0 /\ missed' = 0 /\ replaced' = FALSE
         \/ UNCHANGED <<newCount, missed, replaced>>
      /\ UNCHANGED <<loaded, painted, listed, effectDue, effectPaused, prevCount, explicitPause,
                     below, following, spoiled>>
      /\ UNCHANGED <<streamVars, live>>
  BY DEF ScrollEvent, SeenAtEnd, Seen
<1>2. Len(painted) \in Nat /\ prevCount \in Nat /\ Arrivals(Len(painted) - prevCount) \in Nat
  BY DEF LiveInv, TypeOK, Arrivals
<1>3. TypeOK'
  <2>1. pinned' \in BOOLEAN
    BY <1>1 DEF AtEnd
  <2>2. newCount' \in Nat /\ missed' \in Nat /\ replaced' \in BOOLEAN
    <3>1. newCount \in Nat /\ missed \in Nat /\ replaced \in BOOLEAN
      BY DEF LiveInv, TypeOK
    <3>2. newCount' \in Nat /\ missed' \in Nat
      BY <1>1, <3>1
    <3>3. replaced' = FALSE \/ replaced' = replaced
      BY <1>1
    <3>4. replaced' \in BOOLEAN
      BY <3>1, <3>3, Zenon
    <3>. QED
      BY <3>2, <3>4
  <2>3. StreamTypeOK'
    BY <1>1, StreamAside
  <2>. QED
    BY <1>1, <2>1, <2>2, <2>3 DEF LiveInv, TypeOK
<1>4. CountInv'
  <2>1. CASE newCount' = 0 /\ missed' = 0
    BY <1>1, <1>2, <2>1 DEF LiveInv, CountInv, Counted, Distinct
  <2>2. CASE UNCHANGED <<newCount, missed, replaced>>
    BY <1>1, <2>2 DEF LiveInv, CountInv, Counted, Distinct
  <2>. QED
    BY <1>1, <2>1, <2>2
<1>5. FollowInv'
  BY <1>1 DEF LiveInv, FollowInv
<1>. QED
  BY <1>1, <1>3, <1>4, <1>5, StreamAside DEF LiveInv

LEMMA CommandKeeps ==
    ASSUME LiveInv, Jump \/ Resume
    PROVE  LiveInv'
<1>1. /\ below' = 0 /\ scrollDue' = (scrollDue \/ below # 0)
      /\ explicitPause' = FALSE /\ newCount' = 0 /\ missed' = 0 /\ replaced' = FALSE
      /\ following' = TRUE /\ spoiled' = (IF below = 0 /\ ~scrollDue THEN {"still"} ELSE {})
      /\ UNCHANGED <<loaded, painted, listed, effectDue, effectPaused, prevCount, pinned>>
      /\ UNCHANGED <<streamVars, live>>
  BY DEF Jump, Resume, FollowAgain, ScrollToEnd, Seen
<1>2. Len(painted) \in Nat /\ prevCount \in Nat /\ Arrivals(Len(painted) - prevCount) \in Nat
      /\ scrollDue' \in BOOLEAN /\ spoiled' \subseteq {"outrun", "still"}
  BY <1>1 DEF LiveInv, TypeOK, Arrivals
<1>3. TypeOK'
  BY <1>1, <1>2, StreamAside DEF LiveInv, TypeOK
<1>4. CountInv'
  BY <1>1, <1>2 DEF LiveInv, CountInv, Counted, Distinct
<1>5. FollowInv'
  <2>1. spoiled' = {} => scrollDue'
    BY <1>1
  <2>2. AtEnd'
    BY <1>1, FollowAssumption DEF AtEnd
  <2>. QED
    BY <1>1, <2>1, <2>2 DEF FollowInv
<1>. QED
  BY <1>1, <1>3, <1>4, <1>5, StreamAside DEF LiveInv

LEMMA HandsOffKeeps ==
    ASSUME LiveInv, UserScroll \/ Pause
    PROVE  LiveInv'
<1>1. /\ following' = FALSE
      /\ below' \in Nat /\ scrollDue' \in BOOLEAN /\ explicitPause' \in BOOLEAN
      /\ UNCHANGED <<loaded, painted, listed, effectDue, effectPaused, prevCount, pinned, newCount,
                     missed, replaced, spoiled>>
      /\ UNCHANGED <<streamVars, live>>
  <2>1. below \in Nat /\ scrollDue \in BOOLEAN /\ explicitPause \in BOOLEAN
        /\ Len(listed) \in Nat /\ loaded \in Nat
    BY FollowAssumption DEF LiveInv, TypeOK
  <2>2. CASE UserScroll
    BY <2>1, <2>2, FollowAssumption DEF UserScroll
  <2>3. CASE Pause
    BY <2>1, <2>3 DEF Pause
  <2>. QED
    BY <2>2, <2>3
<1>2. TypeOK'
  BY <1>1, StreamAside DEF LiveInv, TypeOK
<1>3. CountInv' /\ FollowInv'
  BY <1>1 DEF LiveInv, CountInv, FollowInv, Distinct, Counted
<1>. QED
  BY <1>1, <1>2, <1>3, StreamAside DEF LiveInv

LEMMA NextLive == LiveInv /\ [Next]_vars => LiveInv'
BY StreamKeeps, PaintKeeps, FollowEffectKeeps, ScrollEventKeeps, CommandKeeps, HandsOffKeeps
   DEF Next, Follow

LEMMA LiveInvariance == Spec => []LiveInv
BY InitLive, NextLive, PTL DEF Spec

(* Every variable of the Explorer's live surface keeps its type. *)
THEOREM FollowTypeCorrect == Spec => []TypeOK
BY LiveInvariance, PTL DEF LiveInv

(* The follow mode takes nothing from the hook: in the Explorer the stream  *)
(* behaves as it does alone, so what is proved of it holds there.           *)
THEOREM StreamIsKept == Spec => StreamSpec
<1>1. Init => StreamInit
  BY DEF Init
<1>2. [Next]_vars => [StreamNext]_streamVars
  BY DEF Next, Stream, StreamNext, SwitchLive, Follow, Paint, PaintOver, FollowEffect,
     ScrollEvent, UserScroll, Jump, Resume, FollowAgain, Pause, vars
<1>. QED
  BY <1>1, <1>2, PTL DEF Spec, StreamSpec

(* The pill counts every row that came while paused, however paints,        *)
(* effects and scroll events interleave, until a row leaves the list.       *)
THEOREM PillCounts == Spec => []PillCountsArrivals
<1>1. LiveInv => PillCountsArrivals
  BY DEF LiveInv, CountInv, Counted, TypeOK, PillCountsArrivals, Settled
<1>. QED
  BY <1>1, LiveInvariance, PTL

(* A table told to follow follows, but for a row painted between a scroll   *)
(* and its event, and for a command given at the end already.               *)
THEOREM Follows == Spec => []FollowsUnlessSpoiled
<1>1. LiveInv => FollowsUnlessSpoiled
  BY DEF LiveInv, FollowInv, FollowsUnlessSpoiled, Settled, paused
<1>. QED
  BY <1>1, LiveInvariance, PTL
=============================================================================
