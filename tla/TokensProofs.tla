----------------------------- MODULE TokensProofs -----------------------------
(***************************************************************************)
(* Tokens keeps its types, an exchanged token outlives the logins that     *)
(* fail, and a token from a file the reads that fail, for any margins,     *)
(* delays, lives and latency.                                              *)
(*                                                                         *)
(* The argument: what is gone of a token's life is the first delay, the    *)
(* failed attempts and their delays, and the time on the clock that runs   *)
(* now (LoginClock, FileClock).                                            *)
(***************************************************************************)
EXTENDS Tokens, TLAPS

Attempt == Latency + LoginRetryBackoff

\* What has passed since the timer was set for this token, at most.
LoginClock ==
    mode = "login" /\ pc \in {"wait", "login"} =>
        /\ left = Never <=> life = Never
        /\ pc = "wait" /\ life # Never =>
             life + wait <= left + NextLoginDelay(life) + failed * Attempt
        /\ pc = "login" /\ life # Never =>
             life <= left + NextLoginDelay(life) + failed * Attempt + spent

FileClock ==
    mode = "file" /\ pc = "wait" =>
        /\ left = Never <=> life = Never
        /\ wait <= TokenPollInterval
        /\ life # Never =>
             /\ file = "new" \/ life = 0
             /\ life + wait <= left + (failed + 1) * TokenPollInterval

\* Between the first token and the first timer.
Starting ==
    pc = "starting" =>
        /\ mode = "login" => failed \in {0, 1} /\ (failed = 1 => left = 0)
        /\ mode = "file" => left = Never \/ file = "new" \/ left = 0

IInv == TypeOK /\ LoginClock /\ FileClock /\ Starting

-----------------------------------------------------------------------------
\* What the assumption says of each time.
LEMMA Constants ==
    /\ LoginRetryBackoff \in Nat /\ DefaultLoginRefresh \in Nat /\ TokenPollInterval \in Nat
    /\ Latency \in Nat /\ StartDelay \in Nat /\ Overlap \in Nat
    /\ LoginSafetyMargin \in Nat /\ Latency < LoginSafetyMargin
    /\ Never \notin Nat /\ Attempt \in Nat
  BY TimesAssumption DEF TimesAssumption, Attempt

\* One more of a product.
LEMMA OneMore ==
  ASSUME NEW k \in Nat, NEW c \in Nat
  PROVE  k * c \in Nat /\ (k + 1) * c = k * c + c
  OBVIOUS

\* A clock stops at zero, one that never ends stays.
LEMMA LessIsLess ==
  ASSUME NEW t \in Times
  PROVE  /\ Less(t) \in Times
         /\ Less(t) = Never <=> t = Never
         /\ t \in Nat => Less(t) \in Nat /\ Less(t) <= t /\ t <= Less(t) + 1
         /\ t \in Nat /\ t # 0 => Less(t) + 1 = t
  BY Constants DEF Less, Times

\* The timer is set to a time; half the life, but the margin before its end.
LEMMA DelayOK ==
  ASSUME NEW t \in Times
  PROVE  /\ NextLoginDelay(t) \in Nat
         /\ t \in Nat /\ t < LoginSafetyMargin => NextLoginDelay(t) = 0
         /\ t \in Nat /\ LoginSafetyMargin <= t =>
              /\ NextLoginDelay(t) + LoginSafetyMargin <= t
              /\ 2 * NextLoginDelay(t) <= t
  <1>1. CASE t = Never
    BY <1>1, Constants DEF NextLoginDelay
  <1>2. CASE t \in Nat /\ t < LoginSafetyMargin
    BY <1>2, Constants DEF NextLoginDelay
  <1>3. CASE t \in Nat /\ LoginSafetyMargin <= t
    <2>1. t \div 2 \in Nat /\ 2 * (t \div 2) <= t
      BY <1>3
    <2>2. NextLoginDelay(t) = Smaller(t \div 2, t - LoginSafetyMargin)
      BY <1>3, Constants DEF NextLoginDelay
    <2>3. CASE t \div 2 < t - LoginSafetyMargin
      BY <1>3, <2>1, <2>2, <2>3, Constants DEF Smaller
    <2>4. CASE ~(t \div 2 < t - LoginSafetyMargin)
      BY <1>3, <2>1, <2>2, <2>4, Constants DEF Smaller
    <2> QED
      BY <2>3, <2>4
  <1> QED
    BY <1>1, <1>2, <1>3, Constants DEF Times

-----------------------------------------------------------------------------
(* The steps.                                                              *)

\* At first no clock runs.
LEMMA InitIInv == Init => IInv
  BY Constants DEF Init, Down, IInv, TypeOK, LoginClock, FileClock, Starting, Times

\* The first token, or none after a login that failed.
LEMMA StartStep == ASSUME IInv, Start PROVE IInv'
  <1>1. TypeOK'
    <2>1. left' \in Times /\ failed' \in Nat
      <3>1. Lives \subseteq Times
        BY TimesAssumption DEF TimesAssumption, Times
      <3>2. CASE left' \in Lives /\ failed' = 0
        BY <3>1, <3>2
      <3>3. CASE left' = 0 /\ failed' = 1
        BY <3>3 DEF Times
      <3> QED
        BY <3>2, <3>3 DEF Start
    <2>2. wait' \in Nat /\ mode = "login"
      BY Constants DEF Start
    <2> QED
      BY <2>1, <2>2 DEF IInv, TypeOK, Start
  <1>2. Starting'
    BY DEF IInv, TypeOK, Start, Starting
  <1> QED
    BY <1>1, <1>2 DEF IInv, LoginClock, FileClock, Start

\* The token of the file is read, or none is there.
LEMMA StartWithFileStep == ASSUME IInv, StartWithFile PROVE IInv'
  <1>1. TypeOK'
    BY Constants DEF IInv, TypeOK, StartWithFile, Times
  <1>2. Starting'
    BY DEF IInv, TypeOK, StartWithFile, Starting
  <1> QED
    BY <1>1, <1>2 DEF IInv, LoginClock, FileClock, StartWithFile

\* The clock of a token whose timer is set now.
LEMMA FreshClock ==
  ASSUME NEW t \in Nat
  PROVE  t + NextLoginDelay(t) <= t + NextLoginDelay(t) + 0 * Attempt
  BY DelayOK, OneMore, Constants DEF Times

\* The refresher sets its first timer.
LEMMA StartRefresherStep == ASSUME IInv, StartRefresher PROVE IInv'
  <1> USE DEF IInv, StartRefresher
  <1>1. NextLoginDelay(left) \in Nat
    BY DelayOK DEF TypeOK
  <1>2. TypeOK'
    BY <1>1, Constants DEF TypeOK
  <1>3. LoginClock'
    <2> SUFFICES ASSUME mode = "login", left # Never
                 PROVE  left + wait' <= left + NextLoginDelay(left) + failed * Attempt
      BY DEF LoginClock, TypeOK
    <2>1. left \in Nat /\ failed \in {0, 1}
      BY DEF TypeOK, Times, Starting
    <2>2. CASE failed = 0
      BY <2>1, <2>2, FreshClock
    <2>3. CASE failed = 1
      <3>1. wait' = LoginRetryBackoff
        BY <2>3, <1>1
      <3>2. 1 * Attempt = Attempt
        BY Constants
      <3> QED
        BY <2>1, <2>3, <1>1, <3>1, <3>2, Constants DEF Attempt
    <2> QED
      BY <2>1, <2>2, <2>3
  <1>4. FileClock'
    <2> SUFFICES ASSUME mode = "file"
                 PROVE  /\ wait' <= TokenPollInterval
                        /\ left # Never =>
                             /\ file = "new" \/ left = 0
                             /\ left + wait' <= left + (failed + 1) * TokenPollInterval
      BY DEF FileClock, TypeOK
    <2>1. wait' = TokenPollInterval
      OBVIOUS
    <2>2. (failed + 1) * TokenPollInterval = failed * TokenPollInterval + TokenPollInterval
          /\ failed * TokenPollInterval \in Nat
      BY OneMore, Constants DEF TypeOK
    <2>3. left # Never => file = "new" \/ left = 0
      BY DEF Starting
    <2>4. left # Never => left \in Nat
      BY DEF TypeOK, Times
    <2> QED
      BY <2>1, <2>2, <2>3, <2>4, Constants
  <1>5. Starting'
    BY DEF Starting
  <1> QED
    BY <1>2, <1>3, <1>4, <1>5

\* The timer fires and a login begins.
LEMMA FireStep == ASSUME IInv, Fire PROVE IInv'
  <1> USE DEF IInv, Fire
  <1>1. TypeOK'
    BY Constants DEF TypeOK, token
  <1>2. LoginClock'
    <2>1. failed * Attempt \in Nat
      BY OneMore, Constants DEF TypeOK
    <2>2. life # Never => NextLoginDelay(life) \in Nat /\ life \in Nat /\ left \in Nat
      BY DelayOK DEF TypeOK, Times, LoginClock
    <2> QED
      BY <2>1, <2>2 DEF LoginClock, token, TypeOK
  <1> QED
    BY <1>1, <1>2 DEF FileClock, Starting

\* A new life begins, and its timer is set.
LEMMA LoggedInStep == ASSUME IInv, LoggedIn PROVE IInv'
  <1> USE DEF IInv, LoggedIn
  <1>1. left' \in Times
    BY Constants, TimesAssumption DEF Times, TimesAssumption, TypeOK
  <1>2. NextLoginDelay(left') \in Nat
    BY <1>1, DelayOK
  <1>3. TypeOK'
    BY <1>1, <1>2, Constants DEF TypeOK
  <1>4. LoginClock'
    <2> SUFFICES ASSUME left' # Never
                 PROVE  left' + NextLoginDelay(left') <= left' + NextLoginDelay(left') + 0 * Attempt
      BY DEF LoginClock
    <2> QED
      BY <1>1, FreshClock DEF Times
  <1> QED
    BY <1>3, <1>4 DEF FileClock, Starting, TypeOK

\* The attempt and the delay after it are paid from the life.
LEMMA LoginFailsStep == ASSUME IInv, LoginFails PROVE IInv'
  <1> USE DEF IInv, LoginFails
  <1>1. TypeOK'
    BY Constants DEF TypeOK, Fault
  <1>2. LoginClock'
    <2> SUFFICES ASSUME mode = "login", life # Never
                 PROVE  life + LoginRetryBackoff
                          <= left + NextLoginDelay(life) + (failed + 1) * Attempt
      BY DEF LoginClock
    <2>1. /\ failed * Attempt \in Nat
          /\ (failed + 1) * Attempt = failed * Attempt + Attempt
      BY OneMore, Constants DEF TypeOK
    <2>2. NextLoginDelay(life) \in Nat /\ life \in Nat /\ left \in Nat
      BY DelayOK DEF TypeOK, Times, LoginClock
    <2>3. life <= left + NextLoginDelay(life) + failed * Attempt + spent
      BY DEF LoginClock
    <2>4. spent \in Nat /\ spent <= Latency
      BY Constants DEF TypeOK
    <2> QED
      BY <2>1, <2>2, <2>3, <2>4, Constants DEF Attempt
  <1> QED
    BY <1>1, <1>2 DEF FileClock, Starting, TypeOK

\* The writer empties the file first.
LEMMA TruncateStep == ASSUME IInv, Truncate PROVE IInv'
  BY DEF IInv, TypeOK, LoginClock, FileClock, Starting, Truncate, token

\* The file holds a new token.
LEMMA WriteTokenStep == ASSUME IInv, WriteToken PROVE IInv'
  <1> USE DEF IInv, WriteToken
  <1>1. TypeOK' /\ mode = "file"
    BY Constants DEF TypeOK, Times
  <1>2. FileClock'
    <2> SUFFICES ASSUME pc = "wait"
                 PROVE  /\ left' = Never <=> life' = Never
                        /\ life' + wait <= left' + (0 + 1) * TokenPollInterval
      BY <1>1 DEF FileClock
    <2>1. wait \in Nat /\ wait <= TokenPollInterval
      BY <1>1 DEF FileClock, TypeOK
    <2>2. (0 + 1) * TokenPollInterval = TokenPollInterval
      BY Constants
    <2>3. CASE left = Never
      BY <1>1, <2>1, <2>2, <2>3, Constants DEF FileClock
    <2>4. CASE left # Never
      <3>1. life = 0 /\ left \in Nat
        BY <1>1, <2>4 DEF FileClock, TypeOK, Times
      <3> QED
        BY <2>1, <2>2, <2>4, <3>1, Constants
    <2> QED
      BY <2>3, <2>4
  <1>3. Starting'
    BY <1>1 DEF Starting, TypeOK
  <1> QED
    BY <1>1, <1>2, <1>3 DEF LoginClock

\* A poll takes a new token, or waits for the next.
LEMMA PollStep == ASSUME IInv, Poll PROVE IInv'
  <1> USE DEF IInv, Poll
  <1>1. TypeOK'
    BY Constants DEF TypeOK, Times, token, Fault
  <1>2. FileClock'
    <2>1. CASE file = "new" /\ life' = Never /\ left' = Never
      BY <2>1, Constants DEF FileClock
    <2>2. CASE file # "new" /\ UNCHANGED <<token, file>>
      <3> SUFFICES ASSUME life # Never
                   PROVE  life = 0 /\ 0 + TokenPollInterval <= left + (failed + 1) * TokenPollInterval
        BY <2>2, Constants DEF FileClock, token
      <3>1. life = 0 /\ left \in Nat
        BY <2>2 DEF FileClock, TypeOK, Times
      <3>2. /\ failed * TokenPollInterval \in Nat
            /\ (failed + 1) * TokenPollInterval = failed * TokenPollInterval + TokenPollInterval
        BY OneMore, Constants DEF TypeOK
      <3> QED
        BY <3>1, <3>2, Constants
    <2>3. CASE failed' = failed + 1 /\ UNCHANGED <<left, life, file>>
      <3> SUFFICES ASSUME life # Never
                   PROVE  life + TokenPollInterval <= left + ((failed + 1) + 1) * TokenPollInterval
        BY <2>3, Constants DEF FileClock
      <3>1. life \in Nat /\ left \in Nat
        BY DEF FileClock, TypeOK, Times
      <3>2. life <= left + (failed + 1) * TokenPollInterval
        BY <3>1 DEF FileClock
      <3>3. /\ (failed + 1) * TokenPollInterval \in Nat
            /\ ((failed + 1) + 1) * TokenPollInterval
                 = (failed + 1) * TokenPollInterval + TokenPollInterval
        <4>1. failed + 1 \in Nat
          BY DEF TypeOK
        <4> QED
          BY <4>1, OneMore, Constants
      <3> QED
        BY <3>1, <3>2, <3>3, Constants
    <2> QED
      BY <2>1, <2>2, <2>3
  <1> QED
    BY <1>1, <1>2 DEF LoginClock, Starting, TypeOK

\* A unit taken off the life and off the timer, or put on the login.
LEMMA TickMoves ==
  ASSUME NEW l \in Nat, NEW a \in Nat, NEW w \in Nat, NEW b \in Nat, w # 0,
         l + w <= a + b
  PROVE  l + Less(w) <= Less(a) + b
  <1>1. a \in Times /\ w \in Times
    BY DEF Times
  <1>2. /\ Less(a) \in Nat /\ a <= Less(a) + 1
        /\ Less(w) \in Nat /\ Less(w) + 1 = w
    BY <1>1, LessIsLess
  <1>3. PICK x \in Nat, y \in Nat : x = Less(a) /\ y = Less(w)
    BY <1>2
  <1> QED
    BY <1>2, <1>3

\* A unit is on the clock of the login, or of the timer.
LEMMA TickSpends ==
  ASSUME NEW l \in Nat, NEW a \in Nat, NEW n \in Nat, NEW b \in Nat,
         l <= a + b + n
  PROVE  l <= Less(a) + b + (n + 1)
  <1>1. Less(a) \in Nat /\ a <= Less(a) + 1
    BY LessIsLess DEF Times
  <1> QED
    BY <1>1

\* A unit of time passes.
LEMMA TickStep == ASSUME IInv, Tick PROVE IInv'
  <1> USE DEF IInv, Tick
  <1>1. /\ left' \in Times /\ wait' \in Nat /\ wait' <= wait
        /\ left' = Never <=> left = Never
        /\ left = 0 => left' = 0
    BY LessIsLess, Constants DEF TypeOK, Times
  <1>2. TypeOK'
    <2>1. spent' \in 0 .. Latency
      BY Constants DEF TypeOK
    <2>2. mode = "file" => wait' <= TokenPollInterval + StartDelay
      BY <1>1, Constants DEF TypeOK
    <2> QED
      BY <1>1, <2>1, <2>2 DEF TypeOK
  <1>3. LoginClock'
    <2> SUFFICES ASSUME mode = "login", pc \in {"wait", "login"}, life # Never
                 PROVE  /\ pc = "wait" =>
                             life + wait' <= left' + NextLoginDelay(life) + failed * Attempt
                        /\ pc = "login" =>
                             life <= left' + NextLoginDelay(life) + failed * Attempt + spent'
      BY <1>1 DEF LoginClock
    <2>1. NextLoginDelay(life) \in Nat /\ life \in Nat /\ left \in Nat /\ wait \in Nat
      BY DelayOK DEF TypeOK, Times, LoginClock
    <2>2. failed * Attempt \in Nat
      BY OneMore, Constants DEF TypeOK
    <2>3. PICK b \in Nat : b = NextLoginDelay(life) + failed * Attempt
      BY <2>1, <2>2
    <2>4. CASE pc = "wait"
      <3>1. life + wait <= left + b
        BY <2>1, <2>2, <2>3, <2>4 DEF LoginClock
      <3>2. life + Less(wait) <= Less(left) + b
        BY <2>1, <2>4, <3>1, TickMoves
      <3>3. Less(left) \in Nat
        BY <2>1, LessIsLess DEF Times
      <3> QED
        BY <2>1, <2>2, <2>3, <2>4, <3>2, <3>3
    <2>5. CASE pc = "login"
      <3>1. spent \in Nat
        BY Constants DEF TypeOK
      <3>2. life <= left + b + spent
        BY <2>1, <2>2, <2>3, <2>5, <3>1 DEF LoginClock
      <3>3. life <= Less(left) + b + (spent + 1)
        BY <2>1, <3>1, <3>2, TickSpends
      <3>4. Less(left) \in Nat
        BY <2>1, LessIsLess DEF Times
      <3> QED
        BY <2>1, <2>2, <2>3, <2>5, <3>1, <3>3, <3>4
    <2> QED
      BY <2>4, <2>5
  <1>4. FileClock'
    <2> SUFFICES ASSUME mode = "file", pc = "wait"
                 PROVE  /\ wait' <= TokenPollInterval
                        /\ life # Never =>
                             life + wait' <= left' + (failed + 1) * TokenPollInterval
      BY <1>1 DEF FileClock
    <2>1. wait \in Nat /\ wait <= TokenPollInterval
      BY DEF FileClock, TypeOK
    <2>2. ASSUME life # Never
          PROVE  life + Less(wait) <= Less(left) + (failed + 1) * TokenPollInterval
      <3>1. life \in Nat /\ left \in Nat
        BY <2>2 DEF FileClock, TypeOK, Times
      <3>2. (failed + 1) * TokenPollInterval \in Nat
        BY OneMore, Constants DEF TypeOK
      <3>3. life + wait <= left + (failed + 1) * TokenPollInterval
        BY <2>2 DEF FileClock
      <3> QED
        BY <2>1, <3>1, <3>2, <3>3, TickMoves
    <2> QED
      BY <1>1, <2>1, <2>2, Constants
  <1>5. Starting'
    BY <1>1 DEF Starting
  <1> QED
    BY <1>2, <1>3, <1>4, <1>5

\* The process starts again.
LEMMA RestartStep == ASSUME IInv, Restart PROVE IInv'
  BY Constants DEF IInv, TypeOK, LoginClock, FileClock, Starting, Restart, Times

\* Every step keeps the clocks.
LEMMA StepIInv == IInv /\ [Next]_vars => IInv'
  <1> SUFFICES ASSUME IInv, [Next]_vars PROVE IInv'
    OBVIOUS
  <1>1. CASE UNCHANGED vars
    BY <1>1 DEF IInv, TypeOK, LoginClock, FileClock, Starting, vars, token
  <1>2. CASE Process
    BY <1>2, StartStep, StartWithFileStep, StartRefresherStep, FireStep, LoggedInStep,
       LoginFailsStep, PollStep DEF Process, Login
  <1>3. CASE Next /\ ~Process
    BY <1>3, WriteTokenStep, TruncateStep, TickStep, RestartStep DEF Next
  <1> QED
    BY <1>1, <1>2, <1>3

-----------------------------------------------------------------------------
(* What it is for.                                                         *)

\* A token is at its end only when the failures alone have used up half of it.
LEMMA Outlives == IInv => LoginOutlivesRetries
  <1> SUFFICES ASSUME IInv, mode = "login", pc \in {"wait", "login"}, left = 0
               PROVE  \/ failed = 0 /\ life <= Latency
                      \/ failed # 0 /\ life <= 2 * (failed * Attempt + Latency)
    BY DEF LoginOutlivesRetries, Attempt
  <1>1. PICK d \in Nat, k \in Nat : d = NextLoginDelay(life) /\ k = failed * Attempt
    BY DelayOK, OneMore, Constants DEF IInv, TypeOK
  <1>2. life \in Nat /\ wait \in Nat /\ spent \in Nat /\ spent <= Latency
    BY Constants DEF IInv, TypeOK, LoginClock, Times
  <1>3. life <= d + k + Latency
    <2>1. CASE pc = "wait"
      <3>1. life + wait <= 0 + d + k
        BY <1>1, <1>2, <2>1, Constants DEF IInv, LoginClock
      <3> QED
        BY <1>1, <1>2, <3>1, Constants
    <2>2. CASE pc = "login"
      <3>1. life <= 0 + d + k + spent
        BY <1>1, <1>2, <2>2, Constants DEF IInv, LoginClock
      <3> QED
        BY <1>1, <1>2, <3>1, Constants
    <2> QED
      BY <2>1, <2>2
  <1>4. failed = 0 => k = 0
    BY <1>1, Constants
  <1>5. CASE life < LoginSafetyMargin
    <2>1. d = 0
      BY <1>1, <1>2, <1>5, DelayOK DEF Times
    <2> QED
      BY <1>1, <1>2, <1>3, <1>4, <2>1, Constants
  <1>6. CASE LoginSafetyMargin <= life
    <2>1. d + LoginSafetyMargin <= life /\ 2 * d <= life
      BY <1>1, <1>2, <1>6, DelayOK DEF Times
    <2> QED
      BY <1>1, <1>2, <1>3, <1>4, <2>1, Constants
  <1> QED
    BY <1>2, <1>5, <1>6, Constants

\* A token of a file is at its end only when the failed polls alone have used up its overlap.
LEMMA FileOutlives == IInv => FileOutlivesPolls
  <1> SUFFICES ASSUME IInv, mode = "file", pc = "wait", left = 0
               PROVE  life # Never /\ life <= (failed + 1) * TokenPollInterval
    BY DEF FileOutlivesPolls
  <1>1. life # Never /\ life \in Nat /\ wait \in Nat
    BY Constants DEF IInv, TypeOK, FileClock, Times
  <1>2. life + wait <= 0 + (failed + 1) * TokenPollInterval
    BY <1>1 DEF IInv, FileClock
  <1>3. (failed + 1) * TokenPollInterval \in Nat
    BY OneMore, Constants DEF IInv, TypeOK
  <1> QED
    BY <1>1, <1>2, <1>3

\* The clocks keep their types, for every choice of times.
THEOREM TypeCorrect == Spec => []TypeOK
  BY InitIInv, StepIInv, PTL DEF Spec, IInv

\* For every margin longer than a login takes, every backoff and every life, an
\* exchanged token outlives the failed logins that fit into half its life.
THEOREM RenewedInTime == Spec => []LoginOutlivesRetries
  BY InitIInv, StepIInv, Outlives, PTL DEF Spec

\* A token from a file outlives as many failed reads as its overlap has polls.
THEOREM RotatedInTime == Spec => []FileOutlivesPolls
  BY InitIInv, StepIInv, FileOutlives, PTL DEF Spec
===============================================================================
