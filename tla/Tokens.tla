-------------------------------- MODULE Tokens --------------------------------
(***************************************************************************)
(* The token nomad-gitops presents to Nomad (src/internal/nomad/token.go,  *)
(* and NewDiffer, login and RunTokenRefresher in differ.go): exchanged for *)
(* the task's identity and renewed before it expires (mode "login"), or    *)
(* read from a file that someone else rotates (mode "file").               *)
(*                                                                         *)
(* Time is what is left of it: left of the token's life, wait until the    *)
(* refresher's timer fires, spent on the call that is under way.  Tick     *)
(* takes a unit off each, and does not pass a timer that is due or a call  *)
(* that has taken Latency.                                                 *)
(***************************************************************************)
EXTENDS Integers

CONSTANTS
    LoginSafetyMargin, LoginRetryBackoff, DefaultLoginRefresh,
    TokenPollInterval,
    Latency,     \* the longest a login takes
    StartDelay,  \* from the login at start to RunTokenRefresher: clone, first Check
    Lives,       \* how long exchanged tokens live; Never for no expiry
    Overlap,     \* how long a rotated token lives on
    Never,
    MaxFaults, MaxRotations, MaxRestarts

ASSUME TimesAssumption ==
    /\ {LoginRetryBackoff, DefaultLoginRefresh, TokenPollInterval} \subseteq Nat \ {0}
    /\ {Latency, StartDelay, MaxFaults, MaxRotations, MaxRestarts} \subseteq Nat
    /\ LoginSafetyMargin \in Nat /\ Latency < LoginSafetyMargin
    /\ Overlap \in Nat
    /\ Never \notin Nat /\ Lives \subseteq Nat \cup {Never}

VARIABLES
    mode,
    pc,      \* "down", "starting", "wait", "login"
    left,    \* of the life of the token in use; 0 without one
    wait,    \* until the timer fires, or (starting) until it is first set
    spent,   \* on the login under way
    life,    \* left when the timer was last set for this token
    failed,  \* logins, or reads of the file, that failed since
    file,    \* mode "file": "current", "new" (not yet read), "empty"
    faults, rotations, restarts

token == <<left, life, failed>>
budget == <<faults, rotations, restarts>>
vars == <<mode, pc, token, wait, spent, file, budget>>

Down == pc = "down" /\ left = 0 /\ wait = 0 /\ spent = 0 /\ life = 0 /\ failed = 0

Init ==
    /\ mode \in {"login", "file"}
    /\ Down
    /\ file = "current"
    /\ faults = 0 /\ rotations = 0 /\ restarts = 0

Less(time) == IF time \in Nat \ {0} THEN time - 1 ELSE time
Smaller(a, b) == IF a < b THEN a ELSE b

Fault == faults < MaxFaults /\ faults' = faults + 1 /\ UNCHANGED <<rotations, restarts>>

-----------------------------------------------------------------------------
(* Mode "login".                                                           *)

NextLoginDelayHalf(remaining) == \* mutant: half the remaining life, whatever the margin
    IF remaining = Never THEN DefaultLoginRefresh ELSE remaining \div 2

NextLoginDelayUnclamped(remaining) == \* mutant: below the margin it is negative
    IF remaining = Never THEN DefaultLoginRefresh
    ELSE Smaller(remaining \div 2, remaining - LoginSafetyMargin)

\* nextLoginDelay: half the remaining life, but LoginSafetyMargin before its end.
NextLoginDelay(remaining) ==
    IF remaining = Never THEN DefaultLoginRefresh
    ELSE IF remaining < LoginSafetyMargin THEN 0
    ELSE Smaller(remaining \div 2, remaining - LoginSafetyMargin)

\* The login in NewDiffer; one that fails does not keep the process from starting.
Start ==
    /\ pc = "down" /\ mode = "login"
    /\ pc' = "starting"
    /\ \/ left' \in Lives /\ failed' = 0 /\ UNCHANGED budget
       \/ left' = 0 /\ failed' = 1 /\ Fault
    /\ wait' \in 0 .. StartDelay
    /\ UNCHANGED <<mode, spent, life, file>>

\* RunTokenRefresher sets the first timer, with what is left by then.
StartRefresher ==
    /\ pc = "starting" /\ wait = 0
    /\ pc' = "wait"
    /\ wait' = IF mode = "file" THEN TokenPollInterval
               ELSE IF failed = 1 THEN LoginRetryBackoff
               ELSE NextLoginDelay(left)
    /\ life' = left
    /\ UNCHANGED <<mode, left, failed, spent, file, budget>>

Fire ==
    /\ pc = "wait" /\ wait = 0 /\ mode = "login"
    /\ pc' = "login" /\ spent' = 0
    /\ UNCHANGED <<mode, token, wait, file, budget>>

\* The exchange succeeds; its token has lived since some moment of the call.
LoggedIn ==
    /\ pc = "login"
    /\ \E full \in Lives, age \in 0 .. spent :
        /\ full \in Nat => age <= full
        /\ left' = IF full = Never THEN Never ELSE full - age
    /\ life' = left' /\ failed' = 0
    /\ wait' = NextLoginDelay(left')
    /\ pc' = "wait" /\ spent' = 0
    /\ UNCHANGED <<mode, file, budget>>

LoginFailsOnce == \* mutant: the timer is not set again
    /\ pc = "login"
    /\ Fault
    /\ failed' = failed + 1
    /\ wait' = Never
    /\ pc' = "wait" /\ spent' = 0
    /\ UNCHANGED <<mode, left, life, file>>

\* The identity's file cannot be read, is empty, or Nomad refuses or is away: the
\* token in use is kept.
LoginFails ==
    /\ pc = "login"
    /\ Fault
    /\ failed' = failed + 1
    /\ wait' = LoginRetryBackoff
    /\ pc' = "wait" /\ spent' = 0
    /\ UNCHANGED <<mode, left, life, file>>

-----------------------------------------------------------------------------
(* Mode "file".  A token dies Overlap after the file got its successor.    *)

\* resolveNomadToken: a file that cannot be read keeps the process from
\* starting, an empty one leaves it without a token.
StartWithFile ==
    /\ pc = "down" /\ mode = "file"
    /\ pc' = "starting"
    /\ left' = IF file = "empty" THEN 0 ELSE Never
    /\ failed' = 0
    /\ wait' \in 0 .. StartDelay
    /\ file' = IF file = "new" THEN "current" ELSE file
    /\ UNCHANGED <<mode, spent, life, budget>>

\* A writer truncates the file, and then writes the next token.
Truncate ==
    /\ mode = "file" /\ file = "current" /\ rotations < MaxRotations
    /\ rotations' = rotations + 1
    /\ file' = "empty"
    /\ UNCHANGED <<mode, pc, token, wait, spent, faults, restarts>>

WriteToken ==
    /\ file = "empty"
    /\ file' = "new"
    /\ left' = IF left = Never THEN Overlap ELSE left
    /\ life' = IF left = Never THEN Overlap ELSE life
    /\ failed' = 0
    /\ UNCHANGED <<mode, pc, wait, spent, budget>>

PollAnything == \* mutant: an empty file clears the token
    /\ pc = "wait" /\ wait = 0 /\ mode = "file"
    /\ wait' = TokenPollInterval
    /\ left' = IF file = "new" THEN Never ELSE IF file = "empty" THEN 0 ELSE left
    /\ life' = IF file = "new" THEN Never ELSE life
    /\ failed' = IF file = "new" THEN 0 ELSE failed
    /\ file' = IF file = "new" THEN "current" ELSE file
    /\ UNCHANGED <<mode, pc, spent, budget>>

\* refreshTokenFile: a file that cannot be read, or is empty, changes nothing.
Poll ==
    /\ pc = "wait" /\ wait = 0 /\ mode = "file"
    /\ wait' = TokenPollInterval
    /\ \/ /\ file = "new"
          /\ left' = Never /\ life' = Never /\ failed' = 0 /\ file' = "current"
          /\ UNCHANGED budget
       \/ file # "new" /\ UNCHANGED <<token, file, budget>>
       \/ Fault /\ failed' = failed + 1 /\ UNCHANGED <<left, life, file>>
    /\ UNCHANGED <<mode, pc, spent>>

-----------------------------------------------------------------------------
Tick ==
    /\ pc # "down"
    /\ pc \in {"starting", "wait"} => wait # 0
    /\ pc = "login" => spent < Latency
    /\ left' = Less(left)
    /\ wait' = Less(wait)
    /\ spent' = IF pc = "login" THEN spent + 1 ELSE 0
    /\ UNCHANGED <<mode, pc, life, failed, file, budget>>

Restart ==
    /\ pc # "down" /\ restarts < MaxRestarts
    /\ restarts' = restarts + 1
    /\ pc' = "down" /\ left' = 0 /\ wait' = 0 /\ spent' = 0 /\ life' = 0 /\ failed' = 0
    /\ UNCHANGED <<mode, file, faults, rotations>>

Login == Fire \/ LoggedIn \/ LoginFails
Process == Start \/ StartWithFile \/ StartRefresher \/ Login \/ Poll

Next == Process \/ WriteToken \/ Truncate \/ Tick \/ Restart

Spec == Init /\ [][Next]_vars

\* Time passes, calls return, and whoever rotates the file finishes.
FairSpec == Spec /\ WF_vars(Process) /\ WF_vars(Tick) /\ WF_vars(WriteToken)
-----------------------------------------------------------------------------
Times == Nat \cup {Never}

\* Types; the timer is not further off than what set it, and it is a timer: a
\* token that is in use has an end to wait for, or none.
TypeOK ==
    /\ mode \in {"login", "file"} /\ pc \in {"down", "starting", "wait", "login"}
    /\ left \in Times /\ life \in Times /\ wait \in Nat
    /\ spent \in 0 .. Latency
    /\ failed \in Nat
    /\ file \in {"current", "new", "empty"}
    /\ mode = "login" => file = "current"
    /\ mode = "file" => pc # "login" /\ wait <= TokenPollInterval + StartDelay

\* A token that an exchange gave outlives the logins that fail while it is in
\* use, if half its life is long enough for their delays; and when none fails,
\* if it lives longer than a login takes: the margin does its work for the
\* shortest of tokens (token.go:164).
LoginOutlivesRetries ==
    mode = "login" /\ pc \in {"wait", "login"} =>
        \/ left # 0
        \/ failed = 0 /\ life <= Latency
        \/ failed # 0 /\ life <= 2 * (failed * (Latency + LoginRetryBackoff) + Latency)

\* A token read from the file is given up only for a newer one, and a rotated one
\* outlives the reads that fail, if it lives on for as many poll intervals.
FileOutlivesPolls ==
    mode = "file" /\ pc = "wait" =>
        left # 0 \/ (life # Never /\ life <= (failed + 1) * TokenPollInterval)

\* However the process starts, and whatever failed: once nothing fails any more
\* it has a valid token, for good.  (Tokens live longer than two logins take.)
TokenComesBack == <>[](left # 0)
===============================================================================
