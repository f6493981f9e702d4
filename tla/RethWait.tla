----------------------------- MODULE RethWait ------------------------------
(***************************************************************************)
(* waitForRethContainerAt (src/test/e2e/evm_test_common.go, lines         *)
(* 133-177) with decodeSecret (98-105) and getAuthToken (108-121): a test *)
(* polls a starting Reth container, first its ETH JSON-RPC endpoint, then *)
(* its JWT-authenticated Engine API endpoint, until both answer 200 or    *)
(* the DefaultTestTimeout timer has fired.                                *)
(*                                                                         *)
(* The container comes up on its own, each endpoint at its own time.  An *)
(* HTTP call has a 100ms client timeout, so a call may fail (err) even to *)
(* an endpoint that is up, and one that is starting may answer with a     *)
(* status other than 200.  Time is abstracted: the timer may fire at any  *)
(* moment, and it has fired by the time MaxPolls sleeps have passed.      *)
(***************************************************************************)
EXTENDS Naturals

CONSTANTS
  Secret,     \* the jwtSecret argument: "valid", "malformed" or "wrong"
  MaxPolls    \* sleeps of 100ms that fit in DefaultTestTimeout

ASSUME Secret \in {"valid", "malformed", "wrong"} /\ MaxPolls \in Nat

VARIABLES
  ethUp,      \* the ETH JSON-RPC endpoint answers 200
  engineUp,   \* the Engine API endpoint answers 200 to a valid token
  fired,      \* timer.C has a value
  pc,         \* "loop", "eth", "engine", "sleep" or "done"
  polls,      \* sleeps so far
  open,       \* response bodies received and never closed
  result      \* what the function returned, "none" before

container == <<ethUp, engineUp, fired>>
vars == <<container, pc, polls, open, result>>

(* A response: a transport error (no body), or a status with a body.      *)
Responses(up) ==
  {[err |-> TRUE, status |-> 0], [err |-> FALSE, status |-> 503]}
    \cup (IF up THEN {[err |-> FALSE, status |-> 200]} ELSE {})

(* The engine rejects a token signed with a secret other than its own.    *)
EngineAccepts == engineUp /\ Secret = "valid"

(* A body is left to the garbage collector unless the code closes it.     *)
Leaked(r) == IF r.err THEN 0 ELSE 1

Return(r) ==
  /\ pc' = "done"
  /\ result' = r

-----------------------------------------------------------------------------
Init ==
  /\ ethUp = FALSE /\ engineUp = FALSE /\ fired = FALSE
  /\ pc = "loop"
  /\ polls = 0
  /\ open = 0
  /\ result = "none"

EthStarts ==
  /\ ~ethUp
  /\ ethUp' = TRUE
  /\ UNCHANGED <<engineUp, fired, pc, polls, open, result>>

EngineStarts ==
  /\ ~engineUp
  /\ engineUp' = TRUE
  /\ UNCHANGED <<ethUp, fired, pc, polls, open, result>>

TimerFires ==
  /\ ~fired
  /\ fired' = TRUE
  /\ UNCHANGED <<ethUp, engineUp, pc, polls, open, result>>

(* Mutation: the select on timer.C left out of the loop.                  *)
TopNoTimerCheck ==
  /\ pc = "loop"
  /\ pc' = "eth"
  /\ UNCHANGED <<container, polls, open, result>>

(* Mutation: a new timer per iteration, as with time.After in the select:  *)
(* the timeout it waits for never elapses.                                 *)
TopFreshTimer ==
  /\ pc = "loop"
  /\ pc' = "eth"
  /\ fired' = FALSE
  /\ UNCHANGED <<ethUp, engineUp, polls, open, result>>

(* Top of the loop: the select returns the timeout error only when the    *)
(* timer has fired; otherwise the default branch polls.                   *)
Top ==
  /\ pc = "loop"
  /\ IF fired THEN Return("timeout") ELSE pc' = "eth" /\ UNCHANGED result
  /\ UNCHANGED <<container, polls, open>>

(* Mutation: a client without Timeout: a call to an endpoint that accepts *)
(* the connection but does not answer yet returns only once it is up.     *)
PostEthNoTimeout ==
  /\ pc = "eth"
  /\ ethUp
  /\ pc' = "engine"
  /\ UNCHANGED <<container, polls, open, result>>

(* client.Post to ethURL.  On 200 the body is closed and the engine       *)
(* request is built: decodeSecret fails on a malformed secret and the     *)
(* function returns its error.  Otherwise the response is dropped and the *)
(* loop sleeps.                                                           *)
PostEth ==
  /\ pc = "eth"
  /\ \E r \in Responses(ethUp) :
       IF ~r.err /\ r.status = 200
         THEN /\ IF Secret = "malformed"
                   THEN Return("secret")
                   ELSE pc' = "engine" /\ UNCHANGED result
              /\ UNCHANGED open
         ELSE /\ pc' = "sleep"
              /\ open' = open + Leaked(r)
              /\ UNCHANGED result
  /\ UNCHANGED <<container, polls>>

(* Mutation: any answer of the engine taken as ready.                     *)
PostEngineNoStatusCheck ==
  /\ pc = "engine"
  /\ \E r \in Responses(EngineAccepts) :
       IF ~r.err
         THEN Return("nil") /\ UNCHANGED open
         ELSE pc' = "sleep" /\ open' = open + Leaked(r) /\ UNCHANGED result
  /\ UNCHANGED <<container, polls>>

(* client.Do of the engine request carrying a fresh JWT: 200 closes the  *)
(* body and returns nil; anything else falls through to the sleep.        *)
PostEngine ==
  /\ pc = "engine"
  /\ \E r \in Responses(EngineAccepts) :
       IF ~r.err /\ r.status = 200
         THEN Return("nil") /\ UNCHANGED open
         ELSE pc' = "sleep" /\ open' = open + Leaked(r) /\ UNCHANGED result
  /\ UNCHANGED <<container, polls>>

(* time.Sleep(100ms).  The last sleep that fits in the timeout takes the  *)
(* clock past it.                                                         *)
Sleep ==
  /\ pc = "sleep"
  /\ polls < MaxPolls \/ fired
  /\ pc' = "loop"
  /\ polls' = IF polls < MaxPolls THEN polls + 1 ELSE polls
  /\ UNCHANGED <<container, open, result>>

Next ==
  \/ EthStarts \/ EngineStarts \/ TimerFires
  \/ Top \/ PostEth \/ PostEngine \/ Sleep

(* The test goroutine keeps running and the Go runtime delivers the      *)
(* timer; the container is not assumed ever to come up.                   *)
Spec == Init /\ [][Next]_vars
          /\ WF_vars(Top \/ PostEth \/ PostEngine \/ Sleep)
          /\ WF_vars(TimerFires)

-----------------------------------------------------------------------------
TypeOK ==
  /\ container \in BOOLEAN \X BOOLEAN \X BOOLEAN
  /\ pc \in {"loop", "eth", "engine", "sleep", "done"}
  /\ polls \in 0..MaxPolls
  /\ open \in 0..(MaxPolls + 1)   \* at most one body per poll
  /\ result \in {"none", "nil", "timeout", "secret"}

(* A nil return means both endpoints were ready and the engine accepted   *)
(* the test's JWT, even though either call may have failed or answered   *)
(* non-200 on any earlier poll.                                           *)
ReadyMeansBothUp ==
  result = "nil" => ethUp /\ EngineAccepts

(* The wait always ends, with nil, the timeout or a secret error, even if *)
(* the container never comes up: the loop checks the timer on every      *)
(* iteration and every HTTP call is bounded by the client timeout.        *)
WaitTerminates == <>(pc = "done")

(* Every response body the loop receives is closed: the code closes it   *)
(* only on a 200 and drops the body of any other status.                  *)
NoBodyLeaked == open = 0

=============================================================================
