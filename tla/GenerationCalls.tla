--------------------------- MODULE GenerationCalls ---------------------------
(***************************************************************************)
(* LeaderboardRun with the calls of its model provider in detail:          *)
(* generate_response of bench/leaderboard/providers.py, its OpenAI path    *)
(* (_openai_compatible) and its Anthropic path (_anthropic,                *)
(* _post_with_retry).                                                      *)
(*                                                                         *)
(* One generation is up to MaxAttempts requests with pauses in between.    *)
(* What a response leads to depends on the path: another request, a row    *)
(* for an inconclusive attempt, or an exception that ends the session.     *)
(***************************************************************************)
EXTENDS LeaderboardRun, FiniteSetsExt

CONSTANTS
  Anthropic,    \* the models given as anthropic:<model>
  MaxAttempts,  \* IOTBENCH_PROVIDER_MAX_ATTEMPTS
  RetryAfters,  \* values of the header Retry-After in seconds, or NoSeconds
  NoSeconds     \* no such header, or a date

MaxDelay == 30
\* answer: text to extract a submission from   noText: JSON without any, or an
\* error payload   notObject: JSON that is no object   corrupt: no JSON
\* throttled: a retryable HTTP status   refused: any other HTTP error
\* transport: no response, or half of one   undecodable: not UTF-8
Responses == {"answer", "noText", "notObject", "corrupt", "throttled",
              "refused", "transport", "undecodable"}

ASSUME AnthropicAssumption == Anthropic \subseteq Models
ASSUME AttemptsAssumption == MaxAttempts \in Nat \ {0}
ASSUME RetryAfterAssumption ==
  NoSeconds \notin Int /\ RetryAfters \subseteq Int \cup {NoSeconds}

VARIABLES
  call,     \* the generation in progress: idle, a request sent, or a pause
  attempt,  \* the number of its last request, num_model_calls of its row
  waited    \* history: the seconds it has paused

callVars == <<call, attempt, waited>>
allVars == <<vars, callVars>>

\* Which responses are worth another request, end the generation at once, or
\* end the session.
OnAnthropic == request.model \in Anthropic
Retryable ==
  {"throttled", "transport"} \cup
  IF OnAnthropic THEN {} ELSE {"corrupt", "noText", "notObject"}
Final == IF OnAnthropic THEN {"corrupt", "noText"} ELSE {}
Aborting ==
  {"refused", "undecodable"} \cup IF OnAnthropic THEN {"notObject"} ELSE {}

\* Two to the n.
Backoff[n \in 0..MaxAttempts] == IF n = 0 THEN 1 ELSE 2 * Backoff[n - 1]
\* Mutant: a Retry-After is honoured as it is.
RetryDelay_Uncapped(header) ==
  IF header # NoSeconds THEN Max({0, header}) ELSE Min({MaxDelay, Backoff[attempt - 1]})
RetryDelay(header) ==
  IF header # NoSeconds THEN Min({MaxDelay, Max({0, header})})
  ELSE Min({MaxDelay, Backoff[attempt - 1]})

CallInit ==
  Init /\ call = "idle" /\ attempt = 1 /\ waited = 0
\* num_model_calls lives until its row is written.
KeepCount == attempt' = IF pc' \in {"evaluate", "append"} THEN attempt ELSE 1
Over == call' = "idle" /\ waited' = 0 /\ KeepCount

Send ==
  /\ pc = "generate" /\ call = "idle"
  /\ call' = "sent" /\ attempt' = 1 /\ waited' = 0
  /\ UNCHANGED vars
\* Extraction finds a submission in the text or does not.
Answered ==
  /\ call = "sent" /\ (Generated \/ FormatFails)
  /\ Over
\* Mutant: one request more than allowed.
Pause_OneMore(response) ==
  /\ call = "sent" /\ response \in Retryable /\ attempt <= MaxAttempts
  /\ waited' = waited + RetryDelay(NoSeconds)
  /\ call' = "waiting" /\ UNCHANGED <<vars, attempt>>
Pause(response) ==
  /\ call = "sent" /\ response \in Retryable /\ attempt < MaxAttempts
  /\ \E header \in IF response = "throttled" THEN RetryAfters ELSE {NoSeconds} :
       waited' = waited + RetryDelay(header)
  /\ call' = "waiting" /\ UNCHANGED <<vars, attempt>>
Resend ==
  /\ call = "waiting" /\ call' = "sent" /\ attempt' = attempt + 1
  /\ UNCHANGED <<vars, waited>>
\* ProviderFailure becomes a row.
GiveUp(response) ==
  /\ call = "sent"
  /\ response \in Final \/ (response \in Retryable /\ attempt = MaxAttempts)
  /\ GenerationFails /\ Over
\* ConfigError, or an exception that nobody expects.
Abort(response) ==
  /\ call = "sent" /\ response \in Aborting
  /\ Fail /\ Over
\* A missing key, Control-C and a kill end the session at any time.
Disturbed ==
  /\ pc = "generate" /\ Disturbance
  /\ Over
Elsewhere ==
  /\ pc # "generate" /\ Next
  /\ KeepCount /\ UNCHANGED <<call, waited>>

CallNext ==
  \/ Send \/ Answered \/ Resend
  \/ \E response \in Responses :
       Pause(response) \/ GiveUp(response) \/ Abort(response)
  \/ Disturbed \/ Elsewhere
CallSpec == CallInit /\ [][CallNext]_allVars

-----------------------------------------------------------------------------
(* Properties *)

CallTypeOK ==
  /\ call \in {"idle", "sent", "waiting"} /\ (call # "idle" => pc = "generate")
  /\ attempt \in 1..MaxAttempts /\ waited \in Nat

\* "Per-attempt waits are capped so a pathological Retry-After can't stall a
\* sweep indefinitely": the pauses of one generation add up to a bounded time.
BoundedWait == waited <= MaxDelay * (MaxAttempts - 1)

\* No request is sent, or sent again, for an attempt that attempts.jsonl answers
\* already, whichever sessions were killed, resumed or had rows to requeue
\* ("--resume appends only missing attempts").
NoAnswerAskedAgain == call # "idle" => Plan[pos] \notin KeysOf(attempts)

\* _post_with_retry promises "the same retry/backoff policy as the OpenAI path",
\* where a generation is inconclusive only when all requests have been made.
GivesUpLast ==
  \A row \in pending : row.stage = "generation" => attempt = MaxAttempts
=============================================================================
