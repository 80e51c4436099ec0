----------------------------- MODULE EmbeddingRetry -----------------------------
(***************************************************************************)
(* BedrockTitanEmbeddingProvider.embed of memory/embedding.py, called      *)
(* again and again, and a service that has outages.                        *)
(*                                                                         *)
(* Time is what the caller sleeps: an attempt takes none, so an outage     *)
(* lasts at least as long in the model as in the world, measured in        *)
(* sleeps.  What the service answers is one of six kinds of answer, the    *)
(* error codes that are treated alike being one kind.                      *)
(***************************************************************************)
EXTENDS Naturals, FiniteSets

CONSTANTS
    MaxAttempts,        \* max_attempts
    Outages,            \* how long an outage may last, in seconds
    Forever             \* an outage that does not end

ASSUME AttemptsAssumption == MaxAttempts \in Nat \ {0}

\* No call waits forever.
ASSUME OutagesAssumption ==
    /\ Outages \subseteq Nat \ {0} /\ \A l \in Outages : l < Forever
    /\ Forever \in Nat /\ Forever > 8 * MaxAttempts

\* What ^ means, which the provers do not know.
ASSUME PowersAssumption ==
    2 ^ 0 = 1 /\ \A n \in 0 .. MaxAttempts : 2 ^ (n + 1) = 2 * 2 ^ n

VARIABLES
    outage,     \* seconds until the service works again
    before,     \* that, when the call of embed began
    point,      \* "idle", "invoking" or "sleeping"
    attempt,    \* of the call, from 0
    waited,     \* seconds the call has slept
    answers,    \* how many answers of each kind the call has got
    result      \* how the last call ended

retryVars == <<outage, before, point, attempt, waited, answers, result>>

\* One kind for the codes of _RETRY_CODES, one for those of _AUTH_CODES, one
\* for any other error; a vector of finite numbers of the right length, a
\* response without one, and one of another length.
Kinds == {"retryable", "denied", "failure", "vector", "malformed", "dimension"}

NoAnswers == [k \in Kinds |-> 0]

RetryInit ==
    /\ outage = 0
    /\ before = 0
    /\ point = "idle"
    /\ attempt = 0
    /\ waited = 0
    /\ answers = NoAnswers
    /\ result = "none"

---------------------------------------------------------------------------
(* The service.                                                            *)

\* Throttling or a failure begins while nothing is being asked; a call meets
\* at most one outage.
OutageBegins ==
    /\ point = "idle" /\ outage = 0
    /\ outage' \in Outages \cup {Forever}
    /\ UNCHANGED <<before, point, attempt, waited, answers, result>>

\* Credentials are checked even then.
AnswerKinds == IF outage > 0 THEN {"retryable", "denied"} ELSE Kinds \ {"retryable"}

---------------------------------------------------------------------------
(* The caller.                                                             *)

BeginCall ==
    /\ point = "idle"
    /\ point' = "invoking"
    /\ attempt' = 0
    /\ waited' = 0
    /\ before' = outage
    /\ answers' = NoAnswers
    /\ UNCHANGED <<outage, result>>

\* The error raised for an answer that is not retried. The last attempt raises
\* EmbeddingInvocationError too; it is told apart here by the code it names.
ErrorOf(kind) ==
    CASE kind = "denied"    -> "EmbeddingAuthenticationError"
      [] kind = "retryable" -> "EmbeddingAttemptsExhausted"
      [] kind = "failure"   -> "EmbeddingInvocationError"
      [] kind = "malformed" -> "MalformedEmbeddingResponseError"
      [] kind = "dimension" -> "EmbeddingDimensionError"

FaultyIsRetried(kind) == kind \in {"retryable", "denied"} /\ attempt + 1 < MaxAttempts
IsRetried(kind) == kind = "retryable" /\ attempt + 1 < MaxAttempts

\* invoke_model and what is made of its answer.
Invoke ==
    /\ point = "invoking"
    /\ \E kind \in AnswerKinds :
          /\ answers' = [answers EXCEPT ![kind] = @ + 1]
          /\ IF IsRetried(kind)
             THEN point' = "sleeping" /\ UNCHANGED result
             ELSE /\ point' = "idle"
                  /\ result' = IF kind = "vector" THEN "vector" ELSE ErrorOf(kind)
    /\ UNCHANGED <<outage, before, attempt, waited>>

Delay(n) == IF 2 ^ n < 8 THEN 2 ^ n ELSE 8

\* What is left of the outage some time later.
After(seconds) ==
    IF outage = Forever THEN Forever ELSE IF outage > seconds THEN outage - seconds ELSE 0

FaultySleep ==
    /\ point = "sleeping"
    /\ point' = "invoking"
    /\ attempt' = attempt + 1
    /\ waited' = waited + Delay(0)
    /\ outage' = After(Delay(0))
    /\ UNCHANGED <<before, answers, result>>
\* The sleep, and the next round of the loop.
Sleep ==
    /\ point = "sleeping"
    /\ point' = "invoking"
    /\ attempt' = attempt + 1
    /\ waited' = waited + Delay(attempt)
    /\ outage' = After(Delay(attempt))
    /\ UNCHANGED <<before, answers, result>>

RetryNext == OutageBegins \/ BeginCall \/ Invoke \/ Sleep

RetrySpec == RetryInit /\ [][RetryNext]_retryVars

---------------------------------------------------------------------------
(* Properties.                                                             *)

\* 1, 2, 4 and then 8 seconds each time: 31 seconds with seven attempts.
Slept(retries) == IF retries < 3 THEN <<0, 1, 3>>[retries + 1] ELSE 7 + 8 * (retries - 3)

\* The delays of a call that uses all its attempts.
Patience == Slept(MaxAttempts - 1)

\* The "transient retries" that "use bounded exponential backoff"
\* (STATUS.md:100-101): a call that gives up met an outage longer than all its
\* sleeps together, so that a shorter one is never noticed; and it never keeps
\* its caller longer than that.
ShortOutagesAreRiddenOut ==
    /\ point = "idle" /\ result = "EmbeddingAttemptsExhausted" => before > Patience
    /\ waited <= Patience

\* A call gets one final answer at most: rejected credentials, other errors
\* and responses without a usable vector are not asked for again, and the
\* caller learns of that answer and of no other.
FinalAnswersAreFinal ==
    LET finals == Kinds \ {"retryable"}
        got == {k \in finals : answers[k] > 0}
    IN /\ \A k \in finals : answers[k] <= 1
       /\ Cardinality(got) <= 1
       /\ got # {} => point = "idle" /\ \A k \in got :
                         result = IF k = "vector" THEN "vector" ELSE ErrorOf(k)
================================================================================
