------------------------------ MODULE CaptchaSolver ------------------------------
(***************************************************************************)
(* Buying the answer of a captcha from 2captcha: core/captcha.go and       *)
(* core/captcha_api_client.go. A solve submits a job and polls for its     *)
(* answer until a deadline of its own, which is not that of the request:   *)
(* Solve starts from context.Background. Time is counted in polls.         *)
(***************************************************************************)
EXTENDS Integers

CONSTANTS
  SolveTimeout,   \* captcha.solve_timeout, 100 s, in poll intervals of 5 s
  RequestTimeout  \* twoCaptchaRequestTimeout, 30 s, in the same unit

ASSUME SolverAssumption == {SolveTimeout, RequestTimeout} \subseteq Nat \ {0}

VARIABLES
  job,  \* the solve under way: what it waits for and for how long
  bill  \* solves begun, jobs submitted, tokens received, tokens that a page
        \* has taken, and that it has refused

JobStates == {"none", "submitting", "queued", "token", "failed"}
NoJob == [at |-> "none", age |-> 0]
NoBill == [begun |-> 0, jobs |-> 0, tokens |-> 0, used |-> 0, refused |-> 0]

SolverTypeOK ==
  /\ job \in [at : JobStates, age : 0 .. SolveTimeout]
  /\ bill \in [{"begun", "jobs", "tokens", "used", "refused"} -> Nat]

SolveReCaptcha2 ==
  /\ job' = [at |-> "submitting", age |-> 0]
  /\ bill' = [bill EXCEPT !.begun = @ + 1]

SolveFails == job' = [job EXCEPT !.at = "failed"] /\ UNCHANGED bill

\* The job is accepted; or the API cannot be reached, or rejects the job.
Submitted ==
  /\ job.at = "submitting"
  /\ job' = [job EXCEPT !.at = "queued"]
  /\ bill' = [bill EXCEPT !.jobs = @ + 1]
NotSubmitted == job.at = "submitting" /\ SolveFails

\* Broken: the deadline starts anew when it has passed.
AfterMutant(d) == IF job.age + d >= SolveTimeout THEN 0 ELSE job.age + d
\* A poll takes as long as its request may; it ends with the solve's deadline.
After(d) == IF job.age + d > SolveTimeout THEN SolveTimeout ELSE job.age + d

\* CAPCHA_NOT_READY, and a poll that failed: the job is still queued.
PollAgain(d) == job' = [job EXCEPT !.age = After(d)] /\ UNCHANGED bill
Poll == \E d \in 1 .. RequestTimeout : job.at = "queued" /\ job.age < SolveTimeout /\ PollAgain(d)

\* An answer in time.
Ready ==
  /\ job.at = "queued" /\ job.age + 1 < SolveTimeout
  /\ job' = [job EXCEPT !.at = "token", !.age = @ + 1]
  /\ bill' = [bill EXCEPT !.tokens = @ + 1]
Unsolvable == job.at = "queued" /\ job.age < SolveTimeout /\ SolveFails
SolveTimesOut == job.at = "queued" /\ job.age = SolveTimeout /\ SolveFails

SolverStep == Submitted \/ NotSubmitted \/ Poll \/ Ready \/ Unsolvable \/ SolveTimesOut
=============================================================================
