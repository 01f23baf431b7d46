--------------------------- MODULE ReplayAttempt ---------------------------
(***************************************************************************)
(* A supervised replay run: the supervisor process with its durable retry  *)
(* budget, and inside one attempt the publisher, the Redis stream that the *)
(* attempt script guards, and one adapter process per strategy group.      *)
(*                                                                         *)
(* Entry n of a stream is wire sequence n - 1: entry 1 is the initial      *)
(* record, entry LastEntry the terminal one, and every entry costs one     *)
(* unit of the queue limit.  What a cut says is the subject of BookReplay. *)
(*                                                                         *)
(* Every participant may be slow for ever, may lose a Redis command (done  *)
(* or not done), may be killed, and may fail for a reason of its own.  The *)
(* supervisor may be killed between any two durable writes.                *)
(***************************************************************************)
EXTENDS Integers, FiniteSets, FiniteSetsExt

CONSTANTS Groups,        \* strategy groups, one adapter process each
          Publisher,     \* the publisher process
          LastEntry,     \* entry number of the terminal record
          BatchEntries,  \* publish_batch_entries
          QueueLimit,    \* max_queue_bytes, in entries
          ReadEntries,   \* entries one poll may read
          Attempts,      \* limits.attempts
          NoProgress,    \* limits.no_progress
          Margin,        \* limits.progress_margin
          MaxMishaps     \* bound: commands lost, processes killed, hooks that fail

(* A run has a group, an initial and a terminal record, and limits above 0. *)
AttemptAssumption ==
  /\ IsFiniteSet(Groups) /\ Groups # {} /\ Publisher \notin Groups
  /\ LastEntry \in Nat /\ LastEntry >= 2
  /\ BatchEntries \in Nat \ {0} /\ QueueLimit \in Nat \ {0} /\ ReadEntries \in Nat \ {0}
  /\ Attempts \in Nat /\ NoProgress \in Nat /\ Margin \in Nat /\ MaxMishaps \in Nat

VARIABLES state,     \* state.json
          result,    \* result.json of each attempt, or NoResult
          attested,  \* the groups with a complete.json in the active attempt
          success,   \* the attempt SUCCESS.json names, or 0
          sup,       \* the supervisor: where it is and what it has seen
          code,      \* exit code of every participant of the attempt
          redis,     \* the attempt's stream and state hash
          pub,       \* the publisher and its buffer
          con,       \* each adapter
          ready,     \* the publisher's ready file exists
          inputs,    \* the pinned derivatives still match the configuration
          spent,     \* faults, own failures and kills so far
          launched   \* history: attempts whose publisher was launched

vars == <<state, result, attested, success, sup, code, redis, pub, con, ready,
          inputs, spent, launched>>

supervisor == <<state, result, success, sup, launched, inputs>>
stream     == <<attested, redis, pub, con, ready>>

Participants == Groups \cup {Publisher}
NoResult == [success |-> FALSE, fatal |-> FALSE]
(* Exit 0; 20 or another positive code; 21 or a signal. *)
Exits == {"0", "fatal", "retryable"}
Running == {p \in Participants : code[p] = "running"}

(* hard_capacity: the batch and a quarter of it, rounded up. *)
Capacity == BatchEntries + (BatchEntries + 3) \div 4

FreshRedis == [published |-> 0, terminal |-> FALSE, poisoned |-> FALSE,
               retained |-> {}, bytes |-> 0,
               done |-> [g \in Groups |-> -1], read |-> [g \in Groups |-> 0]]

(* PublishBuffer: entries first + 1 .. next are buffered. *)
FreshPublisher == [pc |-> "setup", first |-> 0, next |-> 0, blocking |-> FALSE,
                   attempted |-> FALSE]

FreshConsumer == [pc |-> "join", applied |-> 0, completed |-> -1]

FreshState == [attempts |-> 0, best |-> -1, stagnant |-> 0, active |-> 0,
               progress |-> -1, fatal |-> FALSE]

FreshSup == [pc |-> "down", joined |-> FALSE, codes |-> [p \in {} |-> "0"],
             poison |-> FALSE, success |-> FALSE, fatal |-> FALSE, leaving |-> FALSE]

Mishap == spent.faults + spent.own + spent.kills < MaxMishaps

Init ==
  /\ state = FreshState
  /\ result = [a \in 1..Attempts |-> NoResult]
  /\ attested = {}
  /\ success = 0
  /\ sup = FreshSup
  /\ code = [p \in Participants |-> "none"]
  /\ redis = FreshRedis
  /\ pub = FreshPublisher
  /\ con = [g \in Groups |-> FreshConsumer]
  /\ ready = FALSE
  /\ inputs = TRUE
  /\ spent = [faults |-> 0, own |-> 0, kills |-> 0]
  /\ launched = 0

-----------------------------------------------------------------------------
(* The attempt script.  Each operation is atomic, checks the poison flag   *)
(* first and writes nothing when it refuses.                               *)

(* append: the longest prefix of entries first + 1 .. first + n that fits. *)
Accepted(n) == Min({n, QueueLimit - redis.bytes})

Append(n, last) ==
  LET k  == Accepted(n)
      up == pub.first + k
  IN  [redis EXCEPT !.published = up,
                    !.terminal = @ \/ (k = n /\ last /\ k > 0),
                    !.retained = @ \cup ((pub.first + 1)..up),
                    !.bytes = @ + k]

(* XACKDEL ... ACKED deletes what every group has acknowledged. *)
Ack(g) ==
  LET done == [redis.done EXCEPT ![g] = con[g].applied]
      gone == {n \in redis.retained : \A h \in Groups : n <= done[h]}
  IN  [redis EXCEPT !.done = done, !.retained = @ \ gone,
                    !.bytes = @ - Cardinality(gone)]

(* xreadgroup ">" for one group: what it was not given yet, in order. *)
Unread(g) == {n \in redis.retained : n > redis.read[g]}
Given(g) == {n \in Unread(g) : Cardinality({m \in Unread(g) : m <= n}) <= ReadEntries}

Poisoned == [redis EXCEPT !.poisoned = TRUE]

-----------------------------------------------------------------------------
(* A participant's end.  A lost command, an own failure or a refusal poisons  *)
(* the shared flag as far as Redis can be reached and exits.                  *)

Exit(p, c) == code' = [code EXCEPT ![p] = c]

(* A refusal by the script, for the poison flag or for a sequence that does *)
(* not follow, is a protocol error: the flag is set again and the exit is 20. *)
Refused(p) ==
  /\ redis' = Poisoned
  /\ Exit(p, "fatal")
  /\ UNCHANGED <<supervisor, attested, pub, con, ready, spent>>

(* The reply of a command is lost; `after` is what Redis holds if it ran: the *)
(* same when the script refused, for every check precedes every write.        *)
Lost(p, after) ==
  /\ Mishap
  /\ spent' = [spent EXCEPT !.faults = @ + 1]
  /\ \E r \in {redis, after} : redis' \in {r, [r EXCEPT !.poisoned = TRUE]}
  /\ Exit(p, "retryable")
  /\ UNCHANGED <<supervisor, attested, pub, con, ready>>

(* A hook, factory or risk failure, or a decoder that finds a gap. *)
OwnFailure(p, gap) ==
  /\ gap \/ Mishap
  /\ spent' = IF gap THEN spent ELSE [spent EXCEPT !.own = @ + 1]
  /\ redis' = Poisoned
  /\ Exit(p, "fatal")
  /\ UNCHANGED <<supervisor, attested, pub, con, ready>>

(* Every process validates the configuration and its pins before it touches   *)
(* Redis; one that does not match is an input failure and poisons nothing.    *)
Validated == inputs
Invalid(p) ==
  /\ ~Validated
  /\ Exit(p, "fatal")
  /\ UNCHANGED <<supervisor, stream, spent>>

(* A pinned derivative is changed or lost. *)
Spoil ==
  /\ Mishap /\ inputs
  /\ inputs' = FALSE
  /\ spent' = [spent EXCEPT !.own = @ + 1]
  /\ UNCHANGED <<state, result, success, sup, launched, stream, code>>

(* A participant killed from outside, or, when the supervisor died, by the   *)
(* parent-death signal every child armed before exec.                        *)
Die(p) ==
  /\ p \in Running
  /\ \/ sup.pc = "down" /\ UNCHANGED spent
     \/ /\ sup.pc # "down"
        /\ Mishap
        /\ spent' = [spent EXCEPT !.faults = @ + 1]
  /\ Exit(p, "retryable")
  /\ UNCHANGED <<supervisor, stream>>

-----------------------------------------------------------------------------
(* The publisher: setup, initial, ready file, then one cut a step. *)

Buffered == pub.next - pub.first

(* insert: what the buffer does once it holds n entries. *)
AfterInsert(n, last) ==
  IF last \/ n - pub.first >= Capacity THEN [pc |-> "append", blocking |-> TRUE]
  ELSE IF ~pub.attempted /\ n - pub.first >= BatchEntries
       THEN [pc |-> "append", blocking |-> FALSE]
       ELSE [pc |-> "step", blocking |-> FALSE]

PubInsert ==
  /\ Publisher \in Running
  /\ pub.pc \in {"setup", "step"}
  /\ pub.pc = "setup" => Validated
  /\ LET n == pub.next + 1
         a == AfterInsert(n, pub.pc = "setup" \/ n = LastEntry)
     IN  pub' = [pub EXCEPT !.next = n, !.pc = a.pc, !.blocking = a.blocking]
  /\ UNCHANGED <<supervisor, attested, redis, con, ready, code, spent>>

(* Where the publisher goes when a drain returns. *)
Drained == IF ~ready THEN "ready" ELSE IF pub.next = LastEntry THEN "exit" ELSE "step"

(* One append call of a drain: everything accepted, or a short reply that    *)
(* ends a non-blocking drain and makes a blocking one sleep and try again.   *)
AfterAppend(sent, k) ==
  LET left == Buffered - k
  IN  [pub EXCEPT !.first = @ + k,
         !.pc = IF left = 0 \/ (k < sent /\ ~pub.blocking) THEN Drained ELSE "append",
         !.attempted = IF left = 0 THEN FALSE
                       ELSE @ \/ (k < sent /\ ~pub.blocking)]

CallLength == Min({Buffered, QueueLimit})

PubFollows == ~redis.poisoned /\ pub.first = redis.published

PubAppend ==
  /\ Publisher \in Running /\ pub.pc = "append" /\ PubFollows
  /\ LET sent == CallLength
     IN  /\ redis' = Append(sent, pub.next = LastEntry /\ sent = Buffered)
         /\ pub' = AfterAppend(sent, Accepted(sent))
  /\ UNCHANGED <<supervisor, attested, con, ready, code, spent>>

PubReady ==
  /\ Publisher \in Running /\ pub.pc = "ready"
  /\ ready' = TRUE
  /\ pub' = [pub EXCEPT !.pc = "step"]
  /\ UNCHANGED <<supervisor, attested, redis, con, code, spent>>

PubExit ==
  /\ Publisher \in Running /\ pub.pc = "exit"
  /\ Exit(Publisher, "0")
  /\ UNCHANGED <<supervisor, stream, spent>>

PubFails ==
  /\ Publisher \in Running
  /\ \/ pub.pc = "append" /\ ~PubFollows /\ Refused(Publisher)
     \/ /\ pub.pc = "append"
        /\ Lost(Publisher, IF PubFollows
                           THEN Append(CallLength, pub.next = LastEntry /\ CallLength = Buffered)
                           ELSE redis)
     \/ pub.pc = "step" /\ OwnFailure(Publisher, FALSE)
     \/ pub.pc = "setup" /\ Invalid(Publisher)

-----------------------------------------------------------------------------
(* An adapter: join, then poll, hooks and one acknowledgement a batch, then  *)
(* the completion attestation.                                               *)

At(g, pc) == g \in Running /\ con[g].pc = pc

Join(g) ==
  /\ At(g, "join") /\ Validated /\ ~redis.poisoned
  /\ con' = [con EXCEPT ![g].pc = "poll"]
  /\ UNCHANGED <<supervisor, attested, redis, pub, ready, code, spent>>

(* One poll: the check, the read, and then, the decoder taking the entries    *)
(* in sequence, the hook on each.                                             *)
Poll(g) ==
  /\ At(g, "poll") /\ ~redis.poisoned /\ Given(g) # {}
  /\ Given(g) = (con[g].applied + 1)..Max(Given(g))
  /\ redis' = [redis EXCEPT !.read[g] = Max(Given(g))]
  /\ con' = [con EXCEPT ![g].pc = "ack", ![g].applied = Max(Given(g))]
  /\ UNCHANGED <<supervisor, attested, pub, ready, code, spent>>

AckFollows(g) == ~redis.poisoned /\ redis.done[g] = con[g].completed

Acknowledge(g) ==
  /\ At(g, "ack") /\ AckFollows(g)
  /\ redis' = Ack(g)
  /\ con' = [con EXCEPT ![g].completed = con[g].applied,
                        ![g].pc = IF con[g].applied = LastEntry THEN "finish" ELSE "poll"]
  /\ UNCHANGED <<supervisor, attested, pub, ready, code, spent>>

(* finish checks the flag once more and complete.json is written. *)
Attest(g) ==
  /\ At(g, "finish") /\ ~redis.poisoned
  /\ attested' = attested \cup {g}
  /\ con' = [con EXCEPT ![g].pc = "exit"]
  /\ UNCHANGED <<supervisor, redis, pub, ready, code, spent>>

ConExit(g) ==
  /\ At(g, "exit")
  /\ Exit(g, "0")
  /\ UNCHANGED <<supervisor, stream, spent>>

ConFails(g) ==
  /\ g \in Running
  /\ \/ con[g].pc = "join" /\ Invalid(g)
     \/ con[g].pc \in {"join", "poll", "finish"} /\ redis.poisoned /\ Refused(g)
     \/ con[g].pc = "ack" /\ ~AckFollows(g) /\ Refused(g)
     \/ con[g].pc \in {"join", "poll", "finish"} /\ Lost(g, redis)
     \/ con[g].pc = "ack" /\ Lost(g, IF AckFollows(g) THEN Ack(g) ELSE redis)
     \/ /\ con[g].pc = "poll" /\ ~redis.poisoned /\ Given(g) # {}
        /\ OwnFailure(g, Given(g) # (con[g].applied + 1)..Max(Given(g)))

-----------------------------------------------------------------------------
(* The supervisor. *)

Goto(pc) == sup' = [sup EXCEPT !.pc = pc]

(* The attempt's processes are reaped and its two keys are deleted or left    *)
(* behind; no later attempt looks at them.                                    *)
Discarded ==
  /\ redis' = FreshRedis /\ pub' = FreshPublisher
  /\ con' = [g \in Groups |-> FreshConsumer] /\ ready' = FALSE
  /\ code' = [p \in Participants |-> "none"] /\ attested' = {}

(* failed: the mark to beat is the best of all attempts. *)
Failed(s, fatal) ==
  [s EXCEPT !.stagnant = IF s.progress >= s.best + Margin THEN 0 ELSE @ + 1,
            !.best = Max({@, s.progress}), !.active = 0, !.progress = -1,
            !.fatal = fatal]

Allowed == ~state.fatal /\ state.attempts < Attempts /\ state.stagnant < NoProgress

(* run: the lock is free once every child that inherited it is gone. *)
Start ==
  /\ sup.pc = "down" /\ Running = {}
  /\ sup' = [FreshSup EXCEPT !.pc = IF ~Validated \/ success # 0 THEN "ended"
                                    ELSE IF state.active # 0 THEN "recover" ELSE "loop"]
  /\ UNCHANGED <<inputs, state, result, success, launched, stream, code, spent>>

(* An attempt left active is a failure, fatal if its result says so. *)
PriorFatal == result[state.active].fatal
Recover ==
  /\ sup.pc = "recover"
  /\ state' = Failed(state, PriorFatal)
  /\ Goto("loop")
  /\ Discarded
  /\ UNCHANGED <<inputs, result, success, launched, spent>>

(* The budget and the namespace are durable before anything is launched. *)
Begin ==
  /\ sup.pc = "loop" /\ Allowed
  /\ state' = [state EXCEPT !.attempts = @ + 1, !.active = state.attempts + 1,
                            !.progress = -1]
  /\ sup' = [FreshSup EXCEPT !.pc = "launch"]
  /\ UNCHANGED <<inputs, result, success, launched, stream, code, spent>>

(* No attempt is allowed, or the run's own deadline has passed. *)
GiveUp ==
  /\ sup.pc = "loop"
  /\ Goto("ended")
  /\ UNCHANGED <<inputs, state, result, success, launched, stream, code, spent>>

Launch ==
  /\ sup.pc = "launch"
  /\ code' = [code EXCEPT ![Publisher] = "running"]
  /\ launched' = launched + 1
  /\ Goto("poll")
  /\ UNCHANGED <<inputs, state, result, success, stream, spent>>

Stop(fatal) ==
  sup' = [FreshSup EXCEPT !.pc = "stop", !.fatal = fatal]

FatalExit(c) == c = "fatal"

(* The exit codes, read before the progress fields. *)
PollCodes ==
  /\ sup.pc = "poll"
  /\ LET exited == {p \in Participants : code[p] \in Exits}
     IN  \/ /\ \E p \in exited : code[p] # "0"
            /\ Stop(\E p \in exited : FatalExit(code[p]))
            /\ UNCHANGED code
         \/ /\ \A p \in exited : code[p] = "0"
            /\ sup' = [sup EXCEPT !.pc = IF sup.joined \/ ready THEN "read" ELSE "poll",
                                  !.joined = sup.joined \/ ready,
                                  !.codes = [p \in exited |-> "0"]]
            /\ code' = IF ready /\ ~sup.joined
                       THEN [p \in Participants |-> IF p \in Groups THEN "running" ELSE code[p]]
                       ELSE code
  /\ UNCHANGED <<inputs, state, result, success, launched, stream, spent>>

Slowest == Min({redis.done[g] : g \in Groups})
ValidProgress ==
  /\ \A g \in Groups : redis.done[g] <= redis.published
  /\ Publisher \in DOMAIN sup.codes => redis.terminal
  /\ Slowest >= state.progress

(* Mutant: the acknowledgements alone are taken for success. *)
AcknowledgedIsComplete ==
  redis.terminal /\ Slowest = redis.published

(* Everyone exited 0, the terminal entry is done and every group attested. *)
CompleteAttempt ==
  /\ DOMAIN sup.codes = Participants
  /\ redis.terminal /\ Slowest = redis.published
  /\ attested = Groups

(* The progress fields: the mark is saved, poison noted, success recognised. *)
ReadProgress ==
  /\ sup.pc = "read"
  /\ \/ /\ ~ValidProgress
        /\ Stop(TRUE)
        /\ UNCHANGED state
     \/ /\ ValidProgress
        /\ state' = [state EXCEPT !.progress = Slowest]
        /\ \/ /\ redis.poisoned
              /\ sup' = [sup EXCEPT !.pc = "poll", !.poison = TRUE]
           \/ /\ ~redis.poisoned /\ CompleteAttempt
              /\ sup' = [FreshSup EXCEPT !.pc = "stop", !.success = TRUE]
           \/ /\ ~redis.poisoned /\ ~CompleteAttempt
              /\ Goto("poll")
  /\ UNCHANGED <<inputs, result, success, launched, stream, code, spent>>

(* The supervisor's own Redis command fails. *)
LosesRedis ==
  /\ sup.pc = "read"
  /\ Mishap
  /\ spent' = [spent EXCEPT !.faults = @ + 1]
  /\ Stop(FALSE)
  /\ UNCHANGED <<inputs, state, result, success, launched, stream, code>>

(* Mutant: a publisher that waits on a full queue holds the clock. *)
DeadlineOfQuiet == sup.pc = "poll" /\ Publisher \notin Running

(* The stall, attempt or run deadline, looked at after every poll. *)
DeadlinePassed == sup.pc = "poll"
Deadline ==
  /\ DeadlinePassed
  /\ Stop(sup.poison)
  /\ UNCHANGED <<inputs, state, result, success, launched, stream, code, spent>>

(* SIGTERM or SIGINT to the supervisor. *)
Interrupt ==
  /\ sup.pc \in {"poll", "read"}
  /\ Mishap
  /\ spent' = [spent EXCEPT !.kills = @ + 1]
  /\ sup' = [FreshSup EXCEPT !.pc = "stop", !.leaving = TRUE]
  /\ UNCHANGED <<inputs, state, result, success, launched, stream, code>>

(* stop: an adapter turns SIGTERM into 21, anything else dies of a signal;    *)
(* until it does it may still exit by itself.                                 *)
Terminate(p) ==
  /\ sup.pc = "stop" /\ p \in Running
  /\ Exit(p, "retryable")
  /\ UNCHANGED <<supervisor, stream, spent>>

(* A late fatal exit is never hidden. *)
WriteResult ==
  /\ sup.pc = "stop" /\ Running = {}
  /\ LET fatal == sup.fatal \/ \E p \in Participants : FatalExit(code[p])
     IN  result' = [result EXCEPT ![state.active] =
                      [success |-> sup.success /\ ~fatal, fatal |-> fatal]]
  /\ Goto("commit")
  /\ UNCHANGED <<inputs, state, success, launched, stream, code, spent>>

Commit ==
  /\ sup.pc = "commit"
  /\ LET r == result[state.active]
     IN  \/ /\ r.success
            /\ success' = state.active
            /\ Goto("ended")
            /\ UNCHANGED <<state, stream, code>>
         \/ /\ ~r.success
            /\ state' = Failed(state, r.fatal)
            /\ sup' = [FreshSup EXCEPT !.pc = IF sup.leaving THEN "down" ELSE "loop"]
            /\ Discarded
            /\ UNCHANGED success
  /\ UNCHANGED <<inputs, result, launched, spent>>

Kill ==
  /\ sup.pc \notin {"down", "ended"}
  /\ Mishap
  /\ spent' = [spent EXCEPT !.kills = @ + 1]
  /\ sup' = FreshSup
  /\ UNCHANGED <<inputs, state, result, success, launched, stream, code>>

-----------------------------------------------------------------------------
PublisherStep == PubInsert \/ PubAppend \/ PubReady \/ PubExit \/ PubFails
AdapterStep(g) == \/ Join(g) \/ Poll(g) \/ Acknowledge(g)
                  \/ Attest(g) \/ ConExit(g) \/ ConFails(g)
SupervisorStep == \/ Start \/ Recover \/ Begin \/ GiveUp \/ Launch \/ PollCodes
                  \/ ReadProgress \/ Deadline \/ WriteResult \/ Commit
                  \/ \E p \in Participants : Terminate(p)

Next ==
  \/ PublisherStep
  \/ \E g \in Groups : AdapterStep(g)
  \/ SupervisorStep
  \/ \E p \in Participants : Die(p)
  \/ LosesRedis \/ Interrupt \/ Kill \/ Spoil

(* Only the supervisor is fair: it polls on a timer, a child it terminates    *)
(* ends, the children of a dead supervisor die, and a run that stopped is     *)
(* started again.  A deadline passes if the attempt goes on.  No participant  *)
(* is assumed to move.                                                        *)
Steady == Start \/ Recover \/ Begin \/ Launch \/ PollCodes \/ ReadProgress \/ WriteResult \/ Commit
OutOfBudget == sup.pc = "loop" /\ ~Allowed /\ GiveUp
Orphaned(p) == sup.pc = "down" /\ Die(p)

Fairness ==
  /\ WF_vars(Steady) /\ WF_vars(OutOfBudget) /\ SF_vars(Deadline)
  /\ \A p \in Participants : WF_vars(Terminate(p)) /\ WF_vars(Orphaned(p))

Spec == Init /\ [][Next]_vars /\ Fairness

-----------------------------------------------------------------------------
(* SUCCESS.json names an attempt whose publisher published the terminal       *)
(* record, whose every group ran its hooks on every entry, acknowledged the   *)
(* last one and attested it, and whose result is a success.  (supervisor.py,  *)
(* attempt and run; the ACK alone, an exit code alone or a finished attempt   *)
(* found after a crash is not success.)                                       *)
SuccessIsWhole ==
  success # 0 =>
    /\ result[success] = [success |-> TRUE, fatal |-> FALSE]
    /\ attested = Groups
    /\ state.active = success /\ redis.terminal
    /\ \A g \in Groups : con[g].applied = LastEntry /\ code[g] = "0"

(* However often the supervisor is killed, no more publishers are launched    *)
(* than the durable count of attempts says, no attempt is launched after a    *)
(* fatal result was written, and the two budgets hold.                        *)
StartsAreBudgeted ==
  /\ launched <= state.attempts /\ state.attempts <= Attempts
  /\ state.stagnant <= NoProgress
  /\ \A a \in 1..Attempts : result[a].fatal => state.attempts = a

(* Buffering, the append script and the acknowledgements agree: an entry is   *)
(* kept exactly until every group has acknowledged it, the byte count is that *)
(* of the kept entries and stays within the limit, no group runs ahead of     *)
(* what was published, and without a lost command, a killed participant or a  *)
(* failure of its own an attempt is never fatal.                              *)
QueueIsExact ==
  /\ redis.retained = {n \in 1..redis.published : \E g \in Groups : redis.done[g] < n}
  /\ redis.bytes = Cardinality(redis.retained) /\ redis.bytes <= QueueLimit
  /\ \A g \in Groups : redis.done[g] <= con[g].applied /\ con[g].applied <= redis.published
  /\ Buffered <= Capacity
  /\ (\E a \in 1..Attempts : result[a].fatal) => spent.faults + spent.own > 0

(* The three together: what SUCCESS.json names is a whole attempt, starts stay *)
(* within their budgets across every kill, and the queue is exact through      *)
(* partial appends, lost replies and acknowledgements (supervisor.py,          *)
(* attempt.lua).                                                               *)
AttemptIsSound == SuccessIsWhole /\ StartsAreBudgeted /\ QueueIsExact

(* Not an invariant (a peer that meets the poison flag exits as fatal): a     *)
(* transport failure, a lost reply or a killed process may be retried: an     *)
(* attempt is fatal only if some participant failed for a reason of its own.  *)
RetryableIsRetried ==
  (\E a \in 1..Attempts : result[a].fatal) => spent.own > 0

(* Whatever the participants do, a publisher that waits on a full queue and a *)
(* group that stops acknowledging included, the run ends.                     *)
RunEnds == <>[](sup.pc = "ended")

=============================================================================
