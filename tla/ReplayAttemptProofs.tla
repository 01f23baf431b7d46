------------------------ MODULE ReplayAttemptProofs ------------------------
(***************************************************************************)
(* Proofs about ReplayAttempt: SUCCESS.json names a whole attempt, the     *)
(* budgets of starts hold over every kill of the supervisor, and the queue *)
(* of an attempt is exact.                                                 *)
(***************************************************************************)
EXTENDS ReplayAttempt, FiniteSetTheorems, WellFoundedInduction, TLAPS

-----------------------------------------------------------------------------
(* The inductive invariant                                                 *)

Codes   == {"none", "running"} \cup Exits
SupPcs  == {"down", "recover", "loop", "launch", "poll", "read", "stop", "commit", "ended"}
PubPcs  == {"setup", "append", "ready", "step", "exit"}
ConPcs  == {"join", "poll", "ack", "finish", "exit"}

StateType  == [attempts : Nat, best : Int, stagnant : Nat, active : Nat, progress : Int, fatal : BOOLEAN]
ResultType == [success : BOOLEAN, fatal : BOOLEAN]
RedisType  == [published : Nat, terminal : BOOLEAN, poisoned : BOOLEAN, retained : SUBSET Nat,
               bytes : Nat, done : [Groups -> Int], read : [Groups -> Nat]]
PubType    == [pc : PubPcs, first : Nat, next : Nat, blocking : BOOLEAN, attempted : BOOLEAN]
ConType    == [pc : ConPcs, applied : Nat, completed : Int]
SupType    == [pc : SupPcs, joined : BOOLEAN, codes : UNION {[S -> {"0"}] : S \in SUBSET Participants},
               poison : BOOLEAN, success : BOOLEAN, fatal : BOOLEAN, leaving : BOOLEAN]
SpentType  == [faults : Nat, own : Nat, kills : Nat]

TypeOK ==
  /\ state \in StateType /\ result \in [1..Attempts -> ResultType]
  /\ attested \in SUBSET Groups /\ success \in 0..Attempts /\ sup \in SupType
  /\ code \in [Participants -> Codes] /\ redis \in RedisType /\ pub \in PubType
  /\ con \in [Groups -> ConType] /\ ready \in BOOLEAN /\ inputs \in BOOLEAN
  /\ spent \in SpentType /\ launched \in Nat

Unspoilt == spent.faults = 0 /\ spent.own = 0

(* Nothing of an attempt exists yet. *)
FreshStream ==
  /\ redis = FreshRedis /\ pub = FreshPublisher /\ con = [g \in Groups |-> FreshConsumer]
  /\ ready = FALSE /\ code = [p \in Participants |-> "none"] /\ attested = {}

(* What a participant that did not exit knows is what Redis holds. *)
Waits(p) == code[p] \in {"none", "running"}

(* The buffer of the publisher, and how far it is. *)
PubInv ==
  /\ pub.first <= pub.next /\ pub.next <= LastEntry /\ pub.next - pub.first <= Capacity
  /\ pub.pc = "append" => pub.first < pub.next
  /\ pub.pc \in {"setup", "ready", "step"} \/ (pub.pc = "append" /\ ~pub.blocking) =>
       pub.next - pub.first < Capacity
  /\ pub.pc \in {"setup", "ready", "step"} => pub.next < LastEntry
  /\ pub.pc = "append" /\ pub.next = LastEntry => pub.blocking
  /\ pub.pc = "setup" => pub.next = 0
  /\ pub.pc \in {"step", "exit"} => ready
  /\ ~ready => pub.next <= 1
  /\ pub.pc = "exit" => redis.terminal
  /\ code[Publisher] = "0" => pub.pc = "exit"
  /\ Waits(Publisher) => pub.first = redis.published

(* The stream and the positions of the groups in it. *)
QueueInv ==
  /\ redis.retained = {n \in 1..redis.published : \E g \in Groups : redis.done[g] < n}
  /\ redis.bytes = Cardinality(redis.retained) /\ redis.bytes <= QueueLimit
  /\ \A g \in Groups :
       /\ redis.done[g] <= con[g].applied /\ con[g].applied <= redis.published
       /\ redis.read[g] = con[g].applied
       /\ state.progress <= redis.done[g]
       /\ Waits(g) => redis.done[g] = con[g].completed
  /\ redis.terminal => redis.published = LastEntry

(* Every participant exited 0 and every group attested the whole stream. *)
WholeStream ==
  /\ attested = Groups /\ redis.terminal
  /\ \A g \in Groups : con[g].applied = LastEntry
  /\ \A p \in Participants : code[p] = "0"

(* Where the supervisor is and what it knows. *)
SupInv ==
  /\ state.active = 0 \/ sup.pc \in {"loop", "launch"} => FreshStream
  /\ sup.pc = "loop" => state.active = 0
  /\ sup.pc \in {"recover", "launch", "poll", "read", "stop", "commit"} => state.active # 0
  /\ sup.pc \in {"down", "recover", "loop", "launch"} => sup.codes = [p \in {} |-> "0"]
  /\ \A p \in DOMAIN sup.codes : code[p] = "0"
  /\ sup.pc = "poll" /\ ~sup.joined => \A g \in Groups : code[g] = "none"
  /\ sup.pc = "read" => sup.joined
  /\ sup.pc = "commit" \/ success # 0 => Running = {}
  /\ sup.success => WholeStream /\ sup.pc \in {"stop", "commit", "ended"}
  /\ sup.pc = "commit" /\ result[state.active].success => sup.success /\ ~result[state.active].fatal

(* The two budgets and the marks they are kept with. *)
BudgetInv ==
  /\ launched <= state.attempts /\ state.attempts <= Attempts
  /\ sup.pc = "launch" => launched < state.attempts
  /\ state.stagnant <= NoProgress
  /\ state.active # 0 => /\ state.active = state.attempts /\ state.stagnant < NoProgress
                         /\ ~state.fatal
  /\ \A a \in 1..Attempts :
       result[a].fatal => a = state.attempts /\ (state.active = a \/ state.fatal)

(* Success is the last thing that happens. *)
SuccessInv ==
  success # 0 =>
    /\ sup.pc = "ended" /\ state.active = success /\ WholeStream
    /\ result[success] = [success |-> TRUE, fatal |-> FALSE]

(* Without a lost command, a killed participant or a failure of its own. *)
CalmInv ==
  Unspoilt =>
    /\ inputs /\ ~redis.poisoned /\ ~sup.poison /\ ~sup.fatal
    /\ \A p \in Participants : code[p] # "fatal"
    /\ \A a \in 1..Attempts : ~result[a].fatal

IInv == TypeOK /\ PubInv /\ QueueInv /\ SupInv /\ BudgetInv /\ SuccessInv /\ CalmInv

-----------------------------------------------------------------------------
(* Records and what a step makes of them                                   *)

LEMMA CapacityFacts ==
    ASSUME AttemptAssumption
    PROVE  /\ Capacity \in Nat /\ Capacity > 0 /\ BatchEntries \in Nat /\ BatchEntries > 0
           /\ QueueLimit \in Nat /\ QueueLimit > 0 /\ ReadEntries \in Nat /\ ReadEntries > 0
           /\ LastEntry \in Nat /\ LastEntry >= 2
BY DEF AttemptAssumption, Capacity

LEMMA MinPair ==
    ASSUME NEW a \in Int, NEW b \in Int, NEW m, m = Min({a, b})
    PROVE  m \in {a, b} /\ m <= a /\ m <= b
<1>1. \E x \in {a, b} : \A y \in {a, b} : x <= y  OBVIOUS
<1>2. m \in {a, b} /\ \A y \in {a, b} : m <= y  BY <1>1 DEF Min
<1> QED  BY <1>2

LEMMA MaxPair ==
    ASSUME NEW a \in Int, NEW b \in Int, NEW m, m = Max({a, b})
    PROVE  m \in {a, b} /\ m >= a /\ m >= b
<1>1. \E x \in {a, b} : \A y \in {a, b} : x >= y  OBVIOUS
<1>2. m \in {a, b} /\ \A y \in {a, b} : m >= y  BY <1>1 DEF Max
<1> QED  BY <1>2

LEMMA FreshSupFacts ==
    /\ FreshSup \in SupType /\ FreshSup.pc = "down" /\ FreshSup.joined = FALSE
    /\ FreshSup.codes = [p \in {} |-> "0"] /\ FreshSup.poison = FALSE /\ FreshSup.success = FALSE
    /\ FreshSup.fatal = FALSE /\ FreshSup.leaving = FALSE
<1>1. [p \in {} |-> "0"] \in UNION {[S -> {"0"}] : S \in SUBSET Participants}
  <2>1. [p \in {} |-> "0"] \in [{} -> {"0"}]  OBVIOUS
  <2>2. {} \in SUBSET Participants  OBVIOUS
  <2> QED  BY <2>1, <2>2
<1> QED  BY <1>1 DEF FreshSup, SupType, SupPcs

\* The supervisor moves on and keeps what it knows.
LEMMA GotoFacts ==
    ASSUME NEW s \in SupType, NEW pc \in SupPcs, NEW t, t = [s EXCEPT !.pc = pc]
    PROVE  /\ t \in SupType /\ t.pc = pc /\ t.joined = s.joined /\ t.codes = s.codes
           /\ t.poison = s.poison /\ t.success = s.success /\ t.fatal = s.fatal
BY Zenon DEF SupType

LEMMA StateFacts ==
    ASSUME NEW s \in StateType
    PROVE  /\ s.attempts \in Nat /\ s.best \in Int /\ s.stagnant \in Nat /\ s.active \in Nat
           /\ s.progress \in Int /\ s.fatal \in BOOLEAN
BY DEF StateType

LEMMA FailedFacts ==
    ASSUME AttemptAssumption, NEW s \in StateType, NEW f \in BOOLEAN, NEW t, t = Failed(s, f)
    PROVE  /\ t \in StateType /\ t.attempts = s.attempts /\ t.stagnant <= s.stagnant + 1
           /\ t.active = 0 /\ t.progress = -1 /\ t.fatal = f
<1>1. /\ s.attempts \in Nat /\ s.best \in Int /\ s.stagnant \in Nat /\ s.active \in Nat
      /\ s.progress \in Int /\ s.fatal \in BOOLEAN
  BY StateFacts
<1>2. PICK b \in Int : b = Max({s.best, s.progress})
  <2>1. PICK x \in Int, y \in Int : x = s.best /\ y = s.progress  BY <1>1
  <2>2. PICK m : m = Max({x, y})  OBVIOUS
  <2>3. m \in {x, y}  BY <2>2, MaxPair
  <2> QED  BY <2>1, <2>2, <2>3
<1>3. PICK n \in Nat : n = (IF s.progress >= s.best + Margin THEN 0 ELSE s.stagnant + 1) /\ n <= s.stagnant + 1
  BY <1>1 DEF AttemptAssumption
<1>4. t = [s EXCEPT !.stagnant = n, !.best = b, !.active = 0, !.progress = -1, !.fatal = f]
  BY <1>2, <1>3 DEF Failed
<1>5. -1 \in Int /\ 0 \in Nat  OBVIOUS
<1>6. /\ t \in StateType /\ t.attempts = s.attempts /\ t.stagnant = n
      /\ t.active = 0 /\ t.progress = -1 /\ t.fatal = f
  BY <1>4, <1>5, Zenon DEF StateType
<1> QED  BY <1>3, <1>6

LEMMA RedisFacts ==
    ASSUME NEW r \in RedisType
    PROVE  /\ r.published \in Nat /\ r.terminal \in BOOLEAN /\ r.poisoned \in BOOLEAN
           /\ r.retained \in SUBSET Nat /\ r.bytes \in Nat
           /\ r.done \in [Groups -> Int] /\ r.read \in [Groups -> Nat]
           /\ \A g \in Groups : r.done[g] \in Int /\ r.read[g] \in Nat
BY DEF RedisType

LEMMA PoisonFacts ==
    ASSUME NEW r \in RedisType, NEW t, t = [r EXCEPT !.poisoned = TRUE]
    PROVE  /\ t \in RedisType /\ t.published = r.published /\ t.terminal = r.terminal
           /\ t.poisoned = TRUE /\ t.retained = r.retained /\ t.bytes = r.bytes
           /\ t.done = r.done /\ t.read = r.read
<1>1. TRUE \in BOOLEAN  OBVIOUS
<1> QED  BY <1>1, Zenon DEF RedisType

LEMMA PubFacts ==
    ASSUME NEW p \in PubType
    PROVE  /\ p.pc \in PubPcs /\ p.first \in Nat /\ p.next \in Nat
           /\ p.blocking \in BOOLEAN /\ p.attempted \in BOOLEAN
BY DEF PubType

LEMMA ConFacts ==
    ASSUME NEW c \in [Groups -> ConType], NEW g \in Groups
    PROVE  c[g] \in ConType /\ c[g].pc \in ConPcs /\ c[g].applied \in Nat /\ c[g].completed \in Int
<1>1. c[g] \in ConType  OBVIOUS
<1> QED  BY <1>1 DEF ConType

LEMMA SpentFacts ==
    ASSUME NEW s \in SpentType
    PROVE  /\ s.faults \in Nat /\ s.own \in Nat /\ s.kills \in Nat
           /\ \A t : t = [s EXCEPT !.faults = @ + 1] =>
                t \in SpentType /\ t.faults > 0 /\ t.own = s.own
           /\ \A t : t = [s EXCEPT !.own = @ + 1] =>
                t \in SpentType /\ t.own > 0 /\ t.faults = s.faults
           /\ \A t : t = [s EXCEPT !.kills = @ + 1] =>
                t \in SpentType /\ t.own = s.own /\ t.faults = s.faults
BY DEF SpentType

LEMMA RunningFacts ==
    ASSUME TypeOK, NEW p \in Running
    PROVE  p \in Participants /\ code[p] = "running" /\ Waits(p)
BY DEF Running, Waits

\* One participant exits.
LEMMA ExitFacts ==
    ASSUME TypeOK, NEW p \in Participants, NEW c \in Exits, Exit(p, c)
    PROVE  /\ code' \in [Participants -> Codes] /\ code'[p] = c
           /\ \A q \in Participants : q # p => code'[q] = code[q]
<1>1. code \in [Participants -> Codes] /\ c \in Codes  BY DEF TypeOK, Codes
<1> QED  BY <1>1 DEF Exit

-----------------------------------------------------------------------------
(* A participant moves                                                     *)

\* While a participant runs its attempt is active and neither recorded nor whole.
LEMMA Alive ==
    ASSUME IInv, NEW p \in Running
    PROVE  /\ p \in Participants /\ code[p] = "running" /\ Waits(p) /\ p \notin DOMAIN sup.codes
           /\ ~FreshStream /\ ~WholeStream /\ state.active # 0 /\ success = 0 /\ ~sup.success
           /\ sup.pc \notin {"loop", "launch", "commit"}
           /\ sup.pc = "poll" /\ ~sup.joined => p = Publisher
<1>1. p \in Participants /\ code[p] = "running" /\ Waits(p)  BY RunningFacts DEF IInv
<1>2. ~FreshStream
  <2>1. FreshStream => code[p] = "none"  BY <1>1 DEF FreshStream
  <2> QED  BY <1>1, <2>1
<1>3. ~WholeStream  BY <1>1 DEF WholeStream
<1>4. p \notin DOMAIN sup.codes  BY <1>1 DEF IInv, SupInv
<1>5. state.active # 0 /\ sup.pc \notin {"loop", "launch", "commit"} /\ ~sup.success /\ success = 0
  BY <1>2, <1>3 DEF IInv, SupInv
<1>6. sup.pc = "poll" /\ ~sup.joined => p = Publisher  BY <1>1 DEF IInv, SupInv, Participants
<1> QED  BY <1>1, <1>2, <1>3, <1>4, <1>5, <1>6

\* It moves without ending: what the supervisor knows stays true.
LEMMA MoveStep ==
    ASSUME IInv, NEW p \in Running, TypeOK', PubInv', QueueInv', redis'.poisoned = redis.poisoned,
           UNCHANGED <<supervisor, code, spent>>
    PROVE  IInv'
<1>0. UNCHANGED <<state, result, success, sup, launched, inputs, code, spent>>  BY DEF supervisor
<1>1. /\ state.active # 0 /\ success = 0 /\ ~sup.success /\ sup.pc \notin {"loop", "launch", "commit"}
  BY Alive
<1>2. SupInv'  BY <1>0, <1>1 DEF IInv, SupInv
<1>3. BudgetInv'  BY <1>0 DEF IInv, BudgetInv
<1>4. SuccessInv'  BY <1>0, <1>1 DEF SuccessInv
<1>5. CalmInv'  BY <1>0 DEF IInv, CalmInv, Unspoilt
<1> QED  BY <1>2, <1>3, <1>4, <1>5 DEF IInv

\* What Redis holds after a command of p, seen by the others.
Follows(p, r) ==
    /\ r \in RedisType
    /\ r.retained = {n \in 1..r.published : \E g \in Groups : r.done[g] < n}
    /\ r.bytes = Cardinality(r.retained) /\ r.bytes <= QueueLimit
    /\ \A g \in Groups : /\ redis.done[g] <= r.done[g] /\ r.done[g] <= con[g].applied
                         /\ g # p => r.done[g] = redis.done[g]
    /\ r.read = redis.read
    /\ redis.published <= r.published /\ (p # Publisher => r.published = redis.published)
    /\ redis.terminal => r.terminal
    /\ r.terminal => r.published = LastEntry

LEMMA SameFollows == ASSUME IInv, NEW p PROVE Follows(p, redis)
<1>1. redis \in RedisType /\ redis.published \in Nat /\ \A g \in Groups : redis.done[g] \in Int
  BY RedisFacts DEF IInv, TypeOK
<1> QED  BY <1>1 DEF IInv, QueueInv, Follows

LEMMA PoisonFollows ==
    ASSUME NEW p, NEW r, Follows(p, r), NEW t, t = [r EXCEPT !.poisoned = TRUE]
    PROVE  Follows(p, t)
<1>1. r \in RedisType  BY DEF Follows
<1>2. /\ t \in RedisType /\ t.published = r.published /\ t.terminal = r.terminal
      /\ t.retained = r.retained /\ t.bytes = r.bytes /\ t.done = r.done /\ t.read = r.read
  BY <1>1, PoisonFacts
<1> QED  BY <1>2 DEF Follows

\* A participant ends, with whatever its last command did.
LEMMA EndStep ==
    ASSUME IInv, NEW p \in Running, NEW c \in Exits, Exit(p, c), Follows(p, redis'),
           c = "0" /\ p = Publisher => pub.pc = "exit",
           spent' \in SpentType, Unspoilt' => Unspoilt /\ redis'.poisoned = redis.poisoned /\ c # "fatal",
           UNCHANGED <<supervisor, attested, pub, con, ready>>
    PROVE  IInv'
<1>0. UNCHANGED <<state, result, success, sup, launched, inputs, attested, pub, con, ready>>
  BY DEF supervisor
<1>1. /\ p \in Participants /\ code[p] = "running" /\ Waits(p) /\ p \notin DOMAIN sup.codes
      /\ state.active # 0 /\ success = 0 /\ ~sup.success /\ sup.pc \notin {"loop", "launch", "commit"}
      /\ sup.pc = "poll" /\ ~sup.joined => p = Publisher
  BY Alive
<1>2. /\ code' \in [Participants -> Codes] /\ code'[p] = c
      /\ \A q \in Participants : q # p => code'[q] = code[q]
  BY <1>1, ExitFacts DEF IInv
<1>3. ~Waits(p)' /\ c \notin {"none", "running"}  BY <1>2 DEF Waits, Exits
<1>4. redis' \in RedisType /\ redis \in RedisType  BY DEF Follows, IInv, TypeOK
<1>5. TypeOK'  BY <1>0, <1>2, <1>4 DEF IInv, TypeOK
<1>6. PubInv'
  <2>1. pub.pc = "exit" => redis'.terminal  BY DEF IInv, PubInv, Follows
  <2>2. code'[Publisher] = "0" => pub.pc = "exit"  BY <1>2 DEF IInv, PubInv, Participants
  <2>3. Waits(Publisher)' => pub.first = redis'.published
    <3>1. CASE p = Publisher  BY <1>3, <3>1
    <3>2. CASE p # Publisher
      <4>1. Waits(Publisher)' => Waits(Publisher)  BY <1>2, <3>2 DEF Waits, Participants
      <4> QED  BY <3>2, <4>1 DEF IInv, PubInv, Follows
    <3> QED  BY <3>1, <3>2
  <2> QED  BY <1>0, <2>1, <2>2, <2>3 DEF IInv, PubInv
<1>7. QueueInv'
  <2>1. ASSUME NEW g \in Groups
        PROVE  /\ redis'.done[g] <= con[g].applied /\ con[g].applied <= redis'.published
               /\ redis'.read[g] = con[g].applied /\ state.progress <= redis'.done[g]
               /\ Waits(g)' => redis'.done[g] = con[g].completed
    <3>1. /\ redis.done[g] \in Int /\ redis'.done[g] \in Int /\ redis.published \in Nat
          /\ redis'.published \in Nat /\ con[g].applied \in Nat /\ state.progress \in Int
      BY <1>4, RedisFacts, ConFacts, StateFacts DEF IInv, TypeOK
    <3>2. /\ redis'.done[g] <= con[g].applied /\ redis.done[g] <= redis'.done[g]
          /\ redis.published <= redis'.published /\ redis'.read[g] = redis.read[g]
      BY DEF Follows
    <3>3. /\ con[g].applied <= redis.published /\ redis.read[g] = con[g].applied
          /\ state.progress <= redis.done[g] /\ (Waits(g) => redis.done[g] = con[g].completed)
      BY DEF IInv, QueueInv
    <3>4. Waits(g)' => g # p /\ Waits(g)  BY <1>2, <1>3 DEF Waits, Participants
    <3>5. g # p => redis'.done[g] = redis.done[g]  BY DEF Follows
    <3> QED  BY <3>1, <3>2, <3>3, <3>4, <3>5
  <2> QED  BY <1>0, <2>1 DEF QueueInv, Follows
<1>8. SupInv'
  <2>1. \A q \in DOMAIN sup.codes : code'[q] = "0"
    <3>1. \A q \in DOMAIN sup.codes : q \in Participants
      <4>1. sup.codes \in UNION {[S -> {"0"}] : S \in SUBSET Participants}  BY DEF IInv, TypeOK, SupType
      <4> QED  BY <4>1
    <3> QED  BY <1>1, <1>2, <3>1 DEF IInv, SupInv
  <2>2. sup.pc = "poll" /\ ~sup.joined => \A g \in Groups : code'[g] = "none"
    <3> SUFFICES ASSUME sup.pc = "poll", ~sup.joined, NEW g \in Groups PROVE code'[g] = "none"  OBVIOUS
    <3>1. code[g] = "none"  BY DEF IInv, SupInv
    <3> QED  BY <1>1, <1>2, <3>1 DEF Participants
  <2> QED  BY <1>0, <1>1, <2>1, <2>2 DEF IInv, SupInv
<1>9. BudgetInv'  BY <1>0 DEF IInv, BudgetInv
<1>10. SuccessInv'  BY <1>0, <1>1 DEF SuccessInv
<1>11. CalmInv'
  <2> SUFFICES ASSUME Unspoilt'
               PROVE  /\ inputs /\ ~redis'.poisoned /\ ~sup.poison /\ ~sup.fatal
                      /\ \A q \in Participants : code'[q] # "fatal"
                      /\ \A a \in 1..Attempts : ~result[a].fatal
    BY <1>0 DEF CalmInv
  <2> QED  BY <1>2 DEF IInv, CalmInv
<1> QED  BY <1>5, <1>6, <1>7, <1>8, <1>9, <1>10, <1>11 DEF IInv

-----------------------------------------------------------------------------
(* The attempt script                                                      *)

\* An append takes the prefix that fits, counts it, and breaks nothing.
LEMMA AppendFacts ==
    ASSUME AttemptAssumption, IInv, Waits(Publisher), NEW n \in Nat, NEW last \in BOOLEAN,
           n <= pub.next - pub.first, last => pub.first + n = LastEntry, NEW k, k = Accepted(n), NEW r, r = Append(n, last)
    PROVE  /\ k \in Nat /\ k <= n /\ Follows(Publisher, r)
           /\ r.published = pub.first + k /\ r.poisoned = redis.poisoned
           /\ r.terminal = (redis.terminal \/ (k = n /\ last /\ k > 0))
           /\ r.done = redis.done /\ r.read = redis.read
<1>1. /\ redis \in RedisType /\ redis.published \in Nat /\ redis.terminal \in BOOLEAN
      /\ redis.retained \in SUBSET Nat /\ redis.bytes \in Nat /\ \A g \in Groups : redis.done[g] \in Int
  BY RedisFacts DEF IInv, TypeOK
<1>2. PICK f \in Nat : f = pub.first /\ f = redis.published  BY <1>1 DEF IInv, PubInv
<1>3. PICK b \in Nat : b = redis.bytes /\ b <= QueueLimit /\ b = Cardinality(redis.retained)
  BY <1>1 DEF IInv, QueueInv
<1>4. k \in Nat /\ k <= n /\ b + k <= QueueLimit
  <2>1. QueueLimit \in Nat  BY CapacityFacts
  <2>2. PICK m \in Int : m = QueueLimit - b /\ m >= 0  BY <1>3, <2>1
  <2>3. PICK x \in Int : x = n  OBVIOUS
  <2>4. k = Min({x, m})  BY <1>3, <2>2, <2>3 DEF Accepted
  <2>5. k \in {x, m} /\ k <= x /\ k <= m  BY <2>4, MinPair
  <2> QED  BY <2>1, <2>2, <2>3, <2>5
<1>5. PICK t \in BOOLEAN : t = (redis.terminal \/ (k = n /\ last /\ k > 0))  BY <1>1
<1>6. PICK S \in SUBSET Nat : S = redis.retained \cup ((f + 1)..(f + k))
  <2>1. (f + 1)..(f + k) \subseteq Nat  BY <1>4
  <2>2. redis.retained \cup ((f + 1)..(f + k)) \in SUBSET Nat  BY <1>1, <2>1
  <2> QED  BY <2>2
<1>7. PICK u \in Nat : u = f + k  BY <1>4
<1>8. PICK c \in Nat : c = b + k  BY <1>4
<1>9. r = [redis EXCEPT !.published = u, !.terminal = t, !.retained = S, !.bytes = c]
  BY <1>2, <1>3, <1>5, <1>6, <1>7, <1>8 DEF Append
<1>10. /\ r \in RedisType /\ r.published = u /\ r.terminal = t /\ r.retained = S /\ r.bytes = c
       /\ r.poisoned = redis.poisoned /\ r.done = redis.done /\ r.read = redis.read
  BY <1>1, <1>9, Zenon DEF RedisType
<1>11. \A g \in Groups : redis.done[g] <= f /\ redis.done[g] <= con[g].applied
  <2> SUFFICES ASSUME NEW g \in Groups PROVE redis.done[g] <= f /\ redis.done[g] <= con[g].applied
    OBVIOUS
  <2>1. con[g].applied \in Nat  BY ConFacts DEF IInv, TypeOK
  <2>2. redis.done[g] <= con[g].applied /\ con[g].applied <= f  BY <1>2 DEF IInv, QueueInv
  <2> QED  BY <1>1, <2>1, <2>2
<1>12. PICK R : R = redis.retained /\ R = {m \in 1..f : \E g \in Groups : redis.done[g] < m}
  BY <1>2 DEF IInv, QueueInv
<1>13. S = {m \in 1..u : \E g \in Groups : redis.done[g] < m}
  <2>1. PICK g0 : g0 \in Groups  BY DEF AttemptAssumption
  <2>2. \A m \in (f + 1)..(f + k) : redis.done[g0] < m  BY <1>1, <1>11, <2>1
  <2>3. \A m : m \in 1..u <=> m \in 1..f \/ m \in (f + 1)..(f + k)  BY <1>4, <1>7
  <2> QED  BY <1>6, <1>12, <2>1, <2>2, <2>3
<1>14. c = Cardinality(S)
  <2>1. R \subseteq 1..f  BY <1>12
  <2>2. IsFiniteSet(1..f)  BY FS_Interval
  <2>3. IsFiniteSet(R)  BY <2>1, <2>2, FS_Subset
  <2>4. PICK T : T = (f + 1)..(f + k)  OBVIOUS
  <2>5. IsFiniteSet(T) /\ Cardinality(T) = k
    <3>1. f + 1 \in Int /\ f + k \in Int  BY <1>4
    <3>2. IsFiniteSet(T) /\ Cardinality(T) = IF f + 1 > f + k THEN 0 ELSE (f + k) - (f + 1) + 1
      BY <2>4, <3>1, FS_Interval
    <3> QED  BY <1>4, <3>2
  <2>6. R \cap T = {}  BY <1>4, <2>1, <2>4
  <2>7. Cardinality(R \cup T) = Cardinality(R) + Cardinality(T) - Cardinality(R \cap T)
    BY <2>3, <2>5, FS_Union
  <2>8. Cardinality(R \cap T) = 0  BY <2>6, FS_EmptySet
  <2>9. S = R \cup T  BY <1>6, <1>12, <2>4
  <2> QED  BY <1>3, <1>4, <1>8, <1>12, <2>5, <2>7, <2>8, <2>9
<1>15. t => u = LastEntry
  <2>1. redis.terminal => f = LastEntry /\ k = 0
    <3>1. redis.terminal => f = LastEntry  BY <1>2 DEF IInv, QueueInv
    <3>2. PICK nx \in Nat : nx = pub.next /\ f <= nx /\ nx <= LastEntry  BY <1>2, PubFacts DEF IInv, TypeOK, PubInv
    <3> QED  BY <1>2, <1>4, <3>1, <3>2, CapacityFacts
  <2>2. t => redis.terminal \/ (k = n /\ last)  BY <1>5
  <2>3. redis.terminal => u = LastEntry  BY <1>7, <2>1
  <2>4. k = n /\ last => u = LastEntry  BY <1>2, <1>7
  <2> QED  BY <2>2, <2>3, <2>4
<1>16. Follows(Publisher, r)
  BY <1>1, <1>2, <1>3, <1>4, <1>5, <1>7, <1>8, <1>10, <1>11, <1>13, <1>14, <1>15 DEF Follows
<1> QED  BY <1>2, <1>4, <1>5, <1>7, <1>10, <1>16

\* An acknowledgement frees what every group has acknowledged, and only that.
LEMMA AckFacts ==
    ASSUME AttemptAssumption, IInv, NEW g \in Groups, NEW r, r = Ack(g)
    PROVE  /\ Follows(g, r) /\ r.published = redis.published /\ r.terminal = redis.terminal
           /\ r.poisoned = redis.poisoned /\ r.done[g] = con[g].applied /\ r.read = redis.read
<1>1. /\ redis \in RedisType /\ redis.published \in Nat /\ redis.retained \in SUBSET Nat
      /\ redis.bytes \in Nat /\ redis.done \in [Groups -> Int] /\ \A h \in Groups : redis.done[h] \in Int
  BY RedisFacts DEF IInv, TypeOK
<1>2. /\ con[g].applied \in Nat
      /\ \A h \in Groups : con[h].applied \in Nat /\ redis.done[h] <= con[h].applied
  BY ConFacts DEF IInv, TypeOK, QueueInv
<1>3. PICK d \in [Groups -> Int] : d = [redis.done EXCEPT ![g] = con[g].applied]
  <2>1. [redis.done EXCEPT ![g] = con[g].applied] \in [Groups -> Int]  BY <1>1, <1>2
  <2> QED  BY <2>1
<1>4. /\ \A h \in Groups : d[h] \in Int /\ redis.done[h] <= d[h] /\ d[h] <= con[h].applied
      /\ d[g] = con[g].applied /\ \A h \in Groups : h # g => d[h] = redis.done[h]
  BY <1>1, <1>2, <1>3
<1>5. PICK R : R = redis.retained /\ R = {m \in 1..redis.published : \E h \in Groups : redis.done[h] < m}
  BY DEF IInv, QueueInv
<1>6. PICK G : G = {m \in R : \A h \in Groups : m <= d[h]}  OBVIOUS
<1>7. R \ G = {m \in 1..redis.published : \E h \in Groups : d[h] < m}
  <2>1. \A m \in 1..redis.published, h \in Groups : d[h] < m => redis.done[h] < m
    BY <1>1, <1>4
  <2>2. \A m \in 1..redis.published, h \in Groups : m <= d[h] <=> ~(d[h] < m)  BY <1>1, <1>4
  <2> QED  BY <1>5, <1>6, <2>1, <2>2
<1>8. /\ IsFiniteSet(R) /\ Cardinality(R) \in Nat /\ Cardinality(G) \in Nat
      /\ Cardinality(R \ G) \in Nat /\ Cardinality(R \ G) = Cardinality(R) - Cardinality(G)
  <2>0. PICK u \in Nat : u = redis.published  BY <1>1
  <2>1. R \subseteq 1..u /\ IsFiniteSet(1..u)
    <3>1. 1 \in Int /\ u \in Int  OBVIOUS
    <3>2. IsFiniteSet(1..u)  BY <3>1, FS_Interval
    <3>3. R \subseteq 1..u  BY <1>5, <2>0
    <3> QED  BY <3>2, <3>3
  <2>2. IsFiniteSet(R)  BY <2>1, FS_Subset
  <2>3. G \subseteq R /\ R \cap G = G  BY <1>6
  <2>4. IsFiniteSet(G) /\ IsFiniteSet(R \ G)  BY <2>2, <2>3, FS_Subset, FS_Difference
  <2>5. Cardinality(R \ G) = Cardinality(R) - Cardinality(R \cap G)  BY <2>2, FS_Difference
  <2> QED  BY <2>2, <2>3, <2>4, <2>5, FS_CardinalityType
<1>9. PICK c \in Nat : c = Cardinality(R \ G) /\ c = redis.bytes - Cardinality(G) /\ c <= redis.bytes
  <2>1. redis.bytes = Cardinality(R)  BY <1>5 DEF IInv, QueueInv
  <2> QED  BY <1>8, <2>1
<1>10. PICK T \in SUBSET Nat : T = R \ G  BY <1>1, <1>5
<1>11. r = [redis EXCEPT !.done = d, !.retained = T, !.bytes = c]
  BY <1>3, <1>5, <1>6, <1>9, <1>10 DEF Ack
<1>12. /\ r \in RedisType /\ r.done = d /\ r.retained = T /\ r.bytes = c
       /\ r.published = redis.published /\ r.terminal = redis.terminal
       /\ r.poisoned = redis.poisoned /\ r.read = redis.read
  BY <1>1, <1>11, Zenon DEF RedisType
<1>13. c <= QueueLimit
  <2>1. redis.bytes <= QueueLimit  BY DEF IInv, QueueInv
  <2> QED  BY <1>1, <1>9, <2>1, CapacityFacts
<1>14. redis.terminal => redis.published = LastEntry  BY DEF IInv, QueueInv
<1>15. Follows(g, r)
  BY <1>1, <1>4, <1>7, <1>9, <1>10, <1>12, <1>13, <1>14 DEF Follows
<1> QED  BY <1>4, <1>12, <1>15

\* What a poll is given continues what the group was given before.
LEMMA GivenFacts ==
    ASSUME AttemptAssumption, IInv, NEW g \in Groups, Given(g) # {}
    PROVE  /\ Given(g) = (con[g].applied + 1)..Max(Given(g)) /\ Max(Given(g)) \in Nat
           /\ con[g].applied < Max(Given(g)) /\ Max(Given(g)) <= redis.published
<1>1. PICK a \in Nat : a = con[g].applied  BY ConFacts DEF IInv, TypeOK
<1>2. PICK u \in Nat : u = redis.published  BY RedisFacts DEF IInv, TypeOK
<1>3. redis.read[g] = a /\ redis.done[g] <= a /\ redis.done[g] \in Int
  BY <1>1, RedisFacts DEF IInv, TypeOK, QueueInv
<1>4. PICK U : U = Unread(g) /\ U = (a + 1)..u
  <2>1. redis.retained = {n \in 1..u : \E h \in Groups : redis.done[h] < n}  BY <1>2 DEF IInv, QueueInv
  <2>2. \A n \in (a + 1)..u : redis.done[g] < n /\ n \in 1..u /\ n > a  BY <1>3
  <2>3. \A n \in 1..u : n > a => n \in (a + 1)..u  OBVIOUS
  <2>4. Unread(g) = (a + 1)..u  BY <1>3, <2>1, <2>2, <2>3 DEF Unread
  <2> QED  BY <2>4
<1>5. ASSUME NEW n \in U PROVE Cardinality({m \in U : m <= n}) = n - a
  <2>1. n \in (a + 1)..u  BY <1>4, <1>5
  <2>2. {m \in U : m <= n} = (a + 1)..n  BY <1>4, <2>1
  <2>3. a + 1 \in Int /\ n \in Int  BY <2>1
  <2>4. Cardinality((a + 1)..n) = IF a + 1 > n THEN 0 ELSE n - (a + 1) + 1  BY <2>3, FS_Interval
  <2>5. ~(a + 1 > n)  BY <2>1
  <2>6. Cardinality((a + 1)..n) = n - (a + 1) + 1  BY <2>4, <2>5
  <2>7. n - (a + 1) + 1 = n - a  BY <2>3
  <2> QED  BY <2>2, <2>6, <2>7
<1>6. PICK R \in Nat : R = ReadEntries  BY CapacityFacts
<1>7. PICK z \in Nat : z = IF u <= a + R THEN u ELSE a + R  OBVIOUS
<1>8. Given(g) = (a + 1)..z
  <2>1. Given(g) = {n \in U : n - a <= R}  BY <1>4, <1>5, <1>6 DEF Given
  <2> QED  BY <1>4, <1>7, <2>1
<1>9. a < z  BY <1>8
<1>10. Max(Given(g)) = z
  <2>1. z \in Given(g) /\ \A y \in Given(g) : z >= y  BY <1>8, <1>9
  <2>2. \A x \in Given(g) : x >= z => x = z  BY <1>8
  <2>3. \E x \in Given(g) : \A y \in Given(g) : x >= y  BY <2>1
  <2>4. PICK w : w = Max(Given(g)) /\ w \in Given(g) /\ \A y \in Given(g) : w >= y  BY <2>3 DEF Max
  <2> QED  BY <2>1, <2>2, <2>4
<1> QED  BY <1>1, <1>2, <1>7, <1>8, <1>9, <1>10

-----------------------------------------------------------------------------
(* The steps of a participant that goes on                                 *)

LEMMA PubInsertStep == ASSUME AttemptAssumption, IInv, PubInsert PROVE IInv'
<1>1. /\ UNCHANGED <<supervisor, attested, redis, con, ready, code, spent>>
      /\ Publisher \in Running /\ pub.pc \in {"setup", "step"}
  BY DEF PubInsert
<1>2. /\ pub \in PubType /\ pub.first \in Nat /\ pub.next \in Nat
      /\ pub.first <= pub.next /\ pub.next < LastEntry /\ pub.next - pub.first < Capacity
      /\ (pub.pc = "setup" => pub.next = 0) /\ (pub.pc = "step" => ready) /\ (~ready => pub.next <= 1)
  BY <1>1, PubFacts DEF IInv, TypeOK, PubInv
<1>3. PICK n \in Nat : n = pub.next + 1  BY <1>2
<1>4. PICK last \in BOOLEAN : last = (pub.pc = "setup" \/ n = LastEntry)  OBVIOUS
<1>5. PICK a : a = AfterInsert(n, last)  OBVIOUS
<1>6. /\ a.pc \in {"append", "step"} /\ a.blocking \in BOOLEAN
      /\ ((a.pc = "append" /\ a.blocking) \/ n - pub.first < Capacity)
      /\ (last => a.pc = "append" /\ a.blocking)
  <2>1. CASE last \/ n - pub.first >= Capacity
    <3>1. a = [pc |-> "append", blocking |-> TRUE]  BY <1>5, <2>1 DEF AfterInsert
    <3> QED  BY <3>1
  <2>2. CASE ~(last \/ n - pub.first >= Capacity)
    <3>1. a \in {[pc |-> "append", blocking |-> FALSE], [pc |-> "step", blocking |-> FALSE]}
      BY <1>5, <2>2 DEF AfterInsert
    <3>2. n - pub.first < Capacity  BY <1>2, <2>2, CapacityFacts
    <3>3. a.pc \in {"append", "step"} /\ a.blocking = FALSE  BY <3>1
    <3> QED  BY <2>2, <3>2, <3>3
  <2> QED  BY <2>1, <2>2
<1>7. pub' = [pub EXCEPT !.next = n, !.pc = a.pc, !.blocking = a.blocking]
  BY <1>3, <1>4, <1>5 DEF PubInsert
<1>8. a.pc \in PubPcs  BY <1>6 DEF PubPcs
<1>9. /\ pub' \in PubType /\ pub'.next = n /\ pub'.pc = a.pc /\ pub'.blocking = a.blocking
      /\ pub'.first = pub.first
  BY <1>2, <1>3, <1>6, <1>7, <1>8, Zenon DEF PubType
<1>10. TypeOK'  BY <1>1, <1>9 DEF IInv, TypeOK, supervisor
<1>11. PubInv'
  <2>1. Waits(Publisher)' = Waits(Publisher) /\ code'[Publisher] = code[Publisher]  BY <1>1 DEF Waits
  <2>2. code[Publisher] # "0" /\ (Waits(Publisher) => pub.first = redis.published)
    BY <1>1, RunningFacts DEF IInv, PubInv
  <2>3. pub.first <= n /\ n <= LastEntry /\ n - pub.first <= Capacity /\ pub.first < n
    BY <1>2, <1>3, CapacityFacts
  <2>4. (pub.pc # "setup" => ready) /\ (~last => n < LastEntry /\ ready) /\ (~ready => n <= 1)
    <3>1. pub.pc # "setup" => ready  BY <1>1, <1>2
    <3>2. ~last => pub.pc # "setup" /\ n # LastEntry  BY <1>4
    <3>3. n # LastEntry => n < LastEntry  BY <2>3, CapacityFacts
    <3>4. pub.pc = "setup" => n <= 1  BY <1>2, <1>3
    <3> QED  BY <3>1, <3>2, <3>3, <3>4
  <2>5. a.pc = "step" => n < LastEntry /\ ready /\ n - pub.first < Capacity  BY <1>6, <2>4
  <2>6. n = LastEntry => last  BY <1>4
  <2> HIDE DEF Capacity
  <2> QED  BY <1>1, <1>6, <1>9, <2>1, <2>2, <2>3, <2>4, <2>5, <2>6 DEF PubInv
<1>12. QueueInv'
  <2>1. \A g \in Groups : Waits(g)' = Waits(g)  BY <1>1 DEF Waits
  <2> QED  BY <1>1, <2>1 DEF IInv, QueueInv, supervisor
<1> QED  BY <1>1, <1>10, <1>11, <1>12, MoveStep

LEMMA PubReadyStep == ASSUME AttemptAssumption, IInv, PubReady PROVE IInv'
<1>1. /\ UNCHANGED <<supervisor, attested, redis, con, code, spent>> /\ ready' = TRUE
      /\ Publisher \in Running /\ pub.pc = "ready" /\ pub' = [pub EXCEPT !.pc = "step"]
  BY DEF PubReady
<1>2. pub \in PubType /\ "step" \in PubPcs  BY DEF IInv, TypeOK, PubPcs
<1>3. /\ pub' \in PubType /\ pub'.next = pub.next /\ pub'.pc = "step" /\ pub'.first = pub.first
  BY <1>1, <1>2, Zenon DEF PubType
<1>4. TypeOK'  BY <1>1, <1>3 DEF IInv, TypeOK, supervisor
<1>5. PubInv'
  <2>1. Waits(Publisher)' = Waits(Publisher) /\ code'[Publisher] = code[Publisher]  BY <1>1 DEF Waits
  <2>2. code[Publisher] # "0"  BY <1>1, RunningFacts DEF IInv
  <2> QED  BY <1>1, <1>3, <2>1, <2>2 DEF IInv, PubInv
<1>6. QueueInv'
  <2>1. \A g \in Groups : Waits(g)' = Waits(g)  BY <1>1 DEF Waits
  <2> QED  BY <1>1, <2>1 DEF IInv, QueueInv, supervisor
<1> QED  BY <1>1, <1>4, <1>5, <1>6, MoveStep

\* What one append call sends.
LEMMA CallFacts ==
    ASSUME AttemptAssumption, IInv, pub.pc = "append", NEW s, s = CallLength
    PROVE  s \in Nat /\ s > 0 /\ s <= pub.next - pub.first
           /\ (pub.next = LastEntry /\ s = Buffered => pub.first + s = LastEntry)
<1>1. PICK f \in Nat, x \in Nat : f = pub.first /\ x = pub.next /\ f < x
  BY PubFacts DEF IInv, TypeOK, PubInv
<1>2. PICK b \in Int : b = x - f /\ b > 0  BY <1>1
<1>3. PICK q \in Int : q = QueueLimit /\ q > 0  BY CapacityFacts
<1>4. s = Min({b, q})  BY <1>1, <1>2, <1>3 DEF CallLength, Buffered
<1>5. s \in {b, q} /\ s <= b /\ s <= q  BY <1>4, MinPair
<1> QED  BY <1>1, <1>2, <1>3, <1>5 DEF Buffered

LEMMA PubAppendStep == ASSUME AttemptAssumption, IInv, PubAppend PROVE IInv'
<1>1. /\ UNCHANGED <<supervisor, attested, con, ready, code, spent>>
      /\ Publisher \in Running /\ pub.pc = "append"
  BY DEF PubAppend
<1>2. /\ pub \in PubType /\ pub.first \in Nat /\ pub.next \in Nat /\ pub.attempted \in BOOLEAN
      /\ pub.blocking \in BOOLEAN
  BY PubFacts DEF IInv, TypeOK
<1>3. /\ code[Publisher] = "running" /\ Waits(Publisher)  BY <1>1, RunningFacts DEF IInv
<1>4. PICK s : s = CallLength  OBVIOUS
<1>5. /\ s \in Nat /\ s > 0 /\ s <= pub.next - pub.first
      /\ (pub.next = LastEntry /\ s = Buffered => pub.first + s = LastEntry)
  BY <1>1, <1>4, CallFacts
<1>6. PICK l \in BOOLEAN : l = (pub.next = LastEntry /\ s = Buffered)  OBVIOUS
<1>7. PICK k : k = Accepted(s)  OBVIOUS
<1>8. redis' = Append(s, l) /\ pub' = AfterAppend(s, k)  BY <1>4, <1>6, <1>7 DEF PubAppend
<1>9. /\ k \in Nat /\ k <= s /\ Follows(Publisher, redis')
      /\ redis'.published = pub.first + k /\ redis'.poisoned = redis.poisoned
      /\ redis'.terminal = (redis.terminal \/ (k = s /\ l /\ k > 0))
      /\ redis'.done = redis.done /\ redis'.read = redis.read
  <2>1. l => pub.first + s = LastEntry  BY <1>5, <1>6
  <2>2. PICK r : r = redis'  OBVIOUS
  <2>3. r = Append(s, l)  BY <1>8, <2>2
  <2>4. /\ k \in Nat /\ k <= s /\ Follows(Publisher, r)
        /\ r.published = pub.first + k /\ r.poisoned = redis.poisoned
        /\ r.terminal = (redis.terminal \/ (k = s /\ l /\ k > 0))
        /\ r.done = redis.done /\ r.read = redis.read
    BY <1>3, <1>5, <1>7, <2>1, <2>3, AppendFacts
  <2> QED  BY <2>2, <2>4
<1>10. PICK left \in Nat : left = pub.next - pub.first - k  BY <1>2, <1>5, <1>9
<1>11. PICK over \in BOOLEAN : over = (left = 0 \/ (k < s /\ ~pub.blocking))  OBVIOUS
<1>12. PICK pc \in PubPcs : pc = IF over THEN Drained ELSE "append"  BY DEF Drained, PubPcs
<1>13. PICK at \in BOOLEAN : at = IF left = 0 THEN FALSE ELSE pub.attempted \/ (k < s /\ ~pub.blocking)
  BY <1>2
<1>14. PICK f \in Nat : f = pub.first + k  BY <1>2, <1>9
<1>15. pub' = [pub EXCEPT !.first = f, !.pc = pc, !.attempted = at]
  BY <1>8, <1>10, <1>11, <1>12, <1>13, <1>14 DEF AfterAppend, Buffered
<1>16. /\ pub' \in PubType /\ pub'.first = f /\ pub'.pc = pc /\ pub'.next = pub.next
       /\ pub'.blocking = pub.blocking
  BY <1>2, <1>12, <1>13, <1>14, <1>15, Zenon DEF PubType
<1>17. TypeOK'
  <2>1. redis' \in RedisType  BY <1>9 DEF Follows
  <2> QED  BY <1>1, <1>16, <2>1 DEF IInv, TypeOK, supervisor
<1>18. PubInv'
  <2>1. Waits(Publisher)' = Waits(Publisher) /\ code'[Publisher] = "running"  BY <1>1, <1>3 DEF Waits
  <2>2. /\ pub.next <= LastEntry /\ pub.next - pub.first <= Capacity
        /\ (~pub.blocking => pub.next - pub.first < Capacity)
        /\ (pub.next = LastEntry => pub.blocking) /\ (~ready => pub.next <= 1)
    BY <1>1 DEF IInv, PubInv
  <2>3. PICK x \in Nat, C \in Nat, L \in Nat : x = pub.next /\ C = Capacity /\ L = LastEntry /\ C > 0 /\ L >= 2
    BY <1>2, CapacityFacts
  <2>4. f <= x /\ x - f <= C /\ x - f = left /\ (left # 0 => f < x)
    BY <1>2, <1>5, <1>9, <1>10, <1>14, <2>2, <2>3
  <2>5. ~pub.blocking => x - f < C  BY <1>2, <1>5, <1>9, <1>14, <2>2, <2>3
  <2>6. over => x - f < C  BY <1>11, <2>3, <2>4, <2>5
  <2>7. pc = "append" => ~over  BY <1>12 DEF Drained
  <2>8. over => pc = Drained  BY <1>12
  <2>9. pc \in {"ready", "step"} => x < L
    <3>1. pc \in {"ready", "step"} => over /\ pc = Drained  BY <1>12
    <3>2. ~ready => x < L  BY <2>2, <2>3
    <3> QED  BY <2>2, <2>3, <3>1, <3>2 DEF Drained
  <2>10. pc \in {"step", "exit"} => ready  BY <1>12 DEF Drained
  <2>11. pc = "exit" => redis'.terminal
    <3> SUFFICES ASSUME pc = "exit" PROVE redis'.terminal  OBVIOUS
    <3>1. over /\ pub.next = LastEntry  BY <1>12 DEF Drained
    <3>2. left = 0  BY <1>11, <2>2, <3>1
    <3>3. k = s /\ s = pub.next - pub.first  BY <1>2, <1>5, <1>9, <1>10, <3>2
    <3>4. k > 0 /\ l  BY <1>5, <1>6, <3>1, <3>3 DEF Buffered
    <3> QED  BY <1>9, <3>3, <3>4
  <2>12. pc # "setup"  BY <1>12 DEF Drained
  <2>13. pc = "append" => f < x  BY <1>11, <2>4, <2>7
  <2>14. pc \in {"ready", "step"} => x - f < C  BY <1>12, <2>6
  <2> QED  BY <1>1, <1>9, <1>14, <1>16, <2>1, <2>2, <2>3, <2>4, <2>5, <2>9, <2>10, <2>11, <2>12,
              <2>13, <2>14 DEF PubInv
<1>19. QueueInv'
  <2>1. \A g \in Groups : Waits(g)' = Waits(g)  BY <1>1 DEF Waits
  <2>2. \A g \in Groups : con[g].applied <= redis'.published
    <3> SUFFICES ASSUME NEW g \in Groups PROVE con[g].applied <= redis'.published  OBVIOUS
    <3>1. con[g].applied \in Nat /\ redis.published \in Nat  BY ConFacts, RedisFacts DEF IInv, TypeOK
    <3>2. con[g].applied <= redis.published /\ pub.first = redis.published
      BY <1>3 DEF IInv, QueueInv, PubInv
    <3> QED  BY <1>9, <3>1, <3>2
  <2> QED  BY <1>1, <1>9, <2>1, <2>2 DEF IInv, QueueInv, Follows, supervisor
<1> QED  BY <1>1, <1>9, <1>17, <1>18, <1>19, MoveStep

\* A step of adapter g leaves the others where they are.
LEMMA ConMove ==
    ASSUME NEW c \in [Groups -> ConType], NEW g \in Groups, NEW v \in ConType, NEW d, d = [c EXCEPT ![g] = v]
    PROVE  d \in [Groups -> ConType] /\ d[g] = v /\ \A h \in Groups : h # g => d[h] = c[h]
OBVIOUS

LEMMA PubSame ==
    ASSUME IInv, UNCHANGED <<pub, ready, code>>, redis'.terminal = redis.terminal,
           redis'.published = redis.published
    PROVE  PubInv'
BY DEF IInv, PubInv, Waits

\* Join and Attest move an adapter's own place only.
LEMMA PlaceStep ==
    ASSUME IInv, NEW g \in Groups, g \in Running, NEW pc \in ConPcs, con' = [con EXCEPT ![g].pc = pc],
           attested' \in SUBSET Groups, UNCHANGED <<supervisor, redis, pub, ready, code, spent>>
    PROVE  IInv'
<1>1. con \in [Groups -> ConType] /\ con[g] \in ConType  BY ConFacts DEF IInv, TypeOK
<1>2. PICK v : v = [con[g] EXCEPT !.pc = pc]  OBVIOUS
<1>3. v \in ConType /\ v.applied = con[g].applied /\ v.completed = con[g].completed
  BY <1>1, <1>2, Zenon DEF ConType
<1>4. con' = [con EXCEPT ![g] = v]  BY <1>2
<1>5. con' \in [Groups -> ConType] /\ con'[g] = v /\ \A h \in Groups : h # g => con'[h] = con[h]
  BY <1>1, <1>3, <1>4, ConMove
<1>6. \A h \in Groups : con'[h].applied = con[h].applied /\ con'[h].completed = con[h].completed
  BY <1>3, <1>5
<1>7. TypeOK'  BY <1>5 DEF IInv, TypeOK, supervisor
<1>8. QueueInv'
  <2>1. \A h \in Groups : Waits(h)' = Waits(h)  BY DEF Waits
  <2> QED  BY <1>6, <2>1 DEF IInv, QueueInv, supervisor
<1> QED  BY <1>7, <1>8, PubSame, MoveStep

LEMMA JoinStep == ASSUME IInv, NEW g \in Groups, Join(g) PROVE IInv'
<1>1. "poll" \in ConPcs /\ g \in Running  BY DEF ConPcs, Join, At
<1>2. attested' \in SUBSET Groups  BY DEF Join, IInv, TypeOK
<1> QED  BY <1>1, <1>2, PlaceStep DEF Join

LEMMA AttestStep == ASSUME IInv, NEW g \in Groups, Attest(g) PROVE IInv'
<1>1. "exit" \in ConPcs /\ g \in Running  BY DEF ConPcs, Attest, At
<1>2. attested' \in SUBSET Groups  BY DEF Attest, IInv, TypeOK
<1> QED  BY <1>1, <1>2, PlaceStep DEF Attest

LEMMA PollStep == ASSUME AttemptAssumption, IInv, NEW g \in Groups, Poll(g) PROVE IInv'
<1>1. /\ g \in Running /\ Given(g) # {} /\ UNCHANGED <<supervisor, attested, pub, ready, code, spent>>
  BY DEF Poll, At
<1>2. PICK M \in Nat : M = Max(Given(g)) /\ con[g].applied < M /\ M <= redis.published
  BY <1>1, GivenFacts
<1>3. redis' = [redis EXCEPT !.read[g] = M]  BY <1>2 DEF Poll
<1>4. /\ redis \in RedisType /\ redis.published \in Nat /\ redis.read \in [Groups -> Nat]
      /\ \A h \in Groups : redis.done[h] \in Int
  BY RedisFacts DEF IInv, TypeOK
<1>5. PICK rd \in [Groups -> Nat] : rd = [redis.read EXCEPT ![g] = M]
  <2>1. [redis.read EXCEPT ![g] = M] \in [Groups -> Nat]  BY <1>4
  <2> QED  BY <2>1
<1>6. redis' = [redis EXCEPT !.read = rd]  BY <1>3, <1>5
<1>7. /\ redis' \in RedisType /\ redis'.read = rd /\ redis'.done = redis.done
      /\ redis'.published = redis.published /\ redis'.terminal = redis.terminal
      /\ redis'.poisoned = redis.poisoned /\ redis'.retained = redis.retained
      /\ redis'.bytes = redis.bytes
  BY <1>4, <1>6, Zenon DEF RedisType
<1>8. rd[g] = M /\ \A h \in Groups : h # g => rd[h] = redis.read[h]  BY <1>4, <1>5
<1>9. con \in [Groups -> ConType] /\ con[g] \in ConType /\ con[g].applied \in Nat
  BY ConFacts DEF IInv, TypeOK
<1>10. PICK v : v = [con[g] EXCEPT !.pc = "ack", !.applied = M]  OBVIOUS
<1>11. "ack" \in ConPcs  BY DEF ConPcs
<1>12. v \in ConType /\ v.applied = M /\ v.completed = con[g].completed
  BY <1>9, <1>10, <1>11, Zenon DEF ConType
<1>13. con' = [con EXCEPT ![g] = v]
  <2>1. con' = [con EXCEPT ![g].pc = "ack", ![g].applied = M]  BY <1>2 DEF Poll
  <2> QED  BY <1>9, <1>10, <2>1
<1>14. con' \in [Groups -> ConType] /\ con'[g] = v /\ \A h \in Groups : h # g => con'[h] = con[h]
  BY <1>9, <1>12, <1>13, ConMove
<1>15. TypeOK'  BY <1>1, <1>7, <1>14 DEF IInv, TypeOK, supervisor
<1>16. QueueInv'
  <2>1. ASSUME NEW h \in Groups
        PROVE  /\ redis.done[h] <= con'[h].applied /\ con'[h].applied <= redis.published
               /\ rd[h] = con'[h].applied /\ state.progress <= redis.done[h]
               /\ Waits(h)' => redis.done[h] = con'[h].completed
    <3>1. Waits(h)' = Waits(h)  BY <1>1 DEF Waits
    <3>2. /\ redis.done[h] <= con[h].applied /\ con[h].applied <= redis.published
          /\ redis.read[h] = con[h].applied /\ state.progress <= redis.done[h]
          /\ Waits(h) => redis.done[h] = con[h].completed
      BY DEF IInv, QueueInv
    <3>3. CASE h = g
      <4>1. redis.done[g] <= M  BY <1>2, <1>4, <1>9, <3>2, <3>3
      <4> QED  BY <1>2, <1>8, <1>12, <1>14, <3>1, <3>2, <3>3, <4>1
    <3>4. CASE h # g  BY <1>8, <1>14, <3>1, <3>2, <3>4
    <3> QED  BY <3>3, <3>4
  <2> QED  BY <1>1, <1>7, <2>1 DEF IInv, QueueInv, supervisor
<1> QED  BY <1>1, <1>7, <1>15, <1>16, PubSame, MoveStep

LEMMA AcknowledgeStep == ASSUME AttemptAssumption, IInv, NEW g \in Groups, Acknowledge(g) PROVE IInv'
<1>1. /\ g \in Running /\ redis' = Ack(g)
      /\ UNCHANGED <<supervisor, attested, pub, ready, code, spent>>
  BY DEF Acknowledge, At
<1>2. /\ Follows(g, redis') /\ redis'.published = redis.published /\ redis'.terminal = redis.terminal
      /\ redis'.poisoned = redis.poisoned /\ redis'.done[g] = con[g].applied /\ redis'.read = redis.read
  <2>1. PICK r : r = redis'  OBVIOUS
  <2>2. r = Ack(g)  BY <1>1, <2>1
  <2> QED  BY <2>1, <2>2, AckFacts
<1>3. con \in [Groups -> ConType] /\ con[g] \in ConType /\ con[g].applied \in Nat
  BY ConFacts DEF IInv, TypeOK
<1>4. PICK pc \in ConPcs : pc = IF con[g].applied = LastEntry THEN "finish" ELSE "poll"  BY DEF ConPcs
<1>5. PICK a \in Int : a = con[g].applied  BY <1>3
<1>6. PICK v : v = [con[g] EXCEPT !.completed = a, !.pc = pc]  OBVIOUS
<1>7. v \in ConType /\ v.applied = a /\ v.completed = a
  BY <1>3, <1>5, <1>6, Zenon DEF ConType
<1>8. con' = [con EXCEPT ![g] = v]
  <2>1. con' = [con EXCEPT ![g].completed = a, ![g].pc = pc]  BY <1>4, <1>5 DEF Acknowledge
  <2> QED  BY <1>3, <1>6, <2>1
<1>9. con' \in [Groups -> ConType] /\ con'[g] = v /\ \A h \in Groups : h # g => con'[h] = con[h]
  BY <1>3, <1>7, <1>8, ConMove
<1>10. TypeOK'
  <2>1. redis' \in RedisType  BY <1>2 DEF Follows
  <2> QED  BY <1>1, <1>9, <2>1 DEF IInv, TypeOK, supervisor
<1>11. QueueInv'
  <2>1. ASSUME NEW h \in Groups
        PROVE  /\ redis'.done[h] <= con'[h].applied /\ con'[h].applied <= redis'.published
               /\ redis'.read[h] = con'[h].applied /\ state.progress <= redis'.done[h]
               /\ Waits(h)' => redis'.done[h] = con'[h].completed
    <3>1. Waits(h)' = Waits(h)  BY <1>1 DEF Waits
    <3>2. /\ redis.done[h] <= con[h].applied /\ con[h].applied <= redis.published
          /\ redis.read[h] = con[h].applied /\ state.progress <= redis.done[h]
          /\ Waits(h) => redis.done[h] = con[h].completed
      BY DEF IInv, QueueInv
    <3>3. redis.done[h] \in Int /\ state.progress \in Int /\ con[h].applied \in Nat
      BY RedisFacts, StateFacts, ConFacts DEF IInv, TypeOK
    <3>4. CASE h = g
      <4>1. state.progress <= a  BY <1>5, <3>2, <3>3, <3>4
      <4>2. con'[h].applied = a /\ con'[h].completed = a /\ redis'.done[h] = a  BY <1>2, <1>5, <1>7, <1>9, <3>4
      <4> QED  BY <1>2, <1>5, <3>2, <3>4, <4>1, <4>2
    <3>5. CASE h # g
      <4>1. redis'.done[h] = redis.done[h] /\ con'[h] = con[h]  BY <1>2, <1>9, <3>5 DEF Follows
      <4> QED  BY <1>2, <3>1, <3>2, <4>1
    <3> QED  BY <3>4, <3>5
  <2> QED  BY <1>1, <1>2, <2>1 DEF QueueInv, Follows, supervisor
<1> QED  BY <1>1, <1>2, <1>10, <1>11, PubSame, MoveStep

-----------------------------------------------------------------------------
(* The steps that end a participant                                        *)

LEMMA PubExitStep == ASSUME IInv, PubExit PROVE IInv'
<1>1. /\ Publisher \in Running /\ pub.pc = "exit" /\ Exit(Publisher, "0")
      /\ UNCHANGED <<supervisor, attested, redis, pub, con, ready, spent>>
  BY DEF PubExit, stream
<1>2. "0" \in Exits /\ spent' \in SpentType  BY <1>1 DEF Exits, IInv, TypeOK
<1>3. Follows(Publisher, redis')  BY <1>1, SameFollows
<1>4. Unspoilt' => Unspoilt  BY <1>1 DEF Unspoilt
<1> QED  BY <1>1, <1>2, <1>3, <1>4, EndStep

LEMMA ConExitStep == ASSUME AttemptAssumption, IInv, NEW g \in Groups, ConExit(g) PROVE IInv'
<1>1. /\ g \in Running /\ Exit(g, "0") /\ g # Publisher
      /\ UNCHANGED <<supervisor, attested, redis, pub, con, ready, spent>>
  BY DEF ConExit, stream, At, AttemptAssumption
<1>2. "0" \in Exits /\ spent' \in SpentType  BY <1>1 DEF Exits, IInv, TypeOK
<1>3. Follows(g, redis')  BY <1>1, SameFollows
<1>4. Unspoilt' => Unspoilt  BY <1>1 DEF Unspoilt
<1> QED  BY <1>1, <1>2, <1>3, <1>4, EndStep

\* A killed or terminated participant.
LEMMA EndsRetryable ==
    ASSUME IInv, NEW p \in Running, Exit(p, "retryable"), Follows(p, redis'), spent' \in SpentType,
           Unspoilt' => Unspoilt /\ redis'.poisoned = redis.poisoned,
           UNCHANGED <<supervisor, attested, pub, con, ready>>
    PROVE  IInv'
<1>1. "retryable" \in Exits /\ "retryable" # "0" /\ "retryable" # "fatal"  BY DEF Exits
<1> QED  BY <1>1, EndStep

LEMMA FaultSpent ==
    ASSUME IInv, spent' = [spent EXCEPT !.faults = @ + 1]
    PROVE  spent' \in SpentType /\ ~Unspoilt'
<1>1. spent \in SpentType  BY DEF IInv, TypeOK
<1>2. spent' \in SpentType /\ spent'.faults > 0  BY <1>1, SpentFacts
<1> QED  BY <1>2 DEF Unspoilt

LEMMA OwnSpent ==
    ASSUME IInv, spent' = [spent EXCEPT !.own = @ + 1]
    PROVE  spent' \in SpentType /\ ~Unspoilt'
<1>1. spent \in SpentType  BY DEF IInv, TypeOK
<1>2. spent' \in SpentType /\ spent'.own > 0  BY <1>1, SpentFacts
<1> QED  BY <1>2 DEF Unspoilt

LEMMA DieStep == ASSUME IInv, NEW p \in Participants, Die(p) PROVE IInv'
<1>1. /\ p \in Running /\ Exit(p, "retryable")
      /\ UNCHANGED <<supervisor, attested, redis, pub, con, ready>>
  BY DEF Die, stream
<1>2. Follows(p, redis') /\ redis'.poisoned = redis.poisoned  BY <1>1, SameFollows
<1>3. spent' \in SpentType /\ (Unspoilt' => Unspoilt)
  <2>1. CASE UNCHANGED spent  BY <2>1 DEF IInv, TypeOK, Unspoilt
  <2>2. CASE spent' = [spent EXCEPT !.faults = @ + 1]  BY <2>2, FaultSpent
  <2> QED  BY <2>1, <2>2 DEF Die
<1> QED  BY <1>1, <1>2, <1>3, EndsRetryable

LEMMA TerminateStep == ASSUME IInv, NEW p \in Participants, Terminate(p) PROVE IInv'
<1>1. /\ p \in Running /\ Exit(p, "retryable")
      /\ UNCHANGED <<supervisor, attested, redis, pub, con, ready, spent>>
  BY DEF Terminate, stream
<1>2. Follows(p, redis') /\ redis'.poisoned = redis.poisoned  BY <1>1, SameFollows
<1>3. spent' \in SpentType /\ (Unspoilt' => Unspoilt)  BY <1>1 DEF IInv, TypeOK, Unspoilt
<1> QED  BY <1>1, <1>2, <1>3, EndsRetryable

LEMMA LostStep ==
    ASSUME IInv, NEW p \in Running, NEW after, Follows(p, after), Lost(p, after)
    PROVE  IInv'
<1>1. spent' \in SpentType /\ ~Unspoilt'  BY FaultSpent DEF Lost
<1>2. PICK r \in {redis, after} : redis' \in {r, [r EXCEPT !.poisoned = TRUE]}  BY DEF Lost
<1>3. Follows(p, r)  BY <1>2, SameFollows
<1>4. Follows(p, redis')  BY <1>2, <1>3, PoisonFollows
<1> QED  BY <1>1, <1>4, EndsRetryable DEF Lost

\* A fatal end is one of an attempt that met trouble.
LEMMA FatalStep ==
    ASSUME IInv, NEW p \in Running, Exit(p, "fatal"), redis' = redis \/ redis' = Poisoned,
           spent' \in SpentType, ~Unspoilt', UNCHANGED <<supervisor, attested, pub, con, ready>>
    PROVE  IInv'
<1>1. "fatal" \in Exits /\ "fatal" # "0"  BY DEF Exits
<1>2. Follows(p, redis')  BY SameFollows, PoisonFollows DEF Poisoned
<1> QED  BY <1>1, <1>2, EndStep

LEMMA RefusedStep == ASSUME IInv, NEW p \in Running, Refused(p), ~Unspoilt PROVE IInv'
<1>1. spent' \in SpentType /\ ~Unspoilt'  BY DEF Refused, IInv, TypeOK, Unspoilt
<1> QED  BY <1>1, FatalStep DEF Refused

LEMMA OwnFailureStep == ASSUME IInv, NEW p \in Running, OwnFailure(p, FALSE) PROVE IInv'
<1>1. spent' \in SpentType /\ ~Unspoilt'  BY OwnSpent DEF OwnFailure
<1> QED  BY <1>1, FatalStep DEF OwnFailure

LEMMA InvalidStep == ASSUME IInv, NEW p \in Running, Invalid(p) PROVE IInv'
<1>1. ~Unspoilt  BY DEF Invalid, Validated, IInv, CalmInv
<1>2. spent' \in SpentType /\ ~Unspoilt'  BY <1>1 DEF Invalid, IInv, TypeOK, Unspoilt
<1> QED  BY <1>2, FatalStep DEF Invalid, stream

LEMMA PubFailsStep == ASSUME AttemptAssumption, IInv, PubFails PROVE IInv'
<1>1. Publisher \in Running  BY DEF PubFails
<1>2. Waits(Publisher)  BY <1>1, RunningFacts DEF IInv
<1>3. CASE pub.pc = "append" /\ ~PubFollows /\ Refused(Publisher)
  <2>1. redis.poisoned  BY <1>2, <1>3 DEF PubFollows, IInv, PubInv
  <2>2. ~Unspoilt  BY <2>1 DEF IInv, CalmInv
  <2> QED  BY <1>1, <1>3, <2>2, RefusedStep
<1>4. ASSUME pub.pc = "append",
             NEW r, r = IF PubFollows THEN Append(CallLength, pub.next = LastEntry /\ CallLength = Buffered)
                        ELSE redis,
             Lost(Publisher, r)
      PROVE  IInv'
  <2>1. CASE PubFollows
    <3>1. PICK s : s = CallLength  OBVIOUS
    <3>2. PICK l \in BOOLEAN : l = (pub.next = LastEntry /\ s = Buffered)  OBVIOUS
    <3>3. s \in Nat /\ s <= pub.next - pub.first /\ (l => pub.first + s = LastEntry)
      BY <1>4, <3>1, <3>2, CallFacts
    <3>4. r = Append(s, l)  BY <1>4, <2>1, <3>1, <3>2
    <3>5. PICK k : k = Accepted(s)  OBVIOUS
    <3>6. Follows(Publisher, r)  BY <1>2, <3>3, <3>4, <3>5, AppendFacts
    <3> QED  BY <1>1, <1>4, <3>6, LostStep
  <2>2. CASE ~PubFollows
    <3>1. r = redis  BY <1>4, <2>2
    <3>2. Follows(Publisher, r)  BY <3>1, SameFollows
    <3> QED  BY <1>1, <1>4, <3>2, LostStep
  <2> QED  BY <2>1, <2>2
<1>5. CASE OwnFailure(Publisher, FALSE)  BY <1>1, <1>5, OwnFailureStep
<1>6. CASE Invalid(Publisher)  BY <1>1, <1>6, InvalidStep
<1> QED  BY <1>3, <1>4, <1>5, <1>6 DEF PubFails

LEMMA ConFailsStep == ASSUME AttemptAssumption, IInv, NEW g \in Groups, ConFails(g) PROVE IInv'
<1>1. g \in Running  BY DEF ConFails
<1>2. Waits(g)  BY <1>1, RunningFacts DEF IInv
<1>3. CASE Invalid(g)  BY <1>1, <1>3, InvalidStep
<1>4. CASE redis.poisoned /\ Refused(g)
  <2>1. ~Unspoilt  BY <1>4 DEF IInv, CalmInv
  <2> QED  BY <1>1, <1>4, <2>1, RefusedStep
<1>5. CASE ~AckFollows(g) /\ Refused(g)
  <2>1. redis.poisoned  BY <1>2, <1>5 DEF AckFollows, IInv, QueueInv
  <2>2. ~Unspoilt  BY <2>1 DEF IInv, CalmInv
  <2> QED  BY <1>1, <1>5, <2>2, RefusedStep
<1>6. CASE Lost(g, redis)
  <2>1. Follows(g, redis)  BY SameFollows
  <2> QED  BY <1>1, <1>6, <2>1, LostStep
<1>7. ASSUME NEW r, r = IF AckFollows(g) THEN Ack(g) ELSE redis, Lost(g, r) PROVE IInv'
  <2>1. Follows(g, r)
    <3>1. CASE AckFollows(g)
      <4>1. r = Ack(g)  BY <1>7, <3>1
      <4> QED  BY <4>1, AckFacts
    <3>2. CASE ~AckFollows(g)
      <4>1. r = redis  BY <1>7, <3>2
      <4> QED  BY <4>1, SameFollows
    <3> QED  BY <3>1, <3>2
  <2> QED  BY <1>1, <1>7, <2>1, LostStep
<1>8. CASE Given(g) # {} /\ OwnFailure(g, Given(g) # (con[g].applied + 1)..Max(Given(g)))
  <2>1. (Given(g) # (con[g].applied + 1)..Max(Given(g))) = FALSE  BY <1>8, GivenFacts
  <2>2. OwnFailure(g, FALSE)  BY <1>8, <2>1
  <2> QED  BY <1>1, <2>2, OwnFailureStep
<1> QED  BY <1>3, <1>4, <1>5, <1>6, <1>7, <1>8 DEF ConFails

-----------------------------------------------------------------------------
(* The supervisor                                                          *)

\* A step of the supervisor that leaves the attempt as it is.
LEMMA StreamSame ==
    ASSUME IInv, UNCHANGED <<stream, code>>, state'.progress = state.progress
    PROVE  PubInv' /\ QueueInv'
<1>1. UNCHANGED <<redis, pub, con, ready, code>>  BY DEF stream
<1>2. PubInv'  BY <1>1 DEF IInv, PubInv, Waits
<1>3. QueueInv'  BY <1>1 DEF IInv, QueueInv, Waits
<1> QED  BY <1>2, <1>3

\* Success ends the run: no other step of the supervisor follows it.
LEMMA NotOver == ASSUME IInv, sup.pc # "ended" PROVE success = 0
BY DEF IInv, SuccessInv

\* The supervisor goes somewhere else having forgotten what it knew of the attempt.
LEMMA FreshMove ==
    ASSUME IInv, success = 0, UNCHANGED <<inputs, state, result, success, launched, stream, code>>,
           sup' \in SupType, sup'.pc \in {"down", "recover", "loop", "stop", "ended"},
           sup'.codes = [p \in {} |-> "0"], ~sup'.success,
           sup'.pc = "loop" => state.active = 0, sup'.pc \in {"recover", "stop"} => state.active # 0,
           spent' \in SpentType, Unspoilt' => Unspoilt /\ ~sup'.poison /\ ~sup'.fatal
    PROVE  IInv'
<1>1. UNCHANGED <<attested, redis, pub, con, ready>>  BY DEF stream
<1>2. TypeOK'  BY <1>1 DEF IInv, TypeOK
<1>3. PubInv' /\ QueueInv'  BY StreamSame
<1>4. FreshStream' = FreshStream  BY <1>1 DEF FreshStream
<1>5. SupInv'
  <2>1. DOMAIN sup'.codes = {}  OBVIOUS
  <2>2. state.active = 0 \/ sup'.pc \in {"loop", "launch"} => FreshStream  BY DEF IInv, SupInv
  <2> QED  BY <1>4, <2>1, <2>2 DEF SupInv
<1>6. BudgetInv'  BY DEF IInv, BudgetInv
<1>7. SuccessInv'  BY DEF SuccessInv
<1>8. CalmInv'
  <2> SUFFICES ASSUME Unspoilt'
               PROVE  /\ inputs /\ ~redis.poisoned /\ ~sup'.poison /\ ~sup'.fatal
                      /\ \A p \in Participants : code[p] # "fatal"
                      /\ \A a \in 1..Attempts : ~result[a].fatal
    BY <1>1 DEF CalmInv
  <2> QED  BY DEF IInv, CalmInv
<1> QED  BY <1>2, <1>3, <1>5, <1>6, <1>7, <1>8 DEF IInv

\* Stop, and a supervisor that starts, is interrupted or begins an attempt.
LEMMA FreshSupAt ==
    ASSUME NEW pc \in SupPcs, NEW t, t = [FreshSup EXCEPT !.pc = pc]
    PROVE  /\ t \in SupType /\ t.pc = pc /\ t.codes = [p \in {} |-> "0"] /\ t.success = FALSE
           /\ t.poison = FALSE /\ t.fatal = FALSE /\ t.joined = FALSE
<1>1. /\ FreshSup \in SupType /\ FreshSup.joined = FALSE /\ FreshSup.codes = [p \in {} |-> "0"]
      /\ FreshSup.poison = FALSE /\ FreshSup.success = FALSE /\ FreshSup.fatal = FALSE /\ TRUE \in BOOLEAN
  BY FreshSupFacts
<1>2. /\ t \in SupType /\ t.pc = pc /\ t.codes = FreshSup.codes /\ t.success = FreshSup.success
      /\ t.poison = FreshSup.poison /\ t.joined = FreshSup.joined /\ t.fatal = FreshSup.fatal
  BY <1>1, Zenon DEF SupType
<1> QED  BY <1>1, <1>2, Zenon

LEMMA FreshSupLeaving ==
    ASSUME NEW pc \in SupPcs, NEW t, t = [FreshSup EXCEPT !.pc = pc, !.leaving = TRUE]
    PROVE  /\ t \in SupType /\ t.pc = pc /\ t.codes = [p \in {} |-> "0"] /\ t.success = FALSE
           /\ t.poison = FALSE /\ t.fatal = FALSE /\ t.joined = FALSE
<1>1. /\ FreshSup \in SupType /\ FreshSup.joined = FALSE /\ FreshSup.codes = [p \in {} |-> "0"]
      /\ FreshSup.poison = FALSE /\ FreshSup.success = FALSE /\ FreshSup.fatal = FALSE /\ TRUE \in BOOLEAN
  BY FreshSupFacts
<1>2. /\ t \in SupType /\ t.pc = pc /\ t.codes = FreshSup.codes /\ t.success = FreshSup.success
      /\ t.poison = FreshSup.poison /\ t.joined = FreshSup.joined /\ t.fatal = FreshSup.fatal
  BY <1>1, Zenon DEF SupType
<1> QED  BY <1>1, <1>2, Zenon

\* The supervisor stops the attempt, for a reason that is fatal or not.
LEMMA StopStep ==
    ASSUME IInv, sup.pc \in {"poll", "read"}, NEW f \in BOOLEAN, Stop(f),
           UNCHANGED <<inputs, state, result, success, launched, stream, code>>,
           spent' \in SpentType, Unspoilt' => Unspoilt /\ ~f
    PROVE  IInv'
<1>1. PICK pc \in SupPcs : pc = "stop"  BY DEF SupPcs
<1>2. sup' = [FreshSup EXCEPT !.pc = pc, !.fatal = f]  BY <1>1 DEF Stop
<1>3. PICK t : t = sup'  OBVIOUS
<1>6. t = [FreshSup EXCEPT !.pc = pc, !.fatal = f]  BY <1>2, <1>3
<1>4. /\ t \in SupType /\ t.pc = pc /\ t.codes = [p \in {} |-> "0"] /\ t.success = FALSE
      /\ t.poison = FALSE /\ t.fatal = f
  <2>1. /\ FreshSup \in SupType /\ FreshSup.codes = [p \in {} |-> "0"]
        /\ FreshSup.poison = FALSE /\ FreshSup.success = FALSE
    BY FreshSupFacts
  <2>2. f \in BOOLEAN /\ pc \in SupPcs  OBVIOUS
  <2>3. /\ t \in SupType /\ t.pc = pc /\ t.codes = FreshSup.codes /\ t.success = FreshSup.success
        /\ t.poison = FreshSup.poison /\ t.fatal = f
    BY <1>6, <2>1, <2>2, Zenon DEF SupType
  <2> QED  BY <2>1, <2>3, Zenon
<1>5. success = 0 /\ state.active # 0  BY NotOver DEF IInv, SupInv
<1> QED  BY <1>1, <1>3, <1>4, <1>5, FreshMove

LEMMA SameSpent == ASSUME IInv, UNCHANGED spent PROVE spent' \in SpentType /\ (Unspoilt' => Unspoilt)
BY DEF IInv, TypeOK, Unspoilt

LEMMA DeadlineStep == ASSUME IInv, Deadline PROVE IInv'
<1>1. sup.poison \in BOOLEAN  BY DEF IInv, TypeOK, SupType
<1>2. Unspoilt => ~sup.poison  BY DEF IInv, CalmInv
<1> QED  BY <1>1, <1>2, SameSpent, StopStep DEF Deadline, DeadlinePassed

LEMMA LosesRedisStep == ASSUME IInv, LosesRedis PROVE IInv'
BY FaultSpent, StopStep DEF LosesRedis

LEMMA KillSpent ==
    ASSUME IInv, spent' = [spent EXCEPT !.kills = @ + 1]
    PROVE  spent' \in SpentType /\ (Unspoilt' => Unspoilt)
<1>1. spent \in SpentType  BY DEF IInv, TypeOK
<1>2. spent' \in SpentType /\ spent'.own = spent.own /\ spent'.faults = spent.faults  BY <1>1, SpentFacts
<1> QED  BY <1>2 DEF Unspoilt

LEMMA InterruptStep == ASSUME IInv, Interrupt PROVE IInv'
<1>1. PICK pc \in SupPcs : pc = "stop"  BY DEF SupPcs
<1>2. PICK t : t = sup'  OBVIOUS
<1>3. t = [FreshSup EXCEPT !.pc = pc, !.leaving = TRUE]
  BY <1>1, <1>2 DEF Interrupt
<1>4. /\ t \in SupType /\ t.pc = pc /\ t.codes = [p \in {} |-> "0"] /\ t.success = FALSE
      /\ t.poison = FALSE /\ t.fatal = FALSE
  BY <1>3, FreshSupLeaving, Zenon
<1>5. success = 0 /\ state.active # 0  BY NotOver DEF IInv, SupInv, Interrupt
<1> QED  BY <1>1, <1>2, <1>4, <1>5, KillSpent, FreshMove DEF Interrupt

LEMMA KillStep == ASSUME IInv, Kill PROVE IInv'
<1>1. /\ sup' \in SupType /\ sup'.pc = "down" /\ sup'.codes = [p \in {} |-> "0"] /\ ~sup'.success
      /\ ~sup'.poison /\ ~sup'.fatal
  <2>1. sup' = FreshSup  BY DEF Kill
  <2> QED  BY <2>1, FreshSupFacts
<1>2. success = 0  BY NotOver DEF Kill
<1> QED  BY <1>1, <1>2, KillSpent, FreshMove DEF Kill

LEMMA StartStep == ASSUME IInv, Start PROVE IInv'
<1>1. PICK pc : pc = IF ~Validated \/ success # 0 THEN "ended"
                     ELSE IF state.active # 0 THEN "recover" ELSE "loop"
  OBVIOUS
<1>2. pc \in SupPcs /\ pc \in {"ended", "recover", "loop"}  BY <1>1 DEF SupPcs
<1>3. (pc = "loop" => state.active = 0) /\ (pc = "recover" => state.active # 0)  BY <1>1
<1>4. PICK t : t = sup'  OBVIOUS
<1>5. t = [FreshSup EXCEPT !.pc = pc]
  BY <1>1, <1>4 DEF Start
<1>7. /\ t \in SupType /\ t.pc = pc /\ t.codes = [p \in {} |-> "0"] /\ t.success = FALSE
      /\ t.poison = FALSE /\ t.fatal = FALSE
  BY <1>2, <1>5, FreshSupAt, Zenon
<1>8. success = 0  BY NotOver DEF Start
<1> QED  BY <1>2, <1>3, <1>4, <1>7, <1>8, SameSpent, FreshMove DEF Start

LEMMA GiveUpStep == ASSUME IInv, GiveUp PROVE IInv'
<1>1. sup \in SupType /\ "ended" \in SupPcs  BY DEF IInv, TypeOK, SupPcs
<1>2. PICK t : t = sup'  OBVIOUS
<1>3. t = [sup EXCEPT !.pc = "ended"]  BY <1>2 DEF GiveUp, Goto
<1>4. /\ t \in SupType /\ t.pc = "ended" /\ t.codes = sup.codes
      /\ t.poison = sup.poison /\ t.success = sup.success /\ t.fatal = sup.fatal
  BY <1>1, <1>3, GotoFacts
<1>5. sup.codes = [p \in {} |-> "0"] /\ ~sup.success  BY DEF GiveUp, IInv, SupInv
<1>6. Unspoilt => ~sup.poison /\ ~sup.fatal  BY DEF IInv, CalmInv
<1>7. success = 0  BY NotOver DEF GiveUp
<1> QED  BY <1>2, <1>4, <1>5, <1>6, <1>7, SameSpent, FreshMove DEF GiveUp

-----------------------------------------------------------------------------
(* An attempt begins and is given up                                       *)

FreshFacts ==
    /\ attested \in SUBSET Groups /\ code \in [Participants -> Codes] /\ redis \in RedisType
    /\ pub \in PubType /\ con \in [Groups -> ConType] /\ ready \in BOOLEAN
    /\ PubInv /\ (state.progress = -1 => QueueInv)
    /\ ~redis.poisoned /\ \A p \in Participants : code[p] = "none"

LEMMA FreshOK == AttemptAssumption /\ FreshStream => FreshFacts
<1> SUFFICES ASSUME AttemptAssumption, FreshStream PROVE FreshFacts  OBVIOUS
<1>1. \A p \in Participants : code[p] = "none"  BY DEF FreshStream
<1>2. code \in [Participants -> Codes]  BY DEF FreshStream, Codes
<1>3. /\ redis.published = 0 /\ redis.terminal = FALSE /\ redis.poisoned = FALSE /\ redis.retained = {}
      /\ redis.bytes = 0 /\ \A g \in Groups : redis.done[g] = -1 /\ redis.read[g] = 0
  BY DEF FreshStream, FreshRedis
<1>4. redis \in RedisType
  <2>1. [g \in Groups |-> -1] \in [Groups -> Int] /\ [g \in Groups |-> 0] \in [Groups -> Nat]  OBVIOUS
  <2>2. {} \in SUBSET Nat  OBVIOUS
  <2> QED  BY <2>1, <2>2 DEF FreshStream, FreshRedis, RedisType
<1>5. /\ pub \in PubType /\ pub.pc = "setup" /\ pub.first = 0 /\ pub.next = 0
  BY DEF FreshStream, FreshPublisher, PubType, PubPcs
<1>6. FreshConsumer \in ConType /\ FreshConsumer.applied = 0 /\ FreshConsumer.completed = -1
  BY DEF FreshConsumer, ConType, ConPcs
<1>7. con \in [Groups -> ConType] /\ \A g \in Groups : con[g] = FreshConsumer  BY <1>6 DEF FreshStream
<1>8. \A g \in Groups : con[g].applied = 0 /\ con[g].completed = -1  BY <1>6, <1>7
<1>9. PubInv
  <2>1. Publisher \in Participants  BY DEF Participants
  <2>2. code[Publisher] = "none"  BY <1>1, <2>1
  <2>3. Capacity \in Nat /\ Capacity > 0 /\ LastEntry \in Nat /\ LastEntry >= 2  BY CapacityFacts
  <2> QED  BY <1>3, <1>5, <2>2, <2>3 DEF PubInv
<1>10. ASSUME state.progress = -1 PROVE QueueInv
  <2>1. Cardinality({}) = 0  BY FS_EmptySet
  <2>2. {n \in 1..0 : \E g \in Groups : redis.done[g] < n} = {}  OBVIOUS
  <2>3. QueueLimit \in Nat  BY CapacityFacts
  <2> QED  BY <1>3, <1>8, <1>10, <2>1, <2>2, <2>3 DEF QueueInv
<1>11. attested \in SUBSET Groups /\ ready \in BOOLEAN  BY DEF FreshStream
<1> QED  BY <1>1, <1>2, <1>3, <1>4, <1>5, <1>7, <1>9, <1>10, <1>11 DEF FreshFacts

LEMMA FreshOKNext == AttemptAssumption /\ FreshStream' => FreshFacts'
<1>1. (AttemptAssumption /\ FreshStream => FreshFacts)'  BY FreshOK, PTL
<1> QED  BY <1>1

LEMMA ResultFacts ==
    ASSUME NEW r \in [1..Attempts -> ResultType], NEW a \in 1..Attempts
    PROVE  /\ r[a] \in ResultType /\ r[a].success \in BOOLEAN /\ r[a].fatal \in BOOLEAN
           /\ (r[a].success /\ ~r[a].fatal => r[a] = [success |-> TRUE, fatal |-> FALSE])
<1>1. r[a] \in ResultType  OBVIOUS
<1> QED  BY <1>1 DEF ResultType

\* An active attempt is the last one that was counted.
LEMMA ActiveFacts ==
    ASSUME AttemptAssumption, IInv, state.active # 0
    PROVE  /\ state.active \in 1..Attempts /\ state.active = state.attempts
           /\ state.stagnant < NoProgress /\ ~state.fatal
           /\ \A a \in 1..Attempts : result[a].fatal => a = state.active
<1>1. state.attempts \in Nat /\ state.active \in Nat  BY StateFacts DEF IInv, TypeOK
<1>2. /\ state.active = state.attempts /\ state.attempts <= Attempts /\ state.stagnant < NoProgress
      /\ ~state.fatal /\ \A a \in 1..Attempts : result[a].fatal => a = state.attempts
  BY DEF IInv, BudgetInv
<1> QED  BY <1>1, <1>2 DEF AttemptAssumption

\* An attempt is given up: its mark is kept, its stream is not.
LEMMA DiscardStep ==
    ASSUME AttemptAssumption, IInv, state.active # 0, success = 0,
           state' = Failed(state, result[state.active].fatal), Discarded,
           sup' \in SupType, sup'.pc \in {"down", "loop"}, sup'.codes = [p \in {} |-> "0"], ~sup'.success,
           Unspoilt => ~sup'.poison /\ ~sup'.fatal,
           UNCHANGED <<inputs, result, success, launched, spent>>
    PROVE  IInv'
<1>1. FreshStream'  BY DEF Discarded, FreshStream
<1>2. FreshFacts'  BY <1>1, FreshOKNext
<1>3. /\ state.active \in 1..Attempts /\ state.active = state.attempts
      /\ state.stagnant < NoProgress /\ ~state.fatal
      /\ \A a \in 1..Attempts : result[a].fatal => a = state.active
  BY ActiveFacts
<1>4. PICK f \in BOOLEAN : f = result[state.active].fatal
  <2>1. result \in [1..Attempts -> ResultType]  BY DEF IInv, TypeOK
  <2>2. PICK a \in 1..Attempts : a = state.active  BY <1>3
  <2>3. result[a].fatal \in BOOLEAN  BY <2>1, ResultFacts
  <2> QED  BY <2>2, <2>3
<1>5. PICK t : t = state'  OBVIOUS
<1>6. state \in StateType /\ t = Failed(state, f)  BY <1>4, <1>5 DEF IInv, TypeOK
<1>7. /\ t \in StateType /\ t.attempts = state.attempts /\ t.stagnant <= state.stagnant + 1
      /\ t.active = 0 /\ t.progress = -1 /\ t.fatal = f
  BY <1>6, FailedFacts
<1>8. TypeOK'  BY <1>2, <1>5, <1>7 DEF IInv, TypeOK, FreshFacts
<1>9. PubInv' /\ QueueInv'  BY <1>2, <1>5, <1>7 DEF FreshFacts
<1>10. SupInv'
  <2>1. DOMAIN sup'.codes = {}  OBVIOUS
  <2> QED  BY <1>1, <1>5, <1>7, <2>1 DEF SupInv
<1>11. BudgetInv'
  <2>1. PICK s \in Nat : s = state.stagnant  BY <1>6, StateFacts
  <2>2. t.stagnant \in Nat  BY <1>7, StateFacts
  <2>3. t.stagnant <= NoProgress  BY <1>3, <1>7, <2>1, <2>2 DEF AttemptAssumption
  <2>4. \A a \in 1..Attempts : result[a].fatal => a = state.attempts /\ t.fatal
    <3> SUFFICES ASSUME NEW a \in 1..Attempts, result[a].fatal PROVE a = state.attempts /\ t.fatal
      OBVIOUS
    <3>1. a = state.active  BY <1>3
    <3> QED  BY <1>3, <1>4, <1>7, <3>1
  <2>5. launched <= state.attempts /\ state.attempts <= Attempts  BY DEF IInv, BudgetInv
  <2> QED  BY <1>5, <1>7, <2>3, <2>4, <2>5 DEF BudgetInv
<1>12. SuccessInv'  BY DEF SuccessInv
<1>13. CalmInv'
  <2>1. Unspoilt' = Unspoilt  BY DEF Unspoilt
  <2>2. ~redis'.poisoned /\ \A p \in Participants : code'[p] # "fatal"  BY <1>2 DEF FreshFacts
  <2> QED  BY <2>1, <2>2 DEF IInv, CalmInv
<1> QED  BY <1>8, <1>9, <1>10, <1>11, <1>12, <1>13 DEF IInv

LEMMA RecoverStep == ASSUME AttemptAssumption, IInv, Recover PROVE IInv'
<1>1. sup \in SupType /\ "loop" \in SupPcs  BY DEF IInv, TypeOK, SupPcs
<1>2. PICK t : t = sup'  OBVIOUS
<1>3. t = [sup EXCEPT !.pc = "loop"]  BY <1>2 DEF Recover, Goto
<1>4. /\ t \in SupType /\ t.pc = "loop" /\ t.codes = sup.codes
      /\ t.poison = sup.poison /\ t.success = sup.success /\ t.fatal = sup.fatal
  BY <1>1, <1>3, GotoFacts
<1>5. sup.codes = [p \in {} |-> "0"] /\ ~sup.success /\ state.active # 0  BY DEF Recover, IInv, SupInv
<1>6. Unspoilt => ~sup.poison /\ ~sup.fatal  BY DEF IInv, CalmInv
<1>7. success = 0  BY NotOver DEF Recover
<1> QED  BY <1>2, <1>4, <1>5, <1>6, <1>7, DiscardStep DEF Recover, PriorFatal

LEMMA CommitStep == ASSUME AttemptAssumption, IInv, Commit PROVE IInv'
<1>1. sup.pc = "commit" /\ UNCHANGED <<inputs, result, launched, spent>>  BY DEF Commit
<1>2. state.active # 0 /\ Running = {} /\ success = 0  BY <1>1, NotOver DEF IInv, SupInv
<1>3. PICK a \in 1..Attempts : a = state.active  BY <1>2, ActiveFacts
<1>4. /\ result[a] \in ResultType /\ result[a].success \in BOOLEAN
      /\ (result[a].success /\ ~result[a].fatal => result[a] = [success |-> TRUE, fatal |-> FALSE])
  BY ResultFacts DEF IInv, TypeOK
<1>5. CASE /\ result[a].success /\ success' = a /\ Goto("ended") /\ UNCHANGED <<state, stream, code>>
  <2>1. UNCHANGED <<attested, redis, pub, con, ready, state, code>>  BY <1>5 DEF stream
  <2>2. sup \in SupType /\ "ended" \in SupPcs  BY DEF IInv, TypeOK, SupPcs
  <2>3. PICK t : t = sup'  OBVIOUS
  <2>4. t = [sup EXCEPT !.pc = "ended"]  BY <1>5, <2>3 DEF Goto
  <2>5. /\ t \in SupType /\ t.pc = "ended" /\ t.codes = sup.codes
        /\ t.poison = sup.poison /\ t.success = sup.success /\ t.fatal = sup.fatal
    BY <2>2, <2>4, GotoFacts
  <2>6. TypeOK'
    <3>1. success' \in 0..Attempts  BY <1>5 DEF AttemptAssumption
    <3> QED  BY <1>1, <2>1, <2>3, <2>5, <3>1 DEF IInv, TypeOK
  <2>7. PubInv' /\ QueueInv'  BY <1>5, StreamSame
  <2>8. sup.success /\ ~result[a].fatal /\ WholeStream  BY <1>1, <1>3, <1>5 DEF IInv, SupInv
  <2>9. WholeStream' /\ Running' = {}  BY <1>2, <2>1, <2>8 DEF WholeStream, Running
  <2>10. SupInv'
    <3>1. \A p \in DOMAIN sup.codes : code[p] = "0"  BY DEF IInv, SupInv
    <3> QED  BY <1>2, <2>1, <2>3, <2>5, <2>9, <3>1 DEF SupInv
  <2>11. BudgetInv'  BY <1>1, <2>1, <2>3, <2>5 DEF IInv, BudgetInv
  <2>12. SuccessInv'  BY <1>1, <1>3, <1>4, <1>5, <2>1, <2>3, <2>5, <2>8, <2>9 DEF SuccessInv
  <2>13. CalmInv'  BY <1>1, <2>1, <2>3, <2>5 DEF IInv, CalmInv, Unspoilt
  <2> QED  BY <2>6, <2>7, <2>10, <2>11, <2>12, <2>13 DEF IInv
<1>6. CASE /\ state' = Failed(state, result[a].fatal)
           /\ sup' = [FreshSup EXCEPT !.pc = IF sup.leaving THEN "down" ELSE "loop"]
           /\ Discarded /\ UNCHANGED success
  <2>1. PICK pc \in SupPcs : pc = (IF sup.leaving THEN "down" ELSE "loop") /\ pc \in {"down", "loop"}
    BY DEF SupPcs
  <2>2. PICK t : t = sup'  OBVIOUS
  <2>3. t = [FreshSup EXCEPT !.pc = pc]  BY <1>6, <2>1, <2>2
  <2>4. /\ t \in SupType /\ t.pc = pc /\ t.codes = [p \in {} |-> "0"] /\ t.success = FALSE
        /\ t.poison = FALSE /\ t.fatal = FALSE
    BY <2>3, FreshSupAt, Zenon
  <2> QED  BY <1>1, <1>2, <1>3, <1>6, <2>1, <2>2, <2>4, DiscardStep
<1> QED  BY <1>3, <1>5, <1>6 DEF Commit

LEMMA WriteResultStep == ASSUME AttemptAssumption, IInv, WriteResult PROVE IInv'
<1>1. /\ sup.pc = "stop" /\ Running = {} /\ Goto("commit")
      /\ UNCHANGED <<inputs, state, success, launched, attested, redis, pub, con, ready, code, spent>>
      /\ UNCHANGED stream
  BY DEF WriteResult, stream
<1>2. state.active # 0 /\ success = 0  BY <1>1, NotOver DEF IInv, SupInv
<1>3. PICK a \in 1..Attempts : a = state.active /\ a = state.attempts
                              /\ \A b \in 1..Attempts : result[b].fatal => b = a
  BY <1>2, ActiveFacts
<1>4. PICK f \in BOOLEAN : f = (sup.fatal \/ \E p \in Participants : FatalExit(code[p]))
  BY DEF IInv, TypeOK, SupType
<1>5. sup.success \in BOOLEAN /\ sup \in SupType /\ "commit" \in SupPcs
  BY DEF IInv, TypeOK, SupType, SupPcs
<1>6. PICK s \in BOOLEAN : s = (sup.success /\ ~f)  BY <1>5
<1>7. PICK v : v = [success |-> s, fatal |-> f]  OBVIOUS
<1>8. v \in ResultType /\ v.success = s /\ v.fatal = f  BY <1>7 DEF ResultType
<1>9. result' = [result EXCEPT ![a] = v]  BY <1>3, <1>4, <1>6, <1>7 DEF WriteResult
<1>10. result' \in [1..Attempts -> ResultType] /\ result'[a] = v
       /\ \A b \in 1..Attempts : b # a => result'[b] = result[b]
  BY <1>8, <1>9 DEF IInv, TypeOK
<1>11. PICK t : t = sup'  OBVIOUS
<1>12. t = [sup EXCEPT !.pc = "commit"]  BY <1>1, <1>11 DEF Goto
<1>13. /\ t \in SupType /\ t.pc = "commit" /\ t.codes = sup.codes
       /\ t.poison = sup.poison /\ t.success = sup.success /\ t.fatal = sup.fatal
  BY <1>5, <1>12, GotoFacts
<1>14. TypeOK'  BY <1>1, <1>10, <1>11, <1>13 DEF IInv, TypeOK
<1>15. PubInv' /\ QueueInv'  BY <1>1, StreamSame
<1>16. SupInv'
  <2>1. FreshStream' = FreshStream /\ WholeStream' = WholeStream /\ Running' = {}
    BY <1>1 DEF FreshStream, WholeStream, Running
  <2>2. \A p \in DOMAIN sup.codes : code[p] = "0"  BY DEF IInv, SupInv
  <2>3. sup.success => WholeStream  BY DEF IInv, SupInv
  <2>4. result'[a].success => sup.success /\ ~result'[a].fatal  BY <1>6, <1>8, <1>10
  <2>5. state'.active = a /\ state'.active # 0  BY <1>1, <1>2, <1>3
  <2> QED  BY <1>1, <1>11, <1>13, <2>1, <2>2, <2>3, <2>4, <2>5 DEF SupInv
<1>17. BudgetInv'
  <2>1. \A b \in 1..Attempts : result'[b].fatal => b = a  BY <1>3, <1>10
  <2> QED  BY <1>1, <1>3, <1>11, <1>13, <2>1 DEF IInv, BudgetInv
<1>18. SuccessInv'  BY <1>1, <1>2 DEF SuccessInv
<1>19. CalmInv'
  <2>1. Unspoilt' = Unspoilt  BY <1>1 DEF Unspoilt
  <2>2. Unspoilt => ~f  BY <1>4 DEF IInv, CalmInv, FatalExit
  <2>3. Unspoilt => \A b \in 1..Attempts : ~result'[b].fatal
    <3> SUFFICES ASSUME Unspoilt, NEW b \in 1..Attempts PROVE ~result'[b].fatal  OBVIOUS
    <3>1. ~result[b].fatal  BY DEF IInv, CalmInv
    <3> QED  BY <1>8, <1>10, <2>2, <3>1
  <2> QED  BY <1>1, <1>11, <1>13, <2>1, <2>3 DEF IInv, CalmInv
<1> QED  BY <1>14, <1>15, <1>16, <1>17, <1>18, <1>19 DEF IInv

LEMMA BeginStep == ASSUME AttemptAssumption, IInv, Begin PROVE IInv'
<1>1. /\ sup.pc = "loop" /\ Allowed /\ UNCHANGED <<inputs, result, success, launched, code, spent>>
      /\ UNCHANGED <<attested, redis, pub, con, ready>>
  BY DEF Begin, stream
<1>2. FreshStream /\ state.active = 0  BY <1>1 DEF IInv, SupInv
<1>3. FreshStream'  BY <1>1, <1>2 DEF FreshStream
<1>4. FreshFacts'  BY <1>3, FreshOKNext
<1>5. /\ state \in StateType /\ state.attempts \in Nat /\ state.stagnant \in Nat
  BY StateFacts DEF IInv, TypeOK
<1>6. PICK n \in Nat : n = state.attempts + 1  BY <1>5
<1>7. PICK t : t = state'  OBVIOUS
<1>8. t = [state EXCEPT !.attempts = n, !.active = n, !.progress = -1]  BY <1>6, <1>7 DEF Begin
<1>9. -1 \in Int  OBVIOUS
<1>10. /\ t \in StateType /\ t.attempts = n /\ t.active = n /\ t.progress = -1
       /\ t.stagnant = state.stagnant /\ t.fatal = state.fatal
  BY <1>5, <1>8, <1>9, Zenon DEF StateType
<1>11. PICK pc \in SupPcs : pc = "launch"  BY DEF SupPcs
<1>12. PICK z : z = sup'  OBVIOUS
<1>13. z = [FreshSup EXCEPT !.pc = pc]  BY <1>11, <1>12 DEF Begin
<1>14. /\ z \in SupType /\ z.pc = pc /\ z.codes = [p \in {} |-> "0"] /\ z.success = FALSE
       /\ z.poison = FALSE /\ z.fatal = FALSE
  BY <1>13, FreshSupAt, Zenon
<1>15. success = 0  BY <1>1, NotOver
<1>16. TypeOK'  BY <1>1, <1>4, <1>7, <1>10, <1>12, <1>14 DEF IInv, TypeOK, FreshFacts
<1>17. PubInv' /\ QueueInv'  BY <1>4, <1>7, <1>10 DEF FreshFacts
<1>18. SupInv'
  <2>1. DOMAIN sup'.codes = {}  BY <1>12, <1>14
  <2>2. n # 0  BY <1>5, <1>6
  <2> QED  BY <1>1, <1>3, <1>7, <1>10, <1>11, <1>12, <1>14, <1>15, <2>1, <2>2 DEF SupInv
<1>19. BudgetInv'
  <2>1. launched \in Nat /\ launched <= state.attempts  BY DEF IInv, TypeOK, BudgetInv
  <2>2. launched <= n /\ launched < n /\ n <= Attempts
    BY <1>1, <1>5, <1>6, <2>1 DEF Allowed, AttemptAssumption
  <2>3. state.stagnant < NoProgress /\ state.stagnant <= NoProgress /\ ~state.fatal
    BY <1>1, <1>5 DEF Allowed, AttemptAssumption
  <2>4. \A a \in 1..Attempts : ~result[a].fatal
    <3> SUFFICES ASSUME NEW a \in 1..Attempts, result[a].fatal PROVE FALSE  OBVIOUS
    <3>1. state.active = a \/ state.fatal  BY DEF IInv, BudgetInv
    <3> QED  BY <1>2, <2>3, <3>1
  <2> QED  BY <1>1, <1>7, <1>10, <2>2, <2>3, <2>4 DEF BudgetInv
<1>20. SuccessInv'  BY <1>1, <1>15 DEF SuccessInv
<1>21. CalmInv'  BY <1>1, <1>12, <1>14 DEF IInv, CalmInv, Unspoilt
<1> QED  BY <1>16, <1>17, <1>18, <1>19, <1>20, <1>21 DEF IInv

LEMMA LaunchStep == ASSUME AttemptAssumption, IInv, Launch PROVE IInv'
<1>1. /\ sup.pc = "launch" /\ code' = [code EXCEPT ![Publisher] = "running"] /\ launched' = launched + 1
      /\ Goto("poll") /\ UNCHANGED <<inputs, state, result, success, attested, redis, pub, con, ready, spent>>
  BY DEF Launch, stream
<1>2. /\ FreshStream /\ state.active # 0 /\ ~sup.success /\ success = 0
      /\ sup.codes = [p \in {} |-> "0"] /\ launched < state.attempts
  BY <1>1, NotOver DEF IInv, SupInv, BudgetInv
<1>3. \A p \in Participants : code[p] = "none"  BY <1>2, FreshOK DEF FreshFacts
<1>4. /\ code' \in [Participants -> Codes] /\ code'[Publisher] = "running"
      /\ \A p \in Participants : p # Publisher => code'[p] = "none"
  BY <1>1, <1>3 DEF IInv, TypeOK, Codes, Participants
<1>5. \A g \in Groups : code'[g] = "none" /\ code[g] = "none"
  BY <1>3, <1>4 DEF AttemptAssumption, Participants
<1>6. sup \in SupType /\ "poll" \in SupPcs  BY DEF IInv, TypeOK, SupPcs
<1>7. PICK t : t = sup'  OBVIOUS
<1>8. t = [sup EXCEPT !.pc = "poll"]  BY <1>1, <1>7 DEF Goto
<1>9. /\ t \in SupType /\ t.pc = "poll" /\ t.codes = sup.codes
      /\ t.poison = sup.poison /\ t.success = sup.success /\ t.fatal = sup.fatal
  BY <1>6, <1>8, GotoFacts
<1>10. launched' \in Nat /\ launched' <= state.attempts
  <2>1. launched \in Nat /\ state.attempts \in Nat  BY StateFacts DEF IInv, TypeOK
  <2> QED  BY <1>1, <1>2, <2>1
<1>11. TypeOK'  BY <1>1, <1>4, <1>7, <1>9, <1>10 DEF IInv, TypeOK
<1>12. PubInv'
  <2>1. Publisher \in Participants  BY DEF Participants
  <2>2. Waits(Publisher)  BY <1>3, <2>1 DEF Waits
  <2> QED  BY <1>1, <1>4, <2>2 DEF IInv, PubInv
<1>13. QueueInv'
  <2>1. \A g \in Groups : Waits(g)  BY <1>5 DEF Waits
  <2> QED  BY <1>1, <2>1 DEF IInv, QueueInv
<1>14. SupInv'
  <2>1. DOMAIN sup'.codes = {}  BY <1>2, <1>7, <1>9
  <2> QED  BY <1>1, <1>2, <1>5, <1>7, <1>9, <2>1 DEF SupInv
<1>15. BudgetInv'  BY <1>1, <1>7, <1>9, <1>10 DEF IInv, BudgetInv
<1>16. SuccessInv'  BY <1>1, <1>2 DEF SuccessInv
<1>17. CalmInv'
  <2>1. \A p \in Participants : code'[p] # "fatal"  BY <1>4
  <2> QED  BY <1>1, <1>7, <1>9, <2>1 DEF IInv, CalmInv, Unspoilt
<1> QED  BY <1>11, <1>12, <1>13, <1>14, <1>15, <1>16, <1>17 DEF IInv

LEMMA PollCodesStep == ASSUME AttemptAssumption, IInv, PollCodes PROVE IInv'
<1>1. /\ sup.pc = "poll" /\ UNCHANGED <<inputs, state, result, success, launched, stream, spent>>
      /\ UNCHANGED <<attested, redis, pub, con, ready>>
  BY DEF PollCodes, stream
<1>2. PICK E : E = {p \in Participants : code[p] \in Exits}  OBVIOUS
<1>3. CASE /\ \E p \in E : code[p] # "0"
           /\ Stop(\E p \in E : FatalExit(code[p]))
           /\ UNCHANGED code
  <2>1. PICK f \in BOOLEAN : f = (\E p \in E : FatalExit(code[p]))  OBVIOUS
  <2>2. Stop(f)  BY <1>3, <2>1
  <2>3. Unspoilt => ~f  BY <1>2, <2>1 DEF IInv, CalmInv, FatalExit
  <2> QED  BY <1>1, <1>3, <2>2, <2>3, SameSpent, StopStep
<1>4. CASE /\ \A p \in E : code[p] = "0"
           /\ sup' = [sup EXCEPT !.pc = IF sup.joined \/ ready THEN "read" ELSE "poll",
                                 !.joined = sup.joined \/ ready,
                                 !.codes = [p \in E |-> "0"]]
           /\ code' = IF ready /\ ~sup.joined
                      THEN [p \in Participants |-> IF p \in Groups THEN "running" ELSE code[p]]
                      ELSE code
  <2>1. /\ success = 0 /\ state.active # 0 /\ ~sup.success
        /\ (~sup.joined => \A g \in Groups : code[g] = "none")
    BY <1>1, NotOver DEF IInv, SupInv
  <2>2. /\ code' \in [Participants -> Codes] /\ code'[Publisher] = code[Publisher]
        /\ \A p \in Participants : code'[p] = code[p] \/ (p \in Groups /\ code'[p] = "running" /\ code[p] = "none")
    <3>1. code \in [Participants -> Codes]  BY DEF IInv, TypeOK
    <3>2. CASE ready /\ ~sup.joined
      <4>1. code' = [p \in Participants |-> IF p \in Groups THEN "running" ELSE code[p]]  BY <1>4, <3>2
      <4>2. "running" \in Codes  BY DEF Codes
      <4>3. Publisher \in Participants /\ Publisher \notin Groups  BY DEF AttemptAssumption, Participants
      <4>4. code' \in [Participants -> Codes]  BY <3>1, <4>1, <4>2
      <4>5. \A p \in Participants : code'[p] = IF p \in Groups THEN "running" ELSE code[p]  BY <4>1
      <4> QED  BY <2>1, <3>2, <4>3, <4>4, <4>5
    <3>3. CASE ~(ready /\ ~sup.joined)
      <4>1. code' = code  BY <1>4, <3>3
      <4> QED  BY <3>1, <4>1
    <3> QED  BY <3>2, <3>3
  <2>3. \A p \in E : code'[p] = "0"
    <3> SUFFICES ASSUME NEW p \in E PROVE code'[p] = "0"  OBVIOUS
    <3>1. p \in Participants /\ code[p] = "0"  BY <1>2, <1>4
    <3> QED  BY <2>2, <3>1
  <2>4. \A p \in Participants : Waits(p)' => Waits(p)  BY <2>2 DEF Waits
  <2>5. PICK pc \in SupPcs : pc = IF sup.joined \/ ready THEN "read" ELSE "poll"  BY DEF SupPcs
  <2>6. PICK j \in BOOLEAN : j = (sup.joined \/ ready)  BY DEF IInv, TypeOK, SupType
  <2>7. PICK c \in UNION {[S -> {"0"}] : S \in SUBSET Participants} : c = [p \in E |-> "0"] /\ DOMAIN c = E
    <3>1. [p \in E |-> "0"] \in [E -> {"0"}] /\ E \in SUBSET Participants  BY <1>2
    <3> QED  BY <3>1
  <2>8. PICK t : t = sup'  OBVIOUS
  <2>9. t = [sup EXCEPT !.pc = pc, !.joined = j, !.codes = c]  BY <1>4, <2>5, <2>6, <2>7, <2>8
  <2>10. sup \in SupType  BY DEF IInv, TypeOK
  <2>11. /\ t \in SupType /\ t.pc = pc /\ t.joined = j /\ t.codes = c
         /\ t.poison = sup.poison /\ t.success = sup.success /\ t.fatal = sup.fatal
    BY <2>5, <2>6, <2>7, <2>9, <2>10, Zenon DEF SupType
  <2>12. TypeOK'  BY <1>1, <2>2, <2>8, <2>11 DEF IInv, TypeOK
  <2>13. PubInv'
    <3>1. Waits(Publisher)' = Waits(Publisher)  BY <2>2 DEF Waits
    <3> QED  BY <1>1, <2>2, <3>1 DEF IInv, PubInv
  <2>14. QueueInv'
    <3>1. \A g \in Groups : Waits(g)' => Waits(g)  BY <2>4 DEF Participants
    <3> QED  BY <1>1, <3>1 DEF IInv, QueueInv
  <2>15. SupInv'
    <3>1. t.pc = "poll" /\ ~t.joined => \A g \in Groups : code'[g] = "none"
      <4> SUFFICES ASSUME ~j, NEW g \in Groups PROVE code'[g] = "none"  BY <2>11
      <4>1. ~sup.joined /\ ~ready  BY <2>6
      <4>2. code' = code  BY <1>4, <4>1
      <4> QED  BY <2>1, <4>1, <4>2
    <3>2. t.pc \in {"read", "poll"}  BY <2>5, <2>11
    <3>3. \A p \in DOMAIN t.codes : code'[p] = "0"  BY <2>3, <2>7, <2>11
    <3>4. t.pc = "read" => t.joined  BY <2>5, <2>6, <2>11
    <3> QED  BY <1>1, <2>1, <2>8, <2>11, <3>1, <3>2, <3>3, <3>4 DEF SupInv
  <2>16. BudgetInv'
    <3>1. t.pc # "launch"  BY <2>5, <2>11
    <3> QED  BY <1>1, <2>8, <3>1 DEF IInv, BudgetInv
  <2>17. SuccessInv'  BY <1>1, <2>1 DEF SuccessInv
  <2>18. CalmInv'
    <3>1. \A p \in Participants : code'[p] = "fatal" => code[p] = "fatal"  BY <2>2
    <3> QED  BY <1>1, <2>8, <2>11, <3>1 DEF IInv, CalmInv, Unspoilt
  <2> QED  BY <2>12, <2>13, <2>14, <2>15, <2>16, <2>17, <2>18 DEF IInv
<1> QED  BY <1>2, <1>3, <1>4 DEF PollCodes

\* The mark of the slowest group is one of the groups' marks.
LEMMA SlowestFacts ==
    ASSUME AttemptAssumption, IInv, NEW s, s = Slowest
    PROVE  s \in Int /\ state.progress <= s /\ \A g \in Groups : s <= redis.done[g]
<1>1. PICK b \in Int : b = state.progress  BY StateFacts DEF IInv, TypeOK
<1>2. \A g \in Groups : redis.done[g] \in Int /\ b <= redis.done[g]
  BY <1>1, RedisFacts DEF IInv, TypeOK, QueueInv
<1>3. PICK D : D = {redis.done[g] : g \in Groups}  OBVIOUS
<1>4. D \subseteq Int /\ D # {} /\ \A d \in D : b <= d  BY <1>2, <1>3 DEF AttemptAssumption
<1>5. PICK T : T = {n \in Nat : b + n \in D}  OBVIOUS
<1>6. T # {}
  <2>1. PICK d \in D : TRUE  BY <1>4
  <2>2. d - b \in Nat /\ b + (d - b) = d  BY <1>4, <2>1
  <2>3. d - b \in T  BY <1>5, <2>2
  <2> QED  BY <2>3
<1>7. PICK x \in T : \A y \in T : x <= y
  <2>0. T \subseteq Nat  BY <1>5
  <2>1. PICK x \in T : \A y \in T : ~(<<y, x>> \in OpToRel(<, Nat))
    BY <1>6, <2>0, NatLessThanWellFounded, WFMin, Zenon
  <2>2. \A y \in T : ~(y < x)  BY <2>0, <2>1 DEF OpToRel
  <2> QED  BY <2>0, <2>2
<1>8. PICK m \in D : m = b + x  BY <1>5, <1>7
<1>9. \A d \in D : m <= d
  <2> SUFFICES ASSUME NEW d \in D PROVE m <= d  OBVIOUS
  <2>1. d \in Int /\ d - b \in Nat /\ b + (d - b) = d  BY <1>4
  <2>2. d - b \in T  BY <1>5, <2>1
  <2>3. x <= d - b /\ x \in Nat  BY <1>5, <1>7, <2>2
  <2> QED  BY <1>8, <2>1, <2>3
<1>10. s = Min(D)  BY <1>3 DEF Slowest
<1>11. s \in D /\ \A d \in D : s <= d  BY <1>9, <1>10 DEF Min
<1> QED  BY <1>1, <1>3, <1>4, <1>11

LEMMA ReadProgressStep == ASSUME AttemptAssumption, IInv, ReadProgress PROVE IInv'
<1>1. /\ sup.pc = "read" /\ UNCHANGED <<inputs, result, success, launched, code, spent>>
      /\ UNCHANGED stream /\ UNCHANGED <<attested, redis, pub, con, ready>>
  BY DEF ReadProgress, stream
<1>2. PICK s : s = Slowest  OBVIOUS
<1>3. s \in Int /\ state.progress <= s /\ \A g \in Groups : s <= redis.done[g]  BY <1>2, SlowestFacts
<1>4. state.progress \in Int /\ state \in StateType  BY StateFacts DEF IInv, TypeOK
<1>5. ValidProgress
  <2>1. \A g \in Groups : redis.done[g] <= redis.published
    <3> SUFFICES ASSUME NEW g \in Groups PROVE redis.done[g] <= redis.published  OBVIOUS
    <3>1. redis.done[g] \in Int /\ con[g].applied \in Nat /\ redis.published \in Nat
      BY RedisFacts, ConFacts DEF IInv, TypeOK
    <3>2. redis.done[g] <= con[g].applied /\ con[g].applied <= redis.published  BY DEF IInv, QueueInv
    <3> QED  BY <3>1, <3>2
  <2>2. Publisher \in DOMAIN sup.codes => redis.terminal  BY DEF IInv, SupInv, PubInv
  <2>3. Slowest >= state.progress  BY <1>2, <1>3, <1>4
  <2> QED  BY <2>1, <2>2, <2>3 DEF ValidProgress
<1>6. PICK t : t = state'  OBVIOUS
<1>7. t = [state EXCEPT !.progress = s]  BY <1>2, <1>5, <1>6 DEF ReadProgress
<1>8. /\ t \in StateType /\ t.progress = s /\ t.attempts = state.attempts /\ t.active = state.active
      /\ t.stagnant = state.stagnant /\ t.fatal = state.fatal
  BY <1>3, <1>4, <1>7, Zenon DEF StateType
<1>9. /\ success = 0 /\ state.active # 0 /\ ~sup.success /\ \A p \in DOMAIN sup.codes : code[p] = "0"
  BY <1>1, NotOver DEF IInv, SupInv
\* What is left is where the supervisor goes.
<1>10. ASSUME sup' \in SupType, sup'.pc \in {"poll", "stop"}, sup'.pc = "poll" => sup'.joined,
              \A p \in DOMAIN sup'.codes : code[p] = "0", sup'.success => WholeStream /\ sup'.pc = "stop",
              Unspoilt => ~sup'.poison /\ ~sup'.fatal
       PROVE  IInv'
  <2>1. TypeOK'  BY <1>1, <1>6, <1>8, <1>10 DEF IInv, TypeOK
  <2>2. PubInv'  BY <1>1 DEF IInv, PubInv, Waits
  <2>3. QueueInv'  BY <1>1, <1>3, <1>6, <1>8 DEF IInv, QueueInv, Waits
  <2>4. SupInv'
    <3>1. WholeStream' = WholeStream  BY <1>1 DEF WholeStream
    <3> QED  BY <1>1, <1>6, <1>8, <1>9, <1>10, <3>1 DEF SupInv
  <2>5. BudgetInv'  BY <1>1, <1>6, <1>8, <1>10 DEF IInv, BudgetInv
  <2>6. SuccessInv'  BY <1>1, <1>9 DEF SuccessInv
  <2>7. CalmInv'  BY <1>1, <1>10 DEF IInv, CalmInv, Unspoilt
  <2> QED  BY <2>1, <2>2, <2>3, <2>4, <2>5, <2>6, <2>7 DEF IInv
<1>11. PICK z : z = sup'  OBVIOUS
<1>12. sup \in SupType /\ sup.joined  BY <1>1 DEF IInv, TypeOK, SupInv
<1>13. CASE redis.poisoned /\ sup' = [sup EXCEPT !.pc = "poll", !.poison = TRUE]
  <2>1. "poll" \in SupPcs /\ TRUE \in BOOLEAN  BY DEF SupPcs
  <2>2. z = [sup EXCEPT !.pc = "poll", !.poison = TRUE]  BY <1>11, <1>13
  <2>3. /\ z \in SupType /\ z.pc = "poll" /\ z.joined = sup.joined /\ z.codes = sup.codes
        /\ z.success = sup.success /\ z.fatal = sup.fatal
    BY <1>12, <2>1, <2>2, Zenon DEF SupType
  <2>4. ~Unspoilt  BY <1>13 DEF IInv, CalmInv
  <2> QED  BY <1>9, <1>10, <1>11, <1>12, <2>3, <2>4
<1>14. CASE CompleteAttempt /\ sup' = [FreshSup EXCEPT !.pc = "stop", !.success = TRUE]
  <2>1. "stop" \in SupPcs /\ TRUE \in BOOLEAN  BY DEF SupPcs
  <2>2. z = [FreshSup EXCEPT !.pc = "stop", !.success = TRUE]  BY <1>11, <1>14
  <2>3. /\ FreshSup \in SupType /\ FreshSup.codes = [p \in {} |-> "0"]
        /\ FreshSup.poison = FALSE /\ FreshSup.fatal = FALSE
    BY FreshSupFacts
  <2>4. /\ z \in SupType /\ z.pc = "stop" /\ z.codes = FreshSup.codes /\ z.poison = FreshSup.poison
        /\ z.fatal = FreshSup.fatal
    BY <2>1, <2>2, <2>3, Zenon DEF SupType
  <2>5. DOMAIN z.codes = {}  BY <2>3, <2>4
  <2>6. WholeStream
    <3>1. /\ DOMAIN sup.codes = Participants /\ redis.terminal /\ s = redis.published /\ attested = Groups
      BY <1>2, <1>14 DEF CompleteAttempt
    <3>2. ASSUME NEW g \in Groups PROVE con[g].applied = LastEntry
      <4>1. redis.done[g] \in Int /\ con[g].applied \in Nat /\ redis.published \in Nat
        BY RedisFacts, ConFacts DEF IInv, TypeOK
      <4>2. /\ redis.done[g] <= con[g].applied /\ con[g].applied <= redis.published
            /\ redis.published = LastEntry
        BY <3>1 DEF IInv, QueueInv
      <4> QED  BY <1>3, <3>1, <4>1, <4>2
    <3> QED  BY <1>9, <3>1, <3>2 DEF WholeStream
  <2> QED  BY <1>10, <1>11, <2>3, <2>4, <2>5, <2>6
<1>15. CASE Goto("poll")
  <2>1. "poll" \in SupPcs  BY DEF SupPcs
  <2>2. z = [sup EXCEPT !.pc = "poll"]  BY <1>11, <1>15 DEF Goto
  <2>3. /\ z \in SupType /\ z.pc = "poll" /\ z.joined = sup.joined /\ z.codes = sup.codes
        /\ z.poison = sup.poison /\ z.success = sup.success /\ z.fatal = sup.fatal
    BY <1>12, <2>1, <2>2, Zenon DEF SupType
  <2>4. Unspoilt => ~sup.poison /\ ~sup.fatal  BY DEF IInv, CalmInv
  <2> QED  BY <1>9, <1>10, <1>11, <1>12, <2>3, <2>4
<1> QED  BY <1>5, <1>13, <1>14, <1>15 DEF ReadProgress

-----------------------------------------------------------------------------
(* Everything together                                                     *)

LEMMA SpoilStep == ASSUME IInv, Spoil PROVE IInv'
<1>1. /\ UNCHANGED <<state, result, success, sup, launched, attested, redis, pub, con, ready, code>>
      /\ UNCHANGED <<stream, code>> /\ inputs' \in BOOLEAN
  BY DEF Spoil, stream
<1>2. spent' \in SpentType /\ ~Unspoilt'  BY OwnSpent DEF Spoil
<1>3. TypeOK'  BY <1>1, <1>2 DEF IInv, TypeOK
<1>4. PubInv' /\ QueueInv'  BY <1>1, StreamSame
<1>5. SupInv'  BY <1>1 DEF IInv, SupInv, FreshStream, WholeStream, Running
<1>6. BudgetInv'  BY <1>1 DEF IInv, BudgetInv
<1>7. SuccessInv'  BY <1>1 DEF IInv, SuccessInv, WholeStream
<1>8. CalmInv'  BY <1>2 DEF CalmInv
<1> QED  BY <1>3, <1>4, <1>5, <1>6, <1>7, <1>8 DEF IInv

LEMMA InitOK == ASSUME AttemptAssumption, Init PROVE IInv
<1>1. FreshStream  BY DEF Init, FreshStream
<1>2. FreshFacts  BY <1>1, FreshOK
<1>3. /\ state \in StateType /\ state.attempts = 0 /\ state.active = 0 /\ state.stagnant = 0
      /\ state.progress = -1 /\ state.fatal = FALSE
  BY DEF Init, FreshState, StateType
<1>4. result \in [1..Attempts -> ResultType] /\ \A a \in 1..Attempts : ~result[a].fatal
  <2>1. NoResult \in ResultType /\ NoResult.fatal = FALSE  BY DEF NoResult, ResultType
  <2> QED  BY <2>1 DEF Init
<1>5. /\ sup \in SupType /\ sup.pc = "down" /\ sup.codes = [p \in {} |-> "0"] /\ sup.success = FALSE
      /\ sup.poison = FALSE /\ sup.fatal = FALSE
  <2>1. sup = FreshSup  BY DEF Init
  <2> QED  BY <2>1, FreshSupFacts
<1>6. spent \in SpentType /\ inputs = TRUE /\ launched = 0 /\ success = 0  BY DEF Init, SpentType
<1>7. TypeOK
  <2>1. success \in 0..Attempts  BY <1>6 DEF AttemptAssumption
  <2> QED  BY <1>2, <1>3, <1>4, <1>5, <1>6, <2>1 DEF TypeOK, FreshFacts
<1>8. PubInv /\ QueueInv  BY <1>2, <1>3 DEF FreshFacts
<1>9. SupInv
  <2>1. DOMAIN sup.codes = {}  BY <1>5
  <2> QED  BY <1>1, <1>3, <1>5, <1>6, <2>1 DEF SupInv
<1>10. BudgetInv  BY <1>3, <1>4, <1>5, <1>6 DEF BudgetInv, AttemptAssumption
<1>11. SuccessInv  BY <1>6 DEF SuccessInv
<1>12. CalmInv  BY <1>2, <1>4, <1>5, <1>6 DEF CalmInv, FreshFacts
<1> QED  BY <1>7, <1>8, <1>9, <1>10, <1>11, <1>12 DEF IInv

LEMMA StutterStep == ASSUME IInv, UNCHANGED vars PROVE IInv'
<1>1. /\ UNCHANGED <<state, result, success, sup, launched, inputs, spent, code>>
      /\ UNCHANGED <<attested, redis, pub, con, ready>> /\ UNCHANGED <<stream, code>>
  BY DEF vars, stream
<1>2. TypeOK'  BY <1>1 DEF IInv, TypeOK
<1>3. PubInv' /\ QueueInv'  BY <1>1, StreamSame
<1>4. SupInv'  BY <1>1 DEF IInv, SupInv, FreshStream, WholeStream, Running
<1>5. BudgetInv'  BY <1>1 DEF IInv, BudgetInv
<1>6. SuccessInv'  BY <1>1 DEF IInv, SuccessInv, WholeStream
<1>7. CalmInv'  BY <1>1 DEF IInv, CalmInv, Unspoilt
<1> QED  BY <1>2, <1>3, <1>4, <1>5, <1>6, <1>7 DEF IInv

LEMMA NextStep == ASSUME AttemptAssumption, IInv, [Next]_vars PROVE IInv'
<1>1. CASE PublisherStep
  BY <1>1, PubInsertStep, PubAppendStep, PubReadyStep, PubExitStep, PubFailsStep DEF PublisherStep
<1>2. ASSUME NEW g \in Groups, AdapterStep(g) PROVE IInv'
  BY <1>2, JoinStep, PollStep, AcknowledgeStep, AttestStep, ConExitStep, ConFailsStep DEF AdapterStep
<1>3. CASE SupervisorStep
  BY <1>3, StartStep, RecoverStep, BeginStep, GiveUpStep, LaunchStep, PollCodesStep, ReadProgressStep,
     DeadlineStep, WriteResultStep, CommitStep, TerminateStep DEF SupervisorStep
<1>4. ASSUME NEW p \in Participants, Die(p) PROVE IInv'  BY <1>4, DieStep
<1>5. CASE LosesRedis \/ Interrupt \/ Kill \/ Spoil
  BY <1>5, LosesRedisStep, InterruptStep, KillStep, SpoilStep
<1>6. CASE UNCHANGED vars  BY <1>6, StutterStep
<1> QED  BY <1>1, <1>2, <1>3, <1>4, <1>5, <1>6 DEF Next

(***************************************************************************)
(* The inductive invariant holds in every reachable state of a run, for    *)
(* every set of groups, every length of the stream and every limit of      *)
(* supervisor.py, the publisher and attempt.lua.                           *)
(***************************************************************************)
THEOREM AttemptInvariance == ASSUME AttemptAssumption PROVE Spec => []IInv
<1>1. Init => IInv  BY InitOK
<1>2. IInv /\ [Next]_vars => IInv'  BY NextStep
<1> QED  BY <1>1, <1>2, PTL DEF Spec

(***************************************************************************)
(* SUCCESS.json names a whole attempt, the budgets of starts hold over     *)
(* every kill of the supervisor, and the queue of an attempt is exact:     *)
(* supervisor.py's run and attempt, the publisher's buffer, consumer.py    *)
(* and attempt.lua.                                                        *)
(***************************************************************************)
THEOREM AttemptSound == ASSUME AttemptAssumption PROVE Spec => []AttemptIsSound
<1>1. ASSUME IInv PROVE AttemptIsSound
  <2>1. SuccessIsWhole
    <3> SUFFICES ASSUME success # 0
                 PROVE  /\ result[success] = [success |-> TRUE, fatal |-> FALSE] /\ attested = Groups
                        /\ state.active = success /\ redis.terminal
                        /\ \A g \in Groups : con[g].applied = LastEntry /\ code[g] = "0"
      BY DEF SuccessIsWhole
    <3>1. /\ state.active = success /\ WholeStream
          /\ result[success] = [success |-> TRUE, fatal |-> FALSE]
      BY <1>1 DEF IInv, SuccessInv
    <3> QED  BY <3>1 DEF WholeStream, Participants
  <2>2. StartsAreBudgeted  BY <1>1 DEF IInv, BudgetInv, StartsAreBudgeted
  <2>3. QueueIsExact
    <3>1. Buffered <= Capacity  BY <1>1 DEF IInv, PubInv, Buffered
    <3>2. (\E a \in 1..Attempts : result[a].fatal) => spent.faults + spent.own > 0
      <4>1. spent.faults \in Nat /\ spent.own \in Nat  BY <1>1, SpentFacts DEF IInv, TypeOK
      <4>2. (\E a \in 1..Attempts : result[a].fatal) => ~Unspoilt  BY <1>1 DEF IInv, CalmInv
      <4> QED  BY <4>1, <4>2 DEF Unspoilt
    <3>3. /\ redis.retained = {n \in 1..redis.published : \E g \in Groups : redis.done[g] < n}
          /\ redis.bytes = Cardinality(redis.retained) /\ redis.bytes <= QueueLimit
          /\ \A g \in Groups : redis.done[g] <= con[g].applied /\ con[g].applied <= redis.published
      BY <1>1 DEF IInv, QueueInv
    <3> QED  BY <3>1, <3>2, <3>3 DEF QueueIsExact
  <2> QED  BY <2>1, <2>2, <2>3 DEF AttemptIsSound
<1>2. Spec => []IInv  BY AttemptInvariance
<1> QED  BY <1>1, <1>2, PTL

============================================================================
