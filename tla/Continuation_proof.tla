------------------------- MODULE Continuation_proof -------------------------
(***************************************************************************)
(* Proofs about the continuation of a search, for any finite set of polls, *)
(* any providers and pages, any limit of attempts and any number of        *)
(* troubles.                                                               *)
(***************************************************************************)
EXTENDS Continuation, FiniteSetTheorems, TLAPS

(* Where a poll may have the lease, and where its copy of the executions is *)
(* the session's as long as it has.                                         *)
Holding == {"lock", "unlock", "begin", "renew", "call", "assert", "apply", "save", "abandon"}
Working == {"begin", "renew", "call", "assert", "apply", "save"}
Calling == {"renew", "call", "assert", "apply", "save"}

Pages == {h \in Providers \X Nat : h[2] \in 1..LastPage[h[1]]}

SessionType ==
    [execs : [Providers -> Execution], hotels : SUBSET Pages,
     incomplete : BOOLEAN, continuing : BOOLEAN, fresh : BOOLEAN]

(* Executions that fit the hotels found: an execution that can still be     *)
(* tried has a page to ask for, and every page before it was found.         *)
Fits(execs, hotels) ==
    /\ execs \in [Providers -> Execution]
    /\ \A q \in Providers : execs[q].state \notin Ended => execs[q].page <= LastPage[q]
    /\ \A q \in Providers : \A c \in 1..LastPage[q] : c < execs[q].page => <<q, c>> \in hotels

IsPoll(r) == r = [pc |-> r.pc, execs |-> r.execs, answers |-> r.answers, behind |-> r.behind]

FirstAnswer(answers) == CHOOSE q \in DOMAIN answers : TRUE

(* What a poll has in memory: a copy that fits, whatever has happened to    *)
(* the session since; answers of executions it has begun; and, between      *)
(* append and save, an answer whose hotels are in the session.              *)
PollOK(r, hotels) ==
    /\ IsPoll(r)
    /\ r.pc \notin {"idle", "abandon"} => Fits(r.execs, hotels)
    /\ r.pc \in Calling => \A q \in DOMAIN r.answers : q \in Providers /\ r.execs[q].state = "running"
    /\ r.pc = "save" => /\ DOMAIN r.answers # {}
                        /\ <<FirstAnswer(r.answers), r.execs[FirstAnswer(r.answers)].page>> \in hotels

SessionOK(s) == s \in SessionType /\ Fits(s.execs, s.hotels)

PollsOK ==
    /\ poll = [p \in Polls |-> poll[p]]
    /\ \A p \in Polls : PollOK(poll[p], session.hotels)

LeaseOK == lease \in Polls \cup {None, Orphan} /\ (lease \in Polls => poll[lease].pc \in Holding)

(* Nobody else writes the executions under the lease, and its owner writes  *)
(* what it keeps.                                                           *)
OwnerAgrees ==
    lease \in Polls /\ poll[lease].pc \in Working => poll[lease].execs = session.execs

(* The executions that Begin and Save store. *)
BegunAll(execs) == [q \in Providers |-> IF q \in Runnable(execs) THEN Begun(execs[q]) ELSE execs[q]]

Saved(p) ==
    [poll[p].execs EXCEPT ![NextAnswer(p)] =
        Applied(@, poll[p].answers[NextAnswer(p)], LastPage[NextAnswer(p)])]

ContinuationInv == SessionOK(session) /\ PollsOK /\ LeaseOK /\ OwnerAgrees

-----------------------------------------------------------------------------
(* The executions. *)

(* recoverStaleProviderExecutions moves no page. *)
LEMMA RecoveredFits ==
  ASSUME NEW execs, NEW hotels, Fits(execs, hotels)
  PROVE  Fits(Recovered(execs), hotels)
BY DEF Fits, Recovered, Execution, States, Ended

(* Nor does a retry delay that ends. *)
LEMMA DueFits ==
  ASSUME NEW execs, NEW hotels, Fits(execs, hotels)
  PROVE  Fits(Due(execs), hotels)
BY DEF Fits, Due, Execution, States, Ended

(* What beginProviderExecutionAttempt does to one execution. *)
LEMMA BegunIs ==
  ASSUME NEW e \in Execution
  PROVE  /\ Begun(e) = [state |-> "running", page |-> e.page, attempts |-> e.attempts + 1]
         /\ Begun(e) \in Execution
<1> DEFINE run == [e EXCEPT !.state = "running"]
<1>1. run = [state |-> "running", page |-> e.page, attempts |-> e.attempts]
  BY DEF Execution
<1>2. Begun(e) = [run EXCEPT !.attempts = e.attempts + 1]
  BY DEF Begun
<1> HIDE DEF run
<1>3. Begun(e) = [state |-> "running", page |-> e.page, attempts |-> e.attempts + 1]
  BY <1>1, <1>2
<1> QED BY <1>3 DEF Execution, States

(* It begins executions that have not ended. *)
LEMMA BegunFits ==
  ASSUME NEW execs, NEW hotels, Fits(execs, hotels)
  PROVE  Fits([q \in Providers |-> IF q \in Runnable(execs) THEN Begun(execs[q]) ELSE execs[q]], hotels)
<1> DEFINE begun == [q \in Providers |-> IF q \in Runnable(execs) THEN Begun(execs[q]) ELSE execs[q]]
<1>1. \A q \in Providers : execs[q] \in Execution
  BY DEF Fits
<1>2. \A q \in Providers : begun[q] \in Execution /\ begun[q].page = execs[q].page
  BY <1>1, BegunIs
<1>3. \A q \in Providers : begun[q].state \notin Ended => execs[q].state \notin Ended
  BY <1>1 DEF Runnable, In, Ended
<1>4. begun \in [Providers -> Execution]
  BY <1>2
<1>5. Fits(begun, hotels)
  <2> HIDE DEF begun
  <2> QED BY <1>2, <1>3, <1>4 DEF Fits
<1> QED BY <1>5

(* One execution is replaced by another that fits. *)
LEMMA PutFits ==
  ASSUME NEW execs, NEW hotels, Fits(execs, hotels), NEW q \in Providers, NEW e \in Execution,
         e.state \notin Ended => e.page <= LastPage[q],
         \A c \in 1..LastPage[q] : c < e.page => <<q, c>> \in hotels
  PROVE  Fits([execs EXCEPT ![q] = e], hotels)
BY DEF Fits

(* What applyProviderExecutionSuccess and applyProviderExecutionFailure do  *)
(* to one execution: only the answer with a page moves the cursor.          *)
LEMMA AppliedIs ==
  ASSUME NEW e \in Execution, NEW last \in Nat \ {0}, e.page <= last, NEW answer
  PROVE  /\ Applied(e, answer, last) \in Execution
         /\ Applied(e, answer, last).page # e.page =>
               answer = "page" /\ Applied(e, answer, last).page = e.page + 1
         /\ Applied(e, answer, last).page = e.page =>
               Applied(e, answer, last).attempts = e.attempts
         /\ Applied(e, answer, last).state \in {"pending", "waiting", "completed", "failed"}
         /\ Applied(e, answer, last).state = "pending" =>
               Applied(e, answer, last).page \in 1..last /\ Applied(e, answer, last).attempts = 0
         /\ Applied(e, answer, last).state = "waiting" =>
               Applied(e, answer, last).page = e.page /\ e.attempts < MaxAttempts
         /\ Applied(e, answer, last).state \in Ended => Applied(e, answer, last).attempts = e.attempts
         /\ Applied(e, answer, last).page # e.page =>
               Applied(e, answer, last).attempts = 0 \/ Applied(e, answer, last).page > last
<1>1. /\ e = [state |-> e.state, page |-> e.page, attempts |-> e.attempts]
      /\ e.page \in Nat \ {0} /\ e.attempts \in Nat
  BY DEF Execution
<1>2. CASE answer = "page" /\ e.page < last
  <2>1. Applied(e, answer, last) = [state |-> "pending", page |-> e.page + 1, attempts |-> 0]
    BY <1>1, <1>2 DEF Applied
  <2> QED BY <1>1, <1>2, <2>1 DEF Execution, States, Ended
<1>3. CASE answer = "page" /\ e.page >= last
  <2> DEFINE over == [e EXCEPT !.state = "completed"]
  <2>1. over = [state |-> "completed", page |-> e.page, attempts |-> e.attempts]
    BY <1>1
  <2>2. last = e.page
    BY <1>1, <1>3
  <2>3. Applied(e, answer, last) = [over EXCEPT !.page = last + 1]
    BY <1>1, <1>3, <2>2 DEF Applied
  <2> HIDE DEF over
  <2>4. Applied(e, answer, last) = [state |-> "completed", page |-> last + 1, attempts |-> e.attempts]
    BY <2>1, <2>3
  <2> QED BY <1>1, <1>3, <2>2, <2>4 DEF Execution, States, Ended
<1>4. CASE answer = "empty"
  <2>1. Applied(e, answer, last) = [state |-> "completed", page |-> e.page, attempts |-> e.attempts]
    BY <1>1, <1>4 DEF Applied
  <2> QED BY <1>1, <2>1 DEF Execution, States, Ended
<1>5. CASE answer = "retryable" /\ e.attempts < MaxAttempts
  <2>1. Applied(e, answer, last) = [state |-> "waiting", page |-> e.page, attempts |-> e.attempts]
    BY <1>1, <1>5 DEF Applied
  <2> QED BY <1>1, <1>5, <2>1 DEF Execution, States, Ended
<1>6. CASE ~(answer = "page" /\ e.page < last) /\ ~(answer = "page" /\ e.page >= last)
           /\ ~(answer = "empty") /\ ~(answer = "retryable" /\ e.attempts < MaxAttempts)
  <2>1. Applied(e, answer, last) = [state |-> "failed", page |-> e.page, attempts |-> e.attempts]
    BY <1>1, <1>6 DEF Applied
  <2> QED BY <1>1, <2>1 DEF Execution, States, Ended
<1> QED BY <1>2, <1>3, <1>4, <1>5, <1>6

(* An answer is applied after its hotels were appended, so that the cursor  *)
(* moves over a page that was found.                                        *)
LEMMA AppliedFits ==
  ASSUME NEW execs, NEW hotels, Fits(execs, hotels),
         NEW q \in Providers, execs[q].state = "running",
         NEW answer, answer = "page" => <<q, execs[q].page>> \in hotels
  PROVE  Fits([execs EXCEPT ![q] = Applied(@, answer, LastPage[q])], hotels)
<1> DEFINE e == execs[q]
           a == Applied(e, answer, LastPage[q])
<1>1. e \in Execution /\ e.page <= LastPage[q] /\ LastPage[q] \in Nat \ {0}
  BY ContinuationBounds DEF Fits, Ended
<1>2. /\ a \in Execution
      /\ a.page # e.page => answer = "page" /\ a.page = e.page + 1
      /\ a.state \in {"pending", "waiting", "completed", "failed"}
      /\ a.state = "pending" => a.page \in 1..LastPage[q]
      /\ a.state = "waiting" => a.page = e.page
  BY <1>1, AppliedIs
<1>3. a.state \notin Ended => a.page <= LastPage[q]
  BY <1>1, <1>2 DEF Ended
<1>4. \A c \in 1..LastPage[q] : c < a.page => <<q, c>> \in hotels
  <2> HIDE DEF a
  <2> QED BY <1>1, <1>2 DEF Fits, Execution
<1> QED BY <1>2, <1>3, <1>4, PutFits

(* Hotels that are added fit the same executions. *)
LEMMA MoreHotelsFit ==
  ASSUME NEW execs, NEW hotels, NEW more, hotels \subseteq more, Fits(execs, hotels)
  PROVE  Fits(execs, more)
BY DEF Fits

-----------------------------------------------------------------------------
(* The records of the polls. *)

(* A poll's record with another pc. *)
LEMMA GotoIs ==
  ASSUME NEW p \in Polls, NEW pc, IsPoll(poll[p])
  PROVE  Goto(p, pc) = [pc |-> pc, execs |-> poll[p].execs, answers |-> poll[p].answers,
                        behind |-> poll[p].behind]
<1> DEFINE r == poll[p]
           x == r.execs
           a == r.answers
           b == r.behind
<1>1. r = [pc |-> r.pc, execs |-> x, answers |-> a, behind |-> b]
  BY DEF IsPoll
<1>2. Goto(p, pc) = [r EXCEPT !.pc = pc]
  BY DEF Goto
<1> HIDE DEF r, x, a, b
<1>3. [r EXCEPT !.pc = pc] = [pc |-> pc, execs |-> x, answers |-> a, behind |-> b]
  BY <1>1
<1> QED BY <1>2, <1>3 DEF r, x, a, b

(* A poll that has read the session holds a copy of its executions and      *)
(* nothing else.                                                            *)
LEMMA CopyIs ==
  ASSUME NEW execs, NEW pc
  PROVE  [Nobody EXCEPT !.execs = execs, !.pc = pc]
            = [pc |-> pc, execs |-> execs, answers |-> <<>>, behind |-> FALSE]
<1> DEFINE r == Nobody
           i == "idle"
           none == <<>>
           no == FALSE
           one == [r EXCEPT !.execs = execs]
<1>1. r = [pc |-> i, execs |-> none, answers |-> none, behind |-> no]
  BY DEF Nobody
<1> HIDE DEF r, i, none, no
<1>2. [r EXCEPT !.execs = execs, !.pc = pc] = [one EXCEPT !.pc = pc]
  BY <1>1
<1>3. one = [pc |-> i, execs |-> execs, answers |-> none, behind |-> no]
  BY <1>1
<1> HIDE DEF one
<1>4. [one EXCEPT !.pc = pc] = [pc |-> pc, execs |-> execs, answers |-> none, behind |-> no]
  BY <1>3
<1>5. [r EXCEPT !.execs = execs, !.pc = pc] = [pc |-> pc, execs |-> execs, answers |-> none, behind |-> no]
  BY <1>2, <1>4
<1> QED BY ONLY <1>5 DEF r, none, no

LEMMA BranchIs ==
  ASSUME NEW execs
  PROVE  /\ Branch(execs) = [pc |-> Branch(execs).pc, execs |-> execs, answers |-> <<>>, behind |-> FALSE]
         /\ Branch(execs).pc \in {"finish", "wait", "acquire"}
<1> DEFINE pc == IF ~Incomplete(execs) THEN "finish" ELSE IF MustWait(execs) THEN "wait" ELSE "acquire"
<1>1. Branch(execs) = [Nobody EXCEPT !.execs = execs, !.pc = pc]
  BY DEF Branch
<1>2. pc \in {"finish", "wait", "acquire"}
  OBVIOUS
<1> HIDE DEF pc
<1>3. Branch(execs) = [pc |-> pc, execs |-> execs, answers |-> <<>>, behind |-> FALSE]
  BY <1>1, CopyIs
<1> QED BY <1>2, <1>3

(* A poll that has a copy which fits, and is neither calling nor applying,  *)
(* is in order.                                                             *)
LEMMA CopyOK ==
  ASSUME NEW pc, pc \notin Calling, NEW execs, NEW answers, NEW behind, NEW hotels,
         pc \notin {"idle", "abandon"} => Fits(execs, hotels)
  PROVE  PollOK([pc |-> pc, execs |-> execs, answers |-> answers, behind |-> behind], hotels)
BY DEF PollOK, IsPoll, Calling

(* Where an error leaves a poll, in particular one that may have the lease. *)
LEMMA OnErrorOK ==
  ASSUME NEW p \in Polls, NEW hotels, PollOK(poll[p], hotels)
  PROVE  /\ PollOK(OnError(p), hotels)
         /\ poll[p].pc \in {"lock", "begin", "renew", "assert", "apply", "save"}
               => OnError(p).pc \in {"unlock", "abandon"}
<1>1. CASE poll[p].pc = "lock"
  <2>1. OnError(p) = [pc |-> "unlock", execs |-> poll[p].execs, answers |-> poll[p].answers,
                      behind |-> poll[p].behind]
    BY <1>1, GotoIs DEF OnError, At, PollOK
  <2>2. Fits(poll[p].execs, hotels)
    BY <1>1 DEF PollOK
  <2> QED BY <2>1, <2>2, CopyOK DEF Calling
<1>2. CASE poll[p].pc \in {"begin", "renew", "assert", "apply", "save"}
  <2>1. OnError(p) = [pc |-> "abandon", execs |-> <<>>, answers |-> <<>>, behind |-> FALSE]
    BY <1>2 DEF OnError, At, Nobody
  <2> QED BY <2>1, CopyOK DEF Calling
<1>3. CASE poll[p].pc \notin {"lock", "begin", "renew", "assert", "apply", "save"}
  <2>1. OnError(p) = [pc |-> "idle", execs |-> <<>>, answers |-> <<>>, behind |-> FALSE]
    BY <1>3 DEF OnError, At, Nobody
  <2> QED BY <1>3, <2>1, CopyOK DEF Calling
<1> QED BY <1>1, <1>2, <1>3

LEMMA NobodyOK == \A hotels : PollOK(Nobody, hotels)
BY CopyOK DEF Nobody, Calling

(* Hotels that are added leave a poll in order. *)
LEMMA MoreHotelsOK ==
  ASSUME NEW r, NEW hotels, NEW more, hotels \subseteq more, PollOK(r, hotels)
  PROVE  PollOK(r, more)
BY MoreHotelsFit DEF PollOK

-----------------------------------------------------------------------------
(* The steps of one poll. *)

(* A poll becomes next, and the others stay where they are. *)
Moves(p, next) ==
    /\ poll' = [q \in Polls |-> IF q = p THEN next ELSE poll'[q]]
    /\ \A q \in Polls \ {p} :
          poll'[q] = [pc |-> poll[q].pc, execs |-> poll[q].execs, answers |-> poll[q].answers,
                      behind |-> poll'[q].behind]

LEMMA BecomeMoves ==
  ASSUME PollsOK, NEW p \in Polls, NEW next, Become(p, next)
  PROVE  Moves(p, next)
<1>1. poll' = [q \in Polls |-> IF q = p THEN next ELSE poll[q]]
  BY DEF Become, PollsOK
<1>2. \A q \in Polls : IsPoll(poll[q])
  BY DEF PollsOK, PollOK
<1> QED BY <1>1, <1>2 DEF Moves, IsPoll

(* A step of one poll keeps the invariant when the session it leaves fits,  *)
(* the poll is in order with it, a lease that the poll has afterwards finds *)
(* it at work with that session, and another's lease finds the executions   *)
(* as they were.                                                            *)
LEMMA MoveInv ==
  ASSUME ContinuationInv, NEW p \in Polls, NEW next, Moves(p, next),
         SessionOK(session'), session.hotels \subseteq session'.hotels,
         PollOK(next, session'.hotels),
         lease' \in Polls \cup {None, Orphan},
         lease' = p => next.pc \in Holding /\ (next.pc \in Working => next.execs = session'.execs),
         lease' \in Polls \ {p} => lease' = lease /\ session'.execs = session.execs
  PROVE  ContinuationInv'
<1>1. poll' = [q \in Polls |-> poll'[q]] /\ poll'[p] = next
  BY DEF Moves
<1>2. \A q \in Polls \ {p} : /\ poll'[q] = [pc |-> poll[q].pc, execs |-> poll[q].execs,
                                          answers |-> poll[q].answers, behind |-> poll'[q].behind]
                             /\ poll'[q].pc = poll[q].pc /\ poll'[q].execs = poll[q].execs
                             /\ poll'[q].answers = poll[q].answers
  BY DEF Moves
<1>3. \A q \in Polls : PollOK(poll'[q], session'.hotels)
  <2> SUFFICES ASSUME NEW q \in Polls \ {p} PROVE PollOK(poll'[q], session'.hotels)
    BY <1>1
  <2>1. PollOK(poll[q], session'.hotels)
    BY MoreHotelsOK DEF ContinuationInv, PollsOK
  <2> QED BY <1>2, <2>1 DEF PollOK, IsPoll
<1>4. PollsOK'
  BY <1>1, <1>3 DEF PollsOK
<1>5. LeaseOK'
  BY <1>1, <1>2 DEF ContinuationInv, LeaseOK
<1>6. OwnerAgrees'
  BY <1>1, <1>2 DEF ContinuationInv, OwnerAgrees
<1> QED BY <1>4, <1>5, <1>6 DEF ContinuationInv

(* An owned update, whether it is refused, takes effect or fails. *)
LEMMA OwnedWriteInv ==
  ASSUME ContinuationInv, NEW p \in Polls, NEW s, NEW l, NEW next, OwnedWrite(p, s, l, next),
         poll[p].pc \in {"lock", "begin", "renew", "assert", "apply", "save"},
         lease = p =>
            /\ SessionOK(s) /\ session.hotels \subseteq s.hotels /\ PollOK(next, s.hotels)
            /\ l = None \/ (l = p /\ next.pc \in Holding /\ (next.pc \in Working => next.execs = s.execs))
  PROVE  ContinuationInv'
<1>1. PollsOK /\ PollOK(poll[p], session.hotels) /\ SessionOK(session) /\ LeaseOK
  BY DEF ContinuationInv, PollsOK
<1>2. CASE lease = p /\ session' = s /\ lease' = l /\ Become(p, next)
  BY <1>1, <1>2, BecomeMoves, MoveInv, PollsAssumption
<1>3. CASE lease = p /\ session' = s /\ lease' = l /\ Become(p, OnError(p))
  <2>1. PollOK(OnError(p), s.hotels) /\ OnError(p).pc \in {"unlock", "abandon"}
    BY <1>1, <1>3, OnErrorOK, MoreHotelsOK
  <2> QED BY <1>1, <1>3, <2>1, BecomeMoves, MoveInv, PollsAssumption DEF Holding, Working
<1>4. CASE UNCHANGED <<session, lease>> /\ Become(p, OnError(p))
  <2>1. PollOK(OnError(p), session.hotels) /\ OnError(p).pc \in {"unlock", "abandon"}
    BY <1>1, OnErrorOK
  <2> QED BY <1>1, <1>4, <2>1, BecomeMoves, MoveInv DEF Holding, Working, LeaseOK
<1> QED BY <1>2, <1>3, <1>4 DEF OwnedWrite, Owned

(* An update without the lease: it takes effect only while there is none. *)
LEMMA UnlockedWriteInv ==
  ASSUME ContinuationInv, NEW p \in Polls, NEW s, NEW next, UnlockedWrite(p, s, next),
         poll[p].pc \in {"recover", "finish", "wait"},
         SessionOK(s), s.hotels = session.hotels, PollOK(next, s.hotels)
  PROVE  ContinuationInv'
<1>1. PollsOK /\ PollOK(poll[p], session.hotels) /\ SessionOK(session) /\ LeaseOK
  BY DEF ContinuationInv, PollsOK
<1>2. lease # p /\ lease' = lease /\ (session' = session \/ (lease = None /\ session' = s))
  BY <1>1 DEF UnlockedWrite, LeaseOK, Holding
<1>3. PollOK(OnError(p), session.hotels)
  BY <1>1, OnErrorOK
<1>4. PICK r : r \in {next, OnError(p)} /\ Become(p, r)
  BY DEF UnlockedWrite
<1> QED BY <1>1, <1>2, <1>3, <1>4, BecomeMoves, MoveInv, PollsAssumption DEF LeaseOK

-----------------------------------------------------------------------------
(* The updates of the session. *)

(* One field at a time. *)
LEMMA PutExecs ==
  ASSUME NEW s \in SessionType, NEW execs \in [Providers -> Execution]
  PROVE  /\ [s EXCEPT !.execs = execs] \in SessionType
         /\ [s EXCEPT !.execs = execs].execs = execs
         /\ [s EXCEPT !.execs = execs].hotels = s.hotels
BY DEF SessionType

LEMMA PutHotels ==
  ASSUME NEW s \in SessionType, NEW hotels \in SUBSET Pages
  PROVE  /\ [s EXCEPT !.hotels = hotels] \in SessionType
         /\ [s EXCEPT !.hotels = hotels].execs = s.execs
         /\ [s EXCEPT !.hotels = hotels].hotels = hotels
BY DEF SessionType

LEMMA PutFlag ==
  ASSUME NEW s \in SessionType, NEW b \in BOOLEAN
  PROVE  /\ [s EXCEPT !.continuing = b] \in SessionType
         /\ [s EXCEPT !.incomplete = b] \in SessionType
         /\ [s EXCEPT !.fresh = b] \in SessionType
         /\ [s EXCEPT !.continuing = b].execs = s.execs /\ [s EXCEPT !.continuing = b].hotels = s.hotels
         /\ [s EXCEPT !.incomplete = b].execs = s.execs /\ [s EXCEPT !.incomplete = b].hotels = s.hotels
         /\ [s EXCEPT !.fresh = b].execs = s.execs /\ [s EXCEPT !.fresh = b].hotels = s.hotels
BY DEF SessionType

(* The marks of a continuation do not touch executions or hotels. *)
LEMMA MarkedSession ==
  ASSUME NEW s \in SessionType, NEW b \in BOOLEAN, NEW c \in BOOLEAN
  PROVE  /\ [s EXCEPT !.continuing = b, !.fresh = c] \in SessionType
         /\ [s EXCEPT !.continuing = b, !.fresh = c].execs = s.execs
         /\ [s EXCEPT !.continuing = b, !.fresh = c].hotels = s.hotels
<1> DEFINE one == [s EXCEPT !.continuing = b]
<1>1. one \in SessionType /\ one.execs = s.execs /\ one.hotels = s.hotels
  BY PutFlag
<1>2. [s EXCEPT !.continuing = b, !.fresh = c] = [one EXCEPT !.fresh = c]
  BY DEF SessionType
<1> HIDE DEF one
<1>3. /\ [one EXCEPT !.fresh = c] \in SessionType
      /\ [one EXCEPT !.fresh = c].execs = one.execs
      /\ [one EXCEPT !.fresh = c].hotels = one.hotels
  BY <1>1, PutFlag
<1> QED BY <1>1, <1>2, <1>3

LEMMA WrittenSession ==
  ASSUME NEW s \in SessionType, NEW execs \in [Providers -> Execution], NEW b \in BOOLEAN
  PROVE  /\ [s EXCEPT !.execs = execs, !.continuing = b] \in SessionType
         /\ [s EXCEPT !.execs = execs, !.continuing = b].execs = execs
         /\ [s EXCEPT !.execs = execs, !.continuing = b].hotels = s.hotels
<1> DEFINE one == [s EXCEPT !.execs = execs]
<1>1. one \in SessionType /\ one.execs = execs /\ one.hotels = s.hotels
  BY PutExecs
<1>2. [s EXCEPT !.execs = execs, !.continuing = b] = [one EXCEPT !.continuing = b]
  BY DEF SessionType
<1> HIDE DEF one
<1>3. /\ [one EXCEPT !.continuing = b] \in SessionType
      /\ [one EXCEPT !.continuing = b].execs = one.execs
      /\ [one EXCEPT !.continuing = b].hotels = one.hotels
  BY <1>1, PutFlag
<1> QED BY <1>1, <1>2, <1>3

LEMMA ReleasedSession ==
  ASSUME NEW s \in SessionType, NEW execs \in [Providers -> Execution], NEW b \in BOOLEAN, NEW c \in BOOLEAN
  PROVE  /\ [s EXCEPT !.execs = execs, !.continuing = b, !.incomplete = c] \in SessionType
         /\ [s EXCEPT !.execs = execs, !.continuing = b, !.incomplete = c].execs = execs
         /\ [s EXCEPT !.execs = execs, !.continuing = b, !.incomplete = c].hotels = s.hotels
<1> DEFINE one == [s EXCEPT !.execs = execs, !.continuing = b]
<1>1. one \in SessionType /\ one.execs = execs /\ one.hotels = s.hotels
  BY WrittenSession
<1>2. [s EXCEPT !.execs = execs, !.continuing = b, !.incomplete = c] = [one EXCEPT !.incomplete = c]
  BY DEF SessionType
<1> HIDE DEF one
<1>3. /\ [one EXCEPT !.incomplete = c] \in SessionType
      /\ [one EXCEPT !.incomplete = c].execs = one.execs
      /\ [one EXCEPT !.incomplete = c].hotels = one.hotels
  BY <1>1, PutFlag
<1> QED BY <1>1, <1>2, <1>3

LEMMA IncompleteIsBoolean == \A execs : Incomplete(execs) \in BOOLEAN
BY DEF Incomplete

-----------------------------------------------------------------------------
(* The steps of continueHotelSearch. *)

LEMMA ReadInv == ASSUME ContinuationInv, NEW p \in Polls, Read(p) PROVE ContinuationInv'
<1>1. PollsOK /\ SessionOK(session) /\ LeaseOK /\ Fits(session.execs, session.hotels)
  BY DEF ContinuationInv, SessionOK
<1>2. lease # p /\ session' = session /\ lease' = lease
  BY <1>1 DEF Read, At, LeaseOK, Holding
<1>3. PICK r : Become(p, r) /\ PollOK(r, session.hotels)
  <2>1. CASE session.continuing
    <3>1. Become(p, [Nobody EXCEPT !.execs = Recovered(session.execs), !.pc = "recover"])
      BY <2>1 DEF Read
    <3>2. [Nobody EXCEPT !.execs = Recovered(session.execs), !.pc = "recover"]
             = [pc |-> "recover", execs |-> Recovered(session.execs), answers |-> <<>>, behind |-> FALSE]
      BY CopyIs
    <3>3. Fits(Recovered(session.execs), session.hotels)
      BY <1>1, RecoveredFits
    <3> QED BY <3>1, <3>2, <3>3, CopyOK DEF Calling
  <2>2. CASE ~session.continuing
    <3> DEFINE r == Branch(session.execs)
               n == [r EXCEPT !.behind = lease \in Polls]
    <3>1. Become(p, n)
      BY <2>2 DEF Read
    <3>2. r = [pc |-> r.pc, execs |-> session.execs, answers |-> <<>>, behind |-> FALSE]
          /\ r.pc \in {"finish", "wait", "acquire"}
      BY BranchIs
    <3>3. n = [pc |-> r.pc, execs |-> session.execs, answers |-> <<>>, behind |-> lease \in Polls]
      <4> HIDE DEF r
      <4> QED BY <3>2
    <3>4. PollOK(n, session.hotels)
      BY <1>1, <3>2, <3>3, CopyOK DEF Calling
    <3> QED BY <3>1, <3>4
  <2> QED BY <2>1, <2>2
<1> QED BY <1>1, <1>2, <1>3, BecomeMoves, MoveInv DEF LeaseOK

(* What the copy of a poll says of the session an update leaves. *)
LEMMA CopyWritten ==
  ASSUME ContinuationInv, NEW p \in Polls, poll[p].pc \notin {"idle", "abandon"},
         NEW s, s \in SessionType, s.execs = poll[p].execs, s.hotels = session.hotels
  PROVE  SessionOK(s)
BY DEF ContinuationInv, PollsOK, PollOK, SessionOK

LEMMA RecoverInv == ASSUME ContinuationInv, NEW p \in Polls, Recover(p) PROVE ContinuationInv'
<1> DEFINE s == [session EXCEPT !.execs = poll[p].execs, !.continuing = FALSE]
           r == Branch(poll[p].execs)
           n == [r EXCEPT !.behind = poll[p].behind]
<1>1. poll[p].pc = "recover" /\ UnlockedWrite(p, s, n)
  BY DEF Recover, At
<1>2. Fits(poll[p].execs, session.hotels) /\ session \in SessionType
  BY <1>1 DEF ContinuationInv, PollsOK, PollOK, SessionOK
<1>3. s \in SessionType /\ s.execs = poll[p].execs /\ s.hotels = session.hotels
  BY <1>2, WrittenSession DEF Fits
<1>4. PollOK(n, session.hotels)
  <2>1. r = [pc |-> r.pc, execs |-> poll[p].execs, answers |-> <<>>, behind |-> FALSE]
        /\ r.pc \in {"finish", "wait", "acquire"}
    BY BranchIs
  <2>2. n = [pc |-> r.pc, execs |-> poll[p].execs, answers |-> <<>>, behind |-> poll[p].behind]
    <3> HIDE DEF r
    <3> QED BY <2>1
  <2> QED BY <1>2, <2>1, <2>2, CopyOK DEF Calling
<1> HIDE DEF s, n
<1> QED BY <1>1, <1>2, <1>3, <1>4, CopyWritten, UnlockedWriteInv

LEMMA FinishInv == ASSUME ContinuationInv, NEW p \in Polls, Finish(p) \/ Wait(p) PROVE ContinuationInv'
<1>1. PICK b \in BOOLEAN :
         UnlockedWrite(p, [session EXCEPT !.execs = poll[p].execs, !.continuing = FALSE, !.incomplete = b], Nobody)
  BY DEF Finish, Wait
<1> DEFINE s == [session EXCEPT !.execs = poll[p].execs, !.continuing = FALSE, !.incomplete = b]
<1>2. poll[p].pc \in {"finish", "wait"}
  BY DEF Finish, Wait, At
<1>3. Fits(poll[p].execs, session.hotels) /\ session \in SessionType
  BY <1>2 DEF ContinuationInv, PollsOK, PollOK, SessionOK
<1>4. s \in SessionType /\ s.execs = poll[p].execs /\ s.hotels = session.hotels
  <2> DEFINE execs == poll[p].execs
  <2>1. execs \in [Providers -> Execution] /\ FALSE \in BOOLEAN
    BY <1>3 DEF Fits
  <2> HIDE DEF execs
  <2>2. /\ [session EXCEPT !.execs = execs, !.continuing = FALSE, !.incomplete = b] \in SessionType
        /\ [session EXCEPT !.execs = execs, !.continuing = FALSE, !.incomplete = b].execs = execs
        /\ [session EXCEPT !.execs = execs, !.continuing = FALSE, !.incomplete = b].hotels = session.hotels
    BY <1>3, <2>1, ReleasedSession, Zenon
  <2> QED BY <2>2 DEF execs
<1> HIDE DEF s
<1>5. SessionOK(s)
  BY <1>2, <1>4, CopyWritten
<1>6. UnlockedWrite(p, s, Nobody)
  BY <1>1 DEF s
<1> QED BY <1>2, <1>4, <1>5, <1>6, NobodyOK, UnlockedWriteInv

(* A new lease finds the other polls where they are, and nothing at work.   *)
LEMMA GrantedMoves ==
  ASSUME PollsOK, NEW p \in Polls, NEW l, NEW next, Granted(p, l, next)
  PROVE  Moves(p, next)
<1>1. poll' = [q \in Polls |-> IF q = p THEN next
                               ELSE [poll[q] EXCEPT !.behind = @ \/ poll[q].pc \in BeforeLock]]
  BY DEF Granted
<1>2. ASSUME NEW q \in Polls \ {p}
      PROVE  poll'[q] = [pc |-> poll[q].pc, execs |-> poll[q].execs, answers |-> poll[q].answers,
                         behind |-> poll'[q].behind]
  <2> DEFINE r == poll[q]
             b == r.behind \/ r.pc \in BeforeLock
  <2>1. r = [pc |-> r.pc, execs |-> r.execs, answers |-> r.answers, behind |-> r.behind]
    BY DEF PollsOK, PollOK, IsPoll
  <2>2. poll'[q] = [r EXCEPT !.behind = b]
    BY <1>1
  <2> HIDE DEF r, b
  <2>3. [r EXCEPT !.behind = b] = [pc |-> r.pc, execs |-> r.execs, answers |-> r.answers, behind |-> b]
    BY <2>1
  <2>4. poll'[q] = [pc |-> r.pc, execs |-> r.execs, answers |-> r.answers, behind |-> b]
    BY <2>2, <2>3
  <2>5. poll'[q].behind = b
    BY <2>4
  <2> QED BY <2>4, <2>5 DEF r
<1> QED BY <1>1, <1>2 DEF Moves

LEMMA AcquireInv == ASSUME ContinuationInv, NEW p \in Polls, Acquire(p) PROVE ContinuationInv'
<1>1. PollsOK /\ SessionOK(session) /\ LeaseOK /\ poll[p].pc = "acquire" /\ PollOK(poll[p], session.hotels)
  BY DEF ContinuationInv, PollsOK, Acquire, At
<1>2. lease # p /\ session' = session
  BY <1>1 DEF Acquire, LeaseOK, Holding
<1>3. CASE Granted(p, p, Goto(p, "lock"))
  <2>1. Goto(p, "lock") = [pc |-> "lock", execs |-> poll[p].execs, answers |-> poll[p].answers,
                           behind |-> poll[p].behind]
    BY <1>1, GotoIs DEF PollOK
  <2>2. PollOK(Goto(p, "lock"), session.hotels)
    BY <1>1, <2>1, CopyOK DEF Calling, PollOK
  <2>3. lease' = p
    BY <1>3 DEF Granted
  <2> QED BY <1>1, <1>2, <1>3, <2>1, <2>2, <2>3, GrantedMoves, MoveInv DEF Holding, Working
<1>4. CASE Granted(p, Orphan, Nobody)
  <2>1. lease' = Orphan
    BY <1>4 DEF Granted
  <2> QED BY <1>1, <1>2, <1>4, <2>1, GrantedMoves, MoveInv, NobodyOK, PollsAssumption
<1>5. CASE UNCHANGED lease /\ Become(p, Nobody)
  BY <1>1, <1>2, <1>5, BecomeMoves, MoveInv, NobodyOK DEF LeaseOK
<1> QED BY <1>3, <1>4, <1>5 DEF Acquire

(* tryAcquireSearchContinuation takes the executions of the session that it *)
(* locked.                                                                  *)
LEMMA LockIs ==
  ASSUME ContinuationInv, NEW p \in Polls, Lock(p)
  PROVE  \E s, n : /\ OwnedWrite(p, s, lease, n) /\ SessionOK(s) /\ PollOK(n, s.hotels)
                  /\ s.execs = session.execs /\ s.hotels = session.hotels
                  /\ n.pc = "begin" /\ n.execs = s.execs
<1> DEFINE s == [session EXCEPT !.continuing = TRUE, !.fresh = TRUE]
           r == Goto(p, "begin")
           n == [r EXCEPT !.execs = session.execs]
<1>1. poll[p].pc = "lock" /\ OwnedWrite(p, s, lease, n)
  BY DEF Lock, At
<1>2. SessionOK(session) /\ IsPoll(poll[p])
  BY DEF ContinuationInv, PollsOK, PollOK
<1>3. s \in SessionType /\ s.execs = session.execs /\ s.hotels = session.hotels
  BY <1>2, MarkedSession DEF SessionOK
<1>4. n = [pc |-> "begin", execs |-> session.execs, answers |-> poll[p].answers, behind |-> poll[p].behind]
  <2>1. r = [pc |-> "begin", execs |-> poll[p].execs, answers |-> poll[p].answers, behind |-> poll[p].behind]
    BY <1>2, GotoIs
  <2> HIDE DEF r
  <2> QED BY <2>1
<1> HIDE DEF s, n
<1>5. SessionOK(s) /\ PollOK(n, s.hotels)
  BY <1>2, <1>3, <1>4, CopyOK DEF SessionOK, Calling
<1> QED BY <1>1, <1>3, <1>4, <1>5

LEMMA LockInv == ASSUME ContinuationInv, NEW p \in Polls, Lock(p) PROVE ContinuationInv'
<1>1. poll[p].pc = "lock"
  BY DEF Lock, At
<1> QED BY <1>1, LockIs, OwnedWriteInv DEF Holding, Working

LEMMA UnlockInv == ASSUME ContinuationInv, NEW p \in Polls, Unlock(p) PROVE ContinuationInv'
<1>1. PollsOK /\ SessionOK(session) /\ LeaseOK
  BY DEF ContinuationInv
<1>2. Become(p, Nobody) /\ session' = session /\ lease' # p
      /\ lease' \in {lease, None, Orphan}
  BY PollsAssumption DEF Unlock, GivenBack, Owned
<1> QED BY <1>1, <1>2, BecomeMoves, MoveInv, NobodyOK, PollsAssumption DEF LeaseOK

LEMMA BeginIs ==
  ASSUME ContinuationInv, NEW p \in Polls, Begin(p)
  PROVE  \E s, n : /\ OwnedWrite(p, s, lease, n) /\ SessionOK(s) /\ PollOK(n, s.hotels)
                  /\ s.execs = BegunAll(poll[p].execs) /\ s.hotels = session.hotels
                  /\ n.pc = "renew" /\ n.execs = s.execs /\ DOMAIN n.answers = Runnable(poll[p].execs)
<1> DEFINE copy == poll[p].execs
           calls == Runnable(copy)
           execs == [q \in Providers |-> IF q \in calls THEN Begun(copy[q]) ELSE copy[q]]
           one == [session EXCEPT !.execs = execs, !.incomplete = TRUE]
           s == [session EXCEPT !.execs = execs, !.incomplete = TRUE, !.continuing = TRUE]
           answers == [q \in calls |-> "none"]
           n == [pc |-> "renew", execs |-> execs, answers |-> answers, behind |-> FALSE]
<1>1. poll[p].pc = "begin" /\ OwnedWrite(p, s, lease, n)
  BY DEF Begin, At
<1>2. SessionOK(session) /\ Fits(copy, session.hotels)
  BY <1>1 DEF ContinuationInv, PollsOK, PollOK
<1>3. Fits(execs, session.hotels)
  BY <1>2, BegunFits
<1>4. \A q \in calls : q \in Providers /\ execs[q].state = "running"
  <2>1. \A q \in calls : q \in Providers /\ copy[q] \in Execution
    BY <1>2 DEF Runnable, In, Fits
  <2> HIDE DEF calls
  <2> QED BY <2>1, BegunIs
<1>5. PollOK(n, session.hotels)
  <2> HIDE DEF execs, calls
  <2> QED BY <1>3, <1>4 DEF PollOK, IsPoll, Calling
<1>6. s \in SessionType /\ s.execs = execs /\ s.hotels = session.hotels
  <2> DEFINE first == [session EXCEPT !.execs = execs]
             second == [first EXCEPT !.incomplete = TRUE]
  <2> HIDE DEF execs
  <2>1. session \in SessionType /\ execs \in [Providers -> Execution]
    BY <1>2, <1>3 DEF SessionOK, Fits
  <2>2. first \in SessionType /\ first.execs = execs /\ first.hotels = session.hotels
    BY <2>1, PutExecs
  <2>3. s = [second EXCEPT !.continuing = TRUE]
    BY <2>1 DEF SessionType
  <2> HIDE DEF first
  <2>4. second \in SessionType /\ second.execs = execs /\ second.hotels = session.hotels
    BY <2>2, PutFlag
  <2> HIDE DEF second
  <2> QED BY <2>3, <2>4, PutFlag
<1>7. n.pc = "renew" /\ n.execs = execs /\ DOMAIN n.answers = calls
  <2> HIDE DEF execs, calls
  <2> QED OBVIOUS
<1> HIDE DEF execs, n, s
<1>8. SessionOK(s) /\ PollOK(n, s.hotels)
  BY <1>3, <1>5, <1>6 DEF SessionOK
<1> QED BY <1>1, <1>6, <1>7, <1>8 DEF BegunAll, execs

LEMMA BeginInv == ASSUME ContinuationInv, NEW p \in Polls, Begin(p) PROVE ContinuationInv'
<1>1. poll[p].pc = "begin"
  BY DEF Begin, At
<1> QED BY <1>1, BeginIs, OwnedWriteInv DEF Holding, Working

LEMMA RenewIs ==
  ASSUME ContinuationInv, NEW p \in Polls, Renew(p)
  PROVE  \E s, n : /\ OwnedWrite(p, s, lease, n) /\ SessionOK(s) /\ PollOK(n, s.hotels)
                  /\ s.execs = session.execs /\ s.hotels = session.hotels
                  /\ n.execs = poll[p].execs /\ n.answers = poll[p].answers
                  /\ n.pc = IF poll[p].pc = "renew" THEN "call" ELSE "apply"
<1> DEFINE s == [session EXCEPT !.continuing = TRUE, !.fresh = TRUE]
           n == Goto(p, IF At(p, "renew") THEN "call" ELSE "apply")
<1>1. poll[p].pc \in {"renew", "assert"} /\ OwnedWrite(p, s, lease, n)
  BY DEF Renew
<1>2. SessionOK(session) /\ PollOK(poll[p], session.hotels)
  BY DEF ContinuationInv, PollsOK
<1>3. s \in SessionType /\ s.execs = session.execs /\ s.hotels = session.hotels
  BY <1>2, MarkedSession DEF SessionOK
<1>4. n = [pc |-> n.pc, execs |-> poll[p].execs, answers |-> poll[p].answers, behind |-> poll[p].behind]
      /\ n.pc = IF poll[p].pc = "renew" THEN "call" ELSE "apply"
  BY <1>2, GotoIs DEF PollOK, At
<1> HIDE DEF s, n
<1>5. SessionOK(s) /\ PollOK(n, s.hotels)
  BY <1>1, <1>2, <1>3, <1>4 DEF SessionOK, PollOK, IsPoll, Calling
<1> QED BY <1>1, <1>3, <1>4, <1>5

LEMMA RenewInv == ASSUME ContinuationInv, NEW p \in Polls, Renew(p) PROVE ContinuationInv'
<1>1. poll[p].pc \in {"renew", "assert"}
  BY DEF Renew
<1>2. lease = p => poll[p].execs = session.execs
  BY <1>1 DEF ContinuationInv, OwnerAgrees, Working
<1> QED BY <1>1, <1>2, RenewIs, OwnedWriteInv DEF Holding, Working

LEMMA CallInv == ASSUME ContinuationInv, NEW p \in Polls, Call(p) PROVE ContinuationInv'
<1> DEFINE calls == DOMAIN poll[p].answers
           r == Goto(p, "assert")
<1>1. PollsOK /\ SessionOK(session) /\ LeaseOK /\ PollOK(poll[p], session.hotels)
      /\ poll[p].pc = "call" /\ session' = session /\ lease' = lease
  BY DEF ContinuationInv, PollsOK, Call, At
<1>2. PICK answers \in [calls -> Answers] : Become(p, [r EXCEPT !.answers = answers])
  BY DEF Call
<1> DEFINE n == [r EXCEPT !.answers = answers]
<1>3. n = [pc |-> "assert", execs |-> poll[p].execs, answers |-> answers, behind |-> poll[p].behind]
  <2>1. r = [pc |-> "assert", execs |-> poll[p].execs, answers |-> poll[p].answers, behind |-> poll[p].behind]
    BY <1>1, GotoIs DEF PollOK
  <2> HIDE DEF r
  <2> QED BY <2>1
<1>4. DOMAIN answers = calls
  OBVIOUS
<1> HIDE DEF n
<1>5. PollOK(n, session.hotels)
  BY <1>1, <1>3, <1>4 DEF PollOK, IsPoll, Calling
<1>6. lease = p => poll[p].execs = session.execs
  BY <1>1 DEF ContinuationInv, OwnerAgrees, Working
<1>7. Become(p, n)
  BY <1>2 DEF n
<1> QED BY <1>1, <1>3, <1>5, <1>6, <1>7, BecomeMoves, MoveInv DEF Holding, Working, LeaseOK

(* The answer that a poll applies next is of an execution it has begun. *)
LEMMA NextAnswerIs ==
  ASSUME ContinuationInv, NEW p \in Polls, poll[p].pc \in {"apply", "save"}, DOMAIN poll[p].answers # {}
  PROVE  /\ NextAnswer(p) = FirstAnswer(poll[p].answers)
         /\ NextAnswer(p) \in DOMAIN poll[p].answers /\ NextAnswer(p) \in Providers
         /\ poll[p].execs[NextAnswer(p)].state = "running"
         /\ Fits(poll[p].execs, session.hotels) /\ IsPoll(poll[p])
<1>1. NextAnswer(p) = FirstAnswer(poll[p].answers) /\ NextAnswer(p) \in DOMAIN poll[p].answers
  BY DEF NextAnswer, FirstAnswer
<1>2. PollOK(poll[p], session.hotels)
  BY DEF ContinuationInv, PollsOK
<1> QED BY <1>1, <1>2 DEF PollOK, Calling

(* appendHotelsToSearchSession adds the hotels of the page asked for. *)
LEMMA AppendIs ==
  ASSUME ContinuationInv, NEW p \in Polls, Append(p)
  PROVE  \E s, n : /\ OwnedWrite(p, s, lease, n) /\ SessionOK(s) /\ PollOK(n, s.hotels)
                  /\ s.execs = session.execs /\ session.hotels \subseteq s.hotels
                  /\ n.pc = "save" /\ n.execs = poll[p].execs /\ n.answers = poll[p].answers
<1> DEFINE q == NextAnswer(p)
           copy == poll[p].execs
           page == <<q, copy[q].page>>
           hotels == WithHotels(session.hotels, q, copy[q])
           s == [session EXCEPT !.hotels = hotels]
           n == Goto(p, "save")
<1>1. poll[p].pc = "apply" /\ DOMAIN poll[p].answers # {} /\ OwnedWrite(p, s, lease, n)
  BY DEF Append, At
<1>2. /\ q = FirstAnswer(poll[p].answers) /\ q \in DOMAIN poll[p].answers /\ q \in Providers
      /\ copy[q].state = "running"
      /\ Fits(copy, session.hotels) /\ IsPoll(poll[p])
  BY <1>1, NextAnswerIs
<1>3. SessionOK(session) /\ PollOK(poll[p], session.hotels)
  BY DEF ContinuationInv, PollsOK
<1>4. hotels = session.hotels \cup {page}
  BY DEF WithHotels
<1>5. hotels \in SUBSET Pages
  <2>1. copy[q].page \in 1..LastPage[q]
    BY <1>2, ContinuationBounds DEF Fits, Execution, Ended
  <2>2. page \in Pages
    BY <1>2, <2>1, ContinuationBounds DEF Pages
  <2>3. session.hotels \in SUBSET Pages
    BY <1>3 DEF SessionOK, SessionType
  <2> QED BY <1>4, <2>2, <2>3
<1>6. s \in SessionType /\ s.execs = session.execs /\ s.hotels = hotels
  BY <1>3, <1>5, PutHotels DEF SessionOK
<1>7. n = [pc |-> "save", execs |-> copy, answers |-> poll[p].answers, behind |-> poll[p].behind]
  BY <1>2, GotoIs
<1>8. Fits(session.execs, hotels) /\ Fits(copy, hotels)
  BY <1>2, <1>3, <1>4, MoreHotelsFit DEF SessionOK
<1>9. PollOK(n, hotels)
  <2>1. page \in hotels
    BY <1>4
  <2>2. \A x \in DOMAIN poll[p].answers : x \in Providers /\ copy[x].state = "running"
    BY <1>1, <1>3 DEF PollOK, Calling
  <2> HIDE DEF n, hotels
  <2> QED BY <1>1, <1>2, <1>7, <1>8, <2>1, <2>2 DEF PollOK, IsPoll
<1> HIDE DEF s, n, hotels
<1>11. session.hotels \subseteq s.hotels
  BY <1>4, <1>6
<1> QED BY <1>1, <1>6, <1>7, <1>8, <1>9, <1>11 DEF SessionOK

LEMMA AppendInv == ASSUME ContinuationInv, NEW p \in Polls, Append(p) PROVE ContinuationInv'
<1>1. poll[p].pc = "apply"
  BY DEF Append, At
<1>2. lease = p => poll[p].execs = session.execs
  BY <1>1 DEF ContinuationInv, OwnerAgrees, Working
<1> QED BY <1>1, <1>2, AppendIs, OwnedWriteInv DEF Holding, Working

(* updateProviderExecutions saves the answer after its hotels. *)
LEMMA SaveIs ==
  ASSUME ContinuationInv, NEW p \in Polls, Save(p)
  PROVE  \E s, n : /\ OwnedWrite(p, s, lease, n) /\ SessionOK(s) /\ PollOK(n, s.hotels)
                  /\ poll[p].pc \in {"apply", "save"} /\ DOMAIN poll[p].answers # {}
                  /\ s.execs = Saved(p) /\ s.hotels = session.hotels
                  /\ n.pc = "apply" /\ n.execs = s.execs
                  /\ DOMAIN n.answers = DOMAIN poll[p].answers \ {NextAnswer(p)}
<1> DEFINE q == NextAnswer(p)
           copy == poll[p].execs
           answer == poll[p].answers[q]
           execs == [copy EXCEPT ![q] = Applied(@, answer, LastPage[q])]
           s == [session EXCEPT !.execs = execs, !.continuing = TRUE]
           rest == Without(poll[p].answers, q)
           r == Goto(p, "apply")
           one == [r EXCEPT !.execs = execs]
           n == [r EXCEPT !.execs = execs, !.answers = Without(@, q)]
<1>1. poll[p].pc \in {"apply", "save"} /\ OwnedWrite(p, s, lease, n)
  BY DEF Save, At
<1>2. SessionOK(session) /\ PollOK(poll[p], session.hotels)
  BY DEF ContinuationInv, PollsOK
<1>3. DOMAIN poll[p].answers # {}
  BY <1>2 DEF Save, At, PollOK
<1>4. /\ q = FirstAnswer(poll[p].answers) /\ q \in DOMAIN poll[p].answers /\ q \in Providers
      /\ copy[q].state = "running"
      /\ Fits(copy, session.hotels) /\ IsPoll(poll[p])
  BY <1>1, <1>3, NextAnswerIs
<1>5. answer = "page" => <<q, copy[q].page>> \in session.hotels
  BY <1>2, <1>4 DEF Save, At, PollOK, HasHotels
<1>6. Fits(execs, session.hotels)
  BY <1>4, <1>5, AppliedFits
<1>7. s \in SessionType /\ s.execs = execs /\ s.hotels = session.hotels
  <2> HIDE DEF execs
  <2> QED BY <1>2, <1>6, WrittenSession DEF SessionOK, Fits
<1>8. n = [pc |-> "apply", execs |-> execs, answers |-> rest, behind |-> poll[p].behind]
  <2>1. r = [pc |-> "apply", execs |-> copy, answers |-> poll[p].answers, behind |-> poll[p].behind]
    BY <1>4, GotoIs
  <2> HIDE DEF r, execs
  <2>2. one = [pc |-> "apply", execs |-> execs, answers |-> poll[p].answers, behind |-> poll[p].behind]
    BY <2>1
  <2>3. n = [one EXCEPT !.answers = rest]
    BY <2>1
  <2> HIDE DEF one, rest
  <2> QED BY <2>2, <2>3
<1>9. \A x \in DOMAIN rest : x \in Providers /\ execs[x].state = "running"
  <2>1. DOMAIN rest = DOMAIN poll[p].answers \ {q}
    BY DEF Without
  <2>2. \A x \in DOMAIN poll[p].answers : x \in Providers /\ copy[x].state = "running"
    BY <1>1, <1>2 DEF PollOK, Calling
  <2>3. \A x \in Providers \ {q} : execs[x] = copy[x]
    BY <1>4 DEF Fits
  <2> QED BY <2>1, <2>2, <2>3
<1> HIDE DEF execs, s, rest, n
<1>10. SessionOK(s) /\ PollOK(n, s.hotels)
  BY <1>6, <1>7, <1>8, <1>9 DEF SessionOK, PollOK, IsPoll
<1>11. DOMAIN n.answers = DOMAIN poll[p].answers \ {q}
  BY <1>8 DEF rest, Without
<1> QED BY <1>1, <1>3, <1>7, <1>8, <1>10, <1>11 DEF Saved, execs

LEMMA SaveInv == ASSUME ContinuationInv, NEW p \in Polls, Save(p) PROVE ContinuationInv'
BY SaveIs, OwnedWriteInv DEF Holding, Working

LEMMA ReleaseIs ==
  ASSUME ContinuationInv, NEW p \in Polls, Release(p)
  PROVE  \E s : /\ OwnedWrite(p, s, None, Nobody) /\ SessionOK(s)
               /\ s.execs = poll[p].execs /\ s.hotels = session.hotels
<1> DEFINE copy == poll[p].execs
           b == Incomplete(copy)
           s == [session EXCEPT !.execs = copy, !.continuing = FALSE, !.incomplete = b]
<1>1. poll[p].pc = "apply" /\ OwnedWrite(p, s, None, Nobody)
  BY DEF Release, At
<1>2. SessionOK(session) /\ Fits(copy, session.hotels)
  BY <1>1 DEF ContinuationInv, PollsOK, PollOK
<1>3. b \in BOOLEAN
  BY IncompleteIsBoolean
<1>4. s \in SessionType /\ s.execs = copy /\ s.hotels = session.hotels
  <2> HIDE DEF copy, b
  <2>1. copy \in [Providers -> Execution] /\ session \in SessionType /\ FALSE \in BOOLEAN
    BY <1>2 DEF Fits, SessionOK
  <2> QED BY <1>3, <2>1, ReleasedSession, ZenonT(60)
<1> HIDE DEF s
<1>5. SessionOK(s) /\ session.hotels \subseteq s.hotels /\ PollOK(Nobody, s.hotels)
  BY <1>2, <1>4, NobodyOK DEF SessionOK
<1> QED BY <1>1, <1>4, <1>5

LEMMA ReleaseInv == ASSUME ContinuationInv, NEW p \in Polls, Release(p) PROVE ContinuationInv'
<1>1. poll[p].pc \in {"lock", "begin", "renew", "assert", "apply", "save"}
  BY DEF Release, At
<1>2. PICK s : OwnedWrite(p, s, None, Nobody) /\ SessionOK(s) /\ s.hotels = session.hotels
  BY ReleaseIs
<1>3. PollOK(Nobody, s.hotels) /\ session.hotels \subseteq s.hotels
  BY <1>2, NobodyOK
<1> QED BY <1>1, <1>2, <1>3, OwnedWriteInv

LEMMA AbandonInv == ASSUME ContinuationInv, NEW p \in Polls, Abandon(p) PROVE ContinuationInv'
<1>1. PollsOK /\ SessionOK(session) /\ LeaseOK
  BY DEF ContinuationInv
<1>2. /\ Become(p, Nobody)
      /\ session' = session \/ (lease = p /\ session' = [session EXCEPT !.continuing = FALSE])
      /\ lease' # p /\ lease' \in {lease, None, Orphan}
      /\ lease' \in Polls => lease # p
  BY <1>1, PollsAssumption DEF Abandon, GivenBack, Owned, LeaseOK
<1>3. SessionOK(session') /\ session'.hotels = session.hotels /\ session'.execs = session.execs
  BY <1>1, <1>2, PutFlag DEF SessionOK
<1> QED BY <1>1, <1>2, <1>3, BecomeMoves, MoveInv, NobodyOK, PollsAssumption DEF LeaseOK

LEMMA PollInv == ASSUME ContinuationInv, NEW p \in Polls, Poll(p) PROVE ContinuationInv'
BY ReadInv, RecoverInv, FinishInv, AcquireInv, LockInv, UnlockInv, BeginInv, RenewInv, CallInv,
   AppendInv, SaveInv, ReleaseInv, AbandonInv DEF Poll

-----------------------------------------------------------------------------
(* Processes, time. *)

LEMMA CrashInv == ASSUME ContinuationInv, NEW p \in Polls, Crash(p) PROVE ContinuationInv'
<1>1. PollsOK /\ SessionOK(session) /\ LeaseOK
  BY DEF ContinuationInv
<1>2. Become(p, Nobody) /\ session' = session /\ lease' # p /\ lease' \in {lease, Orphan}
  BY PollsAssumption DEF Crash
<1> QED BY <1>1, <1>2, BecomeMoves, MoveInv, NobodyOK, PollsAssumption DEF LeaseOK

LEMMA LeaseEndsInv == ASSUME ContinuationInv, LeaseEnds PROVE ContinuationInv'
BY PollsAssumption DEF LeaseEnds, ContinuationInv, PollsOK, LeaseOK, OwnerAgrees

LEMMA LockEndsInv == ASSUME ContinuationInv, LockEnds PROVE ContinuationInv'
<1>1. SessionOK(session')/\ session'.execs = session.execs /\ session'.hotels = session.hotels
      /\ poll' = poll /\ lease' = lease
  BY PutFlag DEF ContinuationInv, LockEnds, SessionOK
<1> QED BY <1>1 DEF ContinuationInv, PollsOK, LeaseOK, OwnerAgrees

(* A retry delay ends for the session and for every copy. *)
LEMMA DelayEndsInv == ASSUME ContinuationInv, DelayEnds PROVE ContinuationInv'
<1>1. PollsOK /\ SessionOK(session) /\ LeaseOK /\ lease' = lease
  BY DEF ContinuationInv, DelayEnds
<1>2. /\ session'.execs = Due(session.execs) /\ session'.hotels = session.hotels
      /\ SessionOK(session')
  <2>1. session' = [session EXCEPT !.execs = Due(session.execs)]
    BY DEF DelayEnds
  <2>2. Fits(Due(session.execs), session.hotels)
    BY <1>1, DueFits DEF SessionOK
  <2>3. Due(session.execs) \in [Providers -> Execution]
    BY <2>2 DEF Fits
  <2> QED BY <1>1, <2>1, <2>2, <2>3, PutExecs DEF SessionOK
<1>3. ASSUME NEW q \in Polls
      PROVE  /\ poll'[q] = [pc |-> poll[q].pc, execs |-> Due(poll[q].execs), answers |-> poll[q].answers,
                            behind |-> poll[q].behind]
             /\ poll'[q].pc = poll[q].pc /\ poll'[q].execs = Due(poll[q].execs)
             /\ PollOK(poll'[q], session.hotels)
  <2> DEFINE r == poll[q]
             due == Due(r.execs)
  <2>1. PollOK(r, session.hotels)
    BY <1>1 DEF PollsOK
  <2>2. poll'[q] = [r EXCEPT !.execs = due]
    BY DEF DelayEnds
  <2>3. poll'[q] = [pc |-> r.pc, execs |-> due, answers |-> r.answers, behind |-> r.behind]
    <3>1. r = [pc |-> r.pc, execs |-> r.execs, answers |-> r.answers, behind |-> r.behind]
      BY <2>1 DEF PollOK, IsPoll
    <3> HIDE DEF r, due
    <3> QED BY <2>2, <3>1
  <2>4. r.pc \notin {"idle", "abandon"} => /\ Fits(due, session.hotels)
                                           /\ \A x \in Providers : /\ due[x].page = r.execs[x].page
                                                                   /\ r.execs[x].state = "running" => due[x] = r.execs[x]
    <3> SUFFICES ASSUME r.pc \notin {"idle", "abandon"}
                 PROVE  /\ Fits(due, session.hotels)
                        /\ \A x \in Providers : /\ due[x].page = r.execs[x].page
                                                /\ r.execs[x].state = "running" => due[x] = r.execs[x]
      OBVIOUS
    <3>1. Fits(r.execs, session.hotels)
      BY <2>1 DEF PollOK
    <3> QED BY <3>1, DueFits, ZenonT(60) DEF Fits, Due, Execution
  <2> HIDE DEF due
  <2>6. poll'[q].pc = r.pc /\ poll'[q].execs = due
    BY <2>3
  <2>5. PollOK(poll'[q], session.hotels)
    <3> HIDE DEF r
    <3>1. r.pc \in Calling => \A x \in DOMAIN r.answers : x \in Providers /\ due[x].state = "running"
      BY <2>1, <2>4 DEF PollOK, Calling
    <3>2. r.pc = "save" => /\ DOMAIN r.answers # {} /\ FirstAnswer(r.answers) \in DOMAIN r.answers
                           /\ <<FirstAnswer(r.answers), due[FirstAnswer(r.answers)].page>> \in session.hotels
      BY <2>1, <2>4 DEF PollOK, Calling, FirstAnswer
    <3> QED BY <2>3, <2>4, <3>1, <3>2 DEF PollOK, IsPoll
  <2> QED BY <2>3, <2>5, <2>6 DEF due
<1>4. PollsOK'
  BY <1>2, <1>3 DEF PollsOK, DelayEnds
<1>5. LeaseOK' /\ OwnerAgrees'
  <2>1. LeaseOK'
    BY <1>1, <1>3 DEF LeaseOK
  <2>2. OwnerAgrees'
    BY <1>1, <1>2, <1>3 DEF ContinuationInv, OwnerAgrees
  <2> QED BY <2>1, <2>2
<1> QED BY <1>2, <1>4, <1>5 DEF ContinuationInv

-----------------------------------------------------------------------------
(* A session that has just been searched, and no polls. *)
LEMMA InitContinuationInv == ContinuationInit => ContinuationInv
<1> SUFFICES ASSUME ContinuationInit PROVE ContinuationInv
  OBVIOUS
<1> DEFINE execs == [q \in Providers |-> FirstPage]
<1>1. FirstPage \in Execution /\ FirstPage.page = 1 /\ FirstPage.state = "pending"
  BY DEF FirstPage, Execution, States
<1>2. Fits(execs, {})
  BY <1>1, ContinuationBounds DEF Fits, Execution
<1>3. session = [execs |-> execs, hotels |-> {}, incomplete |-> TRUE, continuing |-> FALSE, fresh |-> FALSE]
  BY DEF ContinuationInit
<1>4. SessionOK(session)
  <2>1. execs \in [Providers -> Execution]
    BY <1>1
  <2> HIDE DEF execs
  <2> QED BY <1>2, <1>3, <2>1 DEF SessionOK, SessionType
<1>5. poll = [p \in Polls |-> Nobody] /\ lease = None
  BY DEF ContinuationInit
<1>6. PollsOK
  BY <1>5, NobodyOK DEF PollsOK
<1>7. LeaseOK /\ OwnerAgrees
  BY <1>5, PollsAssumption DEF LeaseOK, OwnerAgrees
<1> QED BY <1>4, <1>6, <1>7 DEF ContinuationInv

LEMMA ContinuationInvKept ==
  ContinuationInv /\ [ContinuationNext]_continuationVars => ContinuationInv'
<1> SUFFICES ASSUME ContinuationInv, [ContinuationNext]_continuationVars PROVE ContinuationInv'
  OBVIOUS
<1>1. CASE UNCHANGED continuationVars
  BY <1>1 DEF continuationVars, ContinuationInv, PollsOK, LeaseOK, OwnerAgrees
<1>2. CASE ContinuationNext
  BY <1>2, PollInv, CrashInv, LeaseEndsInv, LockEndsInv, DelayEndsInv DEF ContinuationNext
<1> QED BY <1>1, <1>2

(* The invariant holds in every run. *)
THEOREM ContinuationAlways == ContinuationSpec => []ContinuationInv
BY InitContinuationInv, ContinuationInvKept, PTL DEF ContinuationSpec

(* The lease belongs to a poll that is using it, to nobody, or to a poll    *)
(* that ended without giving it back; no execution or hotel is out of range.*)
THEOREM ContinuationTypes == ContinuationSpec => []ContinuationTypeOK
<1>1. ContinuationInv => ContinuationTypeOK
  <2> SUFFICES ASSUME ContinuationInv PROVE ContinuationTypeOK
    OBVIOUS
  <2>1. session \in SessionType
    BY DEF ContinuationInv, SessionOK
  <2>2. /\ session.execs \in [Providers -> Execution] /\ session.hotels \in SUBSET Pages
        /\ session.incomplete \in BOOLEAN /\ session.continuing \in BOOLEAN /\ session.fresh \in BOOLEAN
    BY <2>1 DEF SessionType
  <2>3. \A h \in session.hotels : h[1] \in Providers /\ h[2] \in 1..LastPage[h[1]]
    BY <2>2 DEF Pages
  <2>4. {session.incomplete, session.continuing, session.fresh} \subseteq BOOLEAN
    <3> DEFINE i == session.incomplete
               c == session.continuing
               f == session.fresh
    <3>1. i \in BOOLEAN /\ c \in BOOLEAN /\ f \in BOOLEAN
      BY <2>2
    <3> HIDE DEF i, c, f
    <3>2. {i, c, f} \subseteq BOOLEAN
      BY <3>1, Zenon
    <3> QED BY <3>2 DEF i, c, f
  <2> QED BY <2>2, <2>3, <2>4 DEF ContinuationInv, LeaseOK, Holding, ContinuationTypeOK
<1> QED BY <1>1, ContinuationAlways, PTL

(* No page is skipped, whatever crashed, lapsed or was written late. *)
THEOREM PagesKept == ContinuationSpec => []NoPageLost
<1>1. ContinuationInv => NoPageLost
  BY DEF ContinuationInv, SessionOK, Fits, NoPageLost
<1> QED BY <1>1, ContinuationAlways, PTL

-----------------------------------------------------------------------------
(* The counters of troubles. *)
CountersOK == stale \in Nat /\ faults \in Nat /\ crashes \in Nat /\ lapses \in Nat

Troubles == faults + crashes + lapses

(* What a step that an owned or unlocked update takes does to the counters. *)
LEMMA CountersStep ==
  ASSUME CountersOK, [ContinuationNext]_continuationVars
  PROVE  CountersOK' /\ stale <= stale' /\ Troubles <= Troubles'
<1>1. CASE UNCHANGED continuationVars
  BY <1>1 DEF continuationVars, CountersOK, Troubles
<1>2. ASSUME NEW p \in Polls, Poll(p)
      PROVE  CountersOK' /\ stale <= stale' /\ Troubles <= Troubles'
  <2>1. /\ stale' = stale \/ stale' = stale + 1
        /\ faults' = faults \/ faults' = faults + 1
        /\ crashes' = crashes /\ lapses' = lapses
    <3>1. CASE Read(p) \/ Acquire(p) \/ Unlock(p) \/ Call(p) \/ Abandon(p)
      BY <3>1 DEF Read, Acquire, Unlock, Call, Abandon, Fault, NoFault, UnchangedByPoll
    <3>2. CASE Recover(p) \/ Finish(p) \/ Wait(p)
      BY <3>2 DEF Recover, Finish, Wait, UnlockedWrite, Fault, NoFault, UnchangedByPoll
    <3>3. CASE Lock(p) \/ Begin(p) \/ Renew(p) \/ Append(p) \/ Save(p) \/ Release(p)
      BY <3>3 DEF Lock, Begin, Renew, Append, Save, Release, OwnedWrite, Fault, NoFault, UnchangedByPoll
    <3> QED BY <1>2, <3>1, <3>2, <3>3 DEF Poll
  <2> QED BY <2>1 DEF CountersOK, Troubles
<1>3. CASE \/ \E p \in Polls : Crash(p)
           \/ LeaseEnds \/ LockEnds \/ DelayEnds
  BY <1>3 DEF Crash, LeaseEnds, LockEnds, DelayEnds, Lapse, NoFault, CountersOK, Troubles
<1> QED BY <1>1, <1>2, <1>3 DEF ContinuationNext

THEOREM CountersAlways == ContinuationSpec => []CountersOK
<1>1. ContinuationInit => CountersOK
  BY DEF ContinuationInit, CountersOK
<1> QED BY <1>1, CountersStep, PTL DEF ContinuationSpec

-----------------------------------------------------------------------------
(* What a step does to the session's executions, while no stale copy is     *)
(* stored: only the owner of the lease begins and applies, on the           *)
(* executions as they are.                                                  *)
OwnerWrites(p) ==
    /\ lease = p
    /\ \/ Begin(p) /\ poll[p].execs = session.execs /\ session'.execs = BegunAll(session.execs)
       \/ /\ Save(p) /\ poll[p].pc \in {"apply", "save"} /\ DOMAIN poll[p].answers # {}
          /\ poll[p].execs = session.execs /\ session'.execs = Saved(p)

LEMMA ExecsStep ==
  ASSUME ContinuationInv, CountersOK, ContinuationNext, stale' = 0
  PROVE  \/ session'.execs = session.execs
         \/ session'.execs = Recovered(session.execs) /\ lease = None
         \/ session'.execs = Due(session.execs)
         \/ \E p \in Polls : OwnerWrites(p)
<1>1. SessionOK(session)
  BY DEF ContinuationInv
<1>2. ASSUME NEW p \in Polls, Read(p) \/ Acquire(p) \/ Unlock(p) \/ Call(p) \/ Crash(p) \/ LeaseEnds
      PROVE  session' = session
  BY <1>2 DEF Read, Acquire, Unlock, Call, Crash, LeaseEnds
<1>3. ASSUME NEW p \in Polls, Recover(p) \/ Finish(p) \/ Wait(p)
      PROVE  session'.execs = session.execs \/ (session'.execs = Recovered(session.execs) /\ lease = None)
  <2>1. session'.execs \in {session.execs, Recovered(session.execs)}
    BY <1>3 DEF Recover, Finish, Wait, UnlockedWrite, CountersOK
  <2>2. lease = None \/ session' = session
    BY <1>3 DEF Recover, Finish, Wait, UnlockedWrite
  <2> QED BY <2>1, <2>2
<1>4. ASSUME NEW p \in Polls, Lock(p) \/ Renew(p) \/ Append(p)
      PROVE  session'.execs = session.execs
  <2>1. PICK s, n : OwnedWrite(p, s, lease, n) /\ s.execs = session.execs
    BY <1>4, LockIs, RenewIs, AppendIs
  <2> QED BY <2>1 DEF OwnedWrite
<1>5. ASSUME NEW p \in Polls, Begin(p)
      PROVE  session'.execs = session.execs \/ OwnerWrites(p)
  <2>1. PICK s, n : OwnedWrite(p, s, lease, n) /\ s.execs = BegunAll(poll[p].execs)
    BY <1>5, BeginIs
  <2>2. poll[p].pc = "begin"
    BY <1>5 DEF Begin, At
  <2>3. session' = session \/ (session' = s /\ lease = p)
    BY <2>1 DEF OwnedWrite, Owned
  <2>4. lease = p => poll[p].execs = session.execs
    BY <2>2 DEF ContinuationInv, OwnerAgrees, Working
  <2> QED BY <1>5, <2>1, <2>3, <2>4 DEF OwnerWrites
<1>6. ASSUME NEW p \in Polls, Save(p)
      PROVE  session'.execs = session.execs \/ OwnerWrites(p)
  <2>1. PICK s, n : OwnedWrite(p, s, lease, n) /\ s.execs = Saved(p)
                    /\ poll[p].pc \in {"apply", "save"} /\ DOMAIN poll[p].answers # {}
    BY <1>6, SaveIs
  <2>2. session' = session \/ (session' = s /\ lease = p)
    BY <2>1 DEF OwnedWrite, Owned
  <2>3. lease = p => poll[p].execs = session.execs
    BY <2>1 DEF ContinuationInv, OwnerAgrees, Working
  <2> QED BY <1>6, <2>1, <2>2, <2>3 DEF OwnerWrites
<1>7. ASSUME NEW p \in Polls, Release(p)
      PROVE  session'.execs = session.execs
  <2>1. PICK s : OwnedWrite(p, s, None, Nobody) /\ s.execs = poll[p].execs
    BY <1>7, ReleaseIs
  <2>2. poll[p].pc = "apply"
    BY <1>7 DEF Release, At
  <2>3. session' = session \/ (session' = s /\ lease = p)
    BY <2>1 DEF OwnedWrite, Owned
  <2>4. lease = p => poll[p].execs = session.execs
    BY <2>2 DEF ContinuationInv, OwnerAgrees, Working
  <2> QED BY <2>1, <2>3, <2>4
<1>8. ASSUME NEW p \in Polls, Abandon(p)
      PROVE  session'.execs = session.execs
  BY <1>1, <1>8, PutFlag DEF Abandon, SessionOK
<1>9. CASE LockEnds
  BY <1>1, <1>9, PutFlag DEF LockEnds, SessionOK
<1>10. CASE DelayEnds
  <2>1. session' = [session EXCEPT !.execs = Due(session.execs)]
    BY <1>10 DEF DelayEnds
  <2>2. Due(session.execs) \in [Providers -> Execution]
    BY <1>1, DueFits DEF SessionOK, Fits
  <2> QED BY <1>1, <2>1, <2>2, PutExecs DEF SessionOK
<1>11. CASE LeaseEnds
  BY <1>11 DEF LeaseEnds
<1> QED BY <1>2, <1>3, <1>4, <1>5, <1>6, <1>7, <1>8, <1>9, <1>10, <1>11 DEF ContinuationNext, Poll

(* A poll that lost its lease cannot bring back an execution that another   *)
(* poll has ended.                                                          *)
THEOREM EndedForGood == ContinuationSpec => EndedStaysEnded
<1> DEFINE Kept == \A q \in Providers : stale' = 0 /\ session.execs[q].state \in Ended
                      => session'.execs[q].state = session.execs[q].state
<1>1. ContinuationInv /\ CountersOK /\ [ContinuationNext]_continuationVars => [Kept]_continuationVars
  <2> SUFFICES ASSUME ContinuationInv, CountersOK, ContinuationNext, stale' = 0,
                      NEW q \in Providers, session.execs[q].state \in Ended
               PROVE  session'.execs[q].state = session.execs[q].state
    OBVIOUS
  <2>1. session.execs \in [Providers -> Execution]
    BY DEF ContinuationInv, SessionOK, Fits
  <2>2. CASE session'.execs = session.execs
    BY <2>2
  <2>3. CASE session'.execs = Recovered(session.execs)
    BY <2>1, <2>3 DEF Recovered, Ended
  <2>4. CASE session'.execs = Due(session.execs)
    BY <2>1, <2>4 DEF Due, Ended
  <2>5. ASSUME NEW p \in Polls, OwnerWrites(p)
        PROVE  session'.execs[q].state = session.execs[q].state
    <3>1. CASE session'.execs = BegunAll(session.execs)
      BY <2>1, <3>1 DEF BegunAll, Runnable, In, Ended
    <3>2. CASE /\ poll[p].pc \in {"apply", "save"} /\ DOMAIN poll[p].answers # {}
               /\ poll[p].execs = session.execs /\ session'.execs = Saved(p)
      <4>1. NextAnswer(p) # q
        BY <3>2, NextAnswerIs DEF Ended
      <4>2. session'.execs[q] = session.execs[q]
        BY <2>1, <3>2, <4>1 DEF Saved
      <4> QED BY <4>2
    <3> QED BY <2>5, <3>1, <3>2 DEF OwnerWrites
  <2> QED BY <2>2, <2>3, <2>4, <2>5, ExecsStep
<1> QED BY <1>1, ContinuationAlways, CountersAlways, PTL DEF ContinuationSpec, EndedStaysEnded

-----------------------------------------------------------------------------
(* What the steps do to the polls that hold the lease or are about to call. *)

(* Where the steps of a poll take it: it calls what it has begun. *)
LEMMA PollMoves ==
  ASSUME ContinuationInv, NEW p \in Polls, Poll(p)
  PROVE  /\ \E next : Moves(p, next)
         /\ poll'[p].pc \in {"renew", "call"} /\ ~Begin(p) =>
               /\ poll[p].pc = "renew" /\ poll'[p].execs = poll[p].execs
               /\ poll'[p].answers = poll[p].answers
<1> DEFINE Calls(r) == r.pc \in {"renew", "call"} /\ ~Begin(p) =>
               poll[p].pc = "renew" /\ r.execs = poll[p].execs /\ r.answers = poll[p].answers
<1>1. PollsOK /\ PollOK(poll[p], session.hotels) /\ IsPoll(poll[p])
  BY DEF ContinuationInv, PollsOK, PollOK
<1>2. ASSUME NEW next, Moves(p, next) PROVE poll'[p] = next
  BY <1>2 DEF Moves
<1>3. Nobody.pc = "idle" /\ OnError(p).pc \in {"unlock", "abandon", "idle"}
  <2>1. Nobody.pc = "idle"
    BY DEF Nobody
  <2>2. [Nobody EXCEPT !.pc = "abandon"].pc = "abandon"
    BY DEF Nobody
  <2>3. Goto(p, "unlock").pc = "unlock"
    BY <1>1, GotoIs
  <2> QED BY <2>1, <2>2, <2>3 DEF OnError
<1>4. ASSUME Read(p) PROVE \E next : Moves(p, next) /\ Calls(next)
  <2>1. [Nobody EXCEPT !.execs = Recovered(session.execs), !.pc = "recover"]
           = [pc |-> "recover", execs |-> Recovered(session.execs), answers |-> <<>>, behind |-> FALSE]
    BY CopyIs
  <2> DEFINE r == Branch(session.execs)
  <2>2. r = [pc |-> r.pc, execs |-> session.execs, answers |-> <<>>, behind |-> FALSE]
        /\ r.pc \in {"finish", "wait", "acquire"}
    BY BranchIs
  <2>3. [r EXCEPT !.behind = lease \in Polls].pc = r.pc
    <3> HIDE DEF r
    <3> QED BY <2>2
  <2>4. PICK next : Become(p, next) /\ next.pc \in {"recover", "finish", "wait", "acquire"}
    BY <1>4, <2>1, <2>2, <2>3 DEF Read
  <2> QED BY <1>1, <2>4, BecomeMoves
<1>5. ASSUME Recover(p) PROVE \E next : Moves(p, next) /\ Calls(next)
  <2> DEFINE r == Branch(poll[p].execs)
             n == [r EXCEPT !.behind = poll[p].behind]
  <2>1. r = [pc |-> r.pc, execs |-> poll[p].execs, answers |-> <<>>, behind |-> FALSE]
        /\ r.pc \in {"finish", "wait", "acquire"}
    BY BranchIs
  <2>2. n.pc = r.pc
    <3> HIDE DEF r
    <3> QED BY <2>1
  <2>3. PICK next \in {n, OnError(p)} : Become(p, next)
    BY <1>5 DEF Recover, UnlockedWrite
  <2> QED BY <1>1, <1>3, <2>1, <2>2, <2>3, BecomeMoves
<1>6. ASSUME Finish(p) \/ Wait(p) PROVE \E next : Moves(p, next) /\ Calls(next)
  <2>1. PICK next \in {Nobody, OnError(p)} : Become(p, next)
    BY <1>6 DEF Finish, Wait, UnlockedWrite
  <2> QED BY <1>1, <1>3, <2>1, BecomeMoves
<1>7. ASSUME Acquire(p) PROVE \E next : Moves(p, next) /\ Calls(next)
  <2>1. Goto(p, "lock").pc = "lock"
    BY <1>1, GotoIs
  <2>2. PICK next \in {Nobody, Goto(p, "lock")} : Become(p, next) \/ \E l : Granted(p, l, next)
    BY <1>7 DEF Acquire
  <2> QED BY <1>1, <1>3, <2>1, <2>2, BecomeMoves, GrantedMoves
<1>8. ASSUME Lock(p) PROVE \E next : Moves(p, next) /\ Calls(next)
  <2>1. PICK s, n : OwnedWrite(p, s, lease, n) /\ n.pc = "begin"
    BY <1>8, LockIs
  <2>2. PICK next \in {n, OnError(p)} : Become(p, next)
    BY <2>1 DEF OwnedWrite
  <2> QED BY <1>1, <1>3, <2>1, <2>2, BecomeMoves
<1>9. ASSUME Unlock(p) \/ Abandon(p) PROVE \E next : Moves(p, next) /\ Calls(next)
  <2>1. Become(p, Nobody)
    BY <1>9 DEF Unlock, Abandon
  <2> QED BY <1>1, <1>3, <2>1, BecomeMoves
<1>10. ASSUME Begin(p) PROVE \E next : Moves(p, next) /\ Calls(next)
  <2>1. PICK s, n : OwnedWrite(p, s, lease, n)
    BY <1>10, BeginIs
  <2>2. PICK next \in {n, OnError(p)} : Become(p, next)
    BY <2>1 DEF OwnedWrite
  <2> QED BY <1>1, <1>10, <2>2, BecomeMoves
<1>11. ASSUME Renew(p) PROVE \E next : Moves(p, next) /\ Calls(next)
  <2>1. PICK s, n : /\ OwnedWrite(p, s, lease, n) /\ n.execs = poll[p].execs /\ n.answers = poll[p].answers
                    /\ n.pc = IF poll[p].pc = "renew" THEN "call" ELSE "apply"
    BY <1>11, RenewIs
  <2>2. PICK next \in {n, OnError(p)} : Become(p, next)
    BY <2>1 DEF OwnedWrite
  <2> QED BY <1>1, <1>3, <2>1, <2>2, BecomeMoves
<1>12. ASSUME Call(p) PROVE \E next : Moves(p, next) /\ Calls(next)
  <2> DEFINE r == Goto(p, "assert")
  <2>1. PICK answers : Become(p, [r EXCEPT !.answers = answers])
    BY <1>12 DEF Call
  <2>2. r = [pc |-> "assert", execs |-> poll[p].execs, answers |-> poll[p].answers, behind |-> poll[p].behind]
    BY <1>1, GotoIs
  <2>3. [r EXCEPT !.answers = answers].pc = "assert"
    <3> HIDE DEF r
    <3> QED BY <2>2
  <2> QED BY <1>1, <2>1, <2>3, BecomeMoves
<1>13. ASSUME Append(p) \/ Save(p) PROVE \E next : Moves(p, next) /\ Calls(next)
  <2>1. PICK s, n : OwnedWrite(p, s, lease, n) /\ n.pc \in {"save", "apply"}
    BY <1>13, AppendIs, SaveIs
  <2>2. PICK next \in {n, OnError(p)} : Become(p, next)
    BY <2>1 DEF OwnedWrite
  <2> QED BY <1>1, <1>3, <2>1, <2>2, BecomeMoves
<1>14. ASSUME Release(p) PROVE \E next : Moves(p, next) /\ Calls(next)
  <2>1. PICK next \in {Nobody, OnError(p)} : Become(p, next)
    BY <1>14 DEF Release, OwnedWrite
  <2> QED BY <1>1, <1>3, <2>1, BecomeMoves
<1>15. PICK next : Moves(p, next) /\ Calls(next)
  BY <1>4, <1>5, <1>6, <1>7, <1>8, <1>9, <1>10, <1>11, <1>12, <1>13, <1>14 DEF Poll
<1> QED BY <1>2, <1>15

(* An execution in flight: begun by the owner of the lease, which has not   *)
(* applied its answer.                                                      *)
InFlight(q) == lease \in Polls /\ poll[lease].pc \in Calling /\ q \in DOMAIN poll[lease].answers

(* A step of another poll leaves the owner of the lease alone. *)
LEMMA OwnerStays ==
  ASSUME ContinuationInv, NEW p \in Polls, Poll(p), lease \in Polls, lease # p
  PROVE  lease' = lease /\ poll'[lease].pc = poll[lease].pc /\ poll'[lease].answers = poll[lease].answers
<1>1. lease' = lease
  <2>1. lease # None
    BY PollsAssumption
  <2>2. CASE Read(p) \/ Recover(p) \/ Finish(p) \/ Wait(p) \/ Acquire(p) \/ Unlock(p) \/ Call(p) \/ Abandon(p)
    BY <2>1, <2>2 DEF Read, Recover, Finish, Wait, UnlockedWrite, Acquire, Granted, Unlock, GivenBack, Owned, Call, Abandon
  <2>3. CASE Lock(p) \/ Begin(p) \/ Renew(p) \/ Append(p) \/ Save(p) \/ Release(p)
    BY <2>3 DEF Lock, Begin, Renew, Append, Save, Release, OwnedWrite, Owned
  <2> QED BY <2>2, <2>3 DEF Poll
<1>2. PICK next : Moves(p, next)
  BY PollMoves
<1> QED BY <1>1, <1>2 DEF Moves

(* An execution in flight stays so until its answer is saved or a trouble   *)
(* interrupts the continuation.                                             *)
LEMMA InFlightStep ==
  ASSUME ContinuationInv, CountersOK, ContinuationNext, NEW q \in Providers, InFlight(q),
         Troubles' = Troubles
  PROVE  \/ InFlight(q)'
         \/ /\ Save(lease) /\ q = NextAnswer(lease) /\ session'.execs = Saved(lease)
<1>1. faults' = faults /\ crashes' = crashes /\ lapses' = lapses
  <2>1. /\ faults' = faults \/ faults' = faults + 1
        /\ crashes' = crashes \/ crashes' = crashes + 1
        /\ lapses' = lapses \/ lapses' = lapses + 1
    <3>1. ASSUME NEW p \in Polls, Poll(p)
          PROVE  (faults' = faults \/ faults' = faults + 1) /\ crashes' = crashes /\ lapses' = lapses
      <4>1. CASE Read(p) \/ Acquire(p) \/ Unlock(p) \/ Call(p) \/ Abandon(p)
        BY <4>1 DEF Read, Acquire, Unlock, Call, Abandon, Fault, NoFault, UnchangedByPoll
      <4>2. CASE Recover(p) \/ Finish(p) \/ Wait(p)
        BY <4>2 DEF Recover, Finish, Wait, UnlockedWrite, Fault, NoFault, UnchangedByPoll
      <4>3. CASE Lock(p) \/ Begin(p) \/ Renew(p) \/ Append(p) \/ Save(p) \/ Release(p)
        BY <4>3 DEF Lock, Begin, Renew, Append, Save, Release, OwnedWrite, Fault, NoFault, UnchangedByPoll
      <4> QED BY <3>1, <4>1, <4>2, <4>3 DEF Poll
    <3>2. CASE \/ \E p \in Polls : Crash(p)
               \/ LeaseEnds \/ LockEnds \/ DelayEnds
      BY <3>2 DEF Crash, LeaseEnds, LockEnds, DelayEnds, Lapse, NoFault
    <3> QED BY <3>1, <3>2 DEF ContinuationNext
  <2> QED BY <2>1 DEF CountersOK, Troubles
<1>2. ~Fault
  BY <1>1 DEF Fault, CountersOK
<1> DEFINE o == lease
<1>3. o \in Polls /\ poll[o].pc \in Calling /\ q \in DOMAIN poll[o].answers /\ o # None
  BY PollsAssumption DEF InFlight
<1>4. PollsOK /\ PollOK(poll[o], session.hotels)
  BY <1>3 DEF ContinuationInv, PollsOK
<1>5. ASSUME NEW p \in Polls, Poll(p), p # o PROVE InFlight(q)'
  BY <1>3, <1>5, OwnerStays DEF InFlight
<1>6. ASSUME NEW s, NEW n, OwnedWrite(o, s, lease, n)
      PROVE  session' = s /\ lease' = o /\ poll'[o] = n
  <2>1. session' = s /\ lease' = o /\ Become(o, n)
    BY <1>2, <1>6 DEF OwnedWrite, Owned
  <2> QED BY <1>3, <1>4, <2>1, BecomeMoves DEF Moves
<1>7. ASSUME Renew(o) PROVE InFlight(q)'
  <2>1. PICK s, n : /\ OwnedWrite(o, s, lease, n) /\ n.answers = poll[o].answers
                    /\ n.pc = IF poll[o].pc = "renew" THEN "call" ELSE "apply"
    BY <1>3, <1>7, RenewIs
  <2>2. lease' = o /\ poll'[o] = n
    BY <1>6, <2>1
  <2> QED BY <1>3, <2>1, <2>2 DEF InFlight, Calling
<1>8. ASSUME Call(o) PROVE InFlight(q)'
  <2> DEFINE r == Goto(o, "assert")
  <2>1. PICK answers \in [DOMAIN poll[o].answers -> Answers] : Become(o, [r EXCEPT !.answers = answers])
    BY <1>8 DEF Call
  <2>2. r = [pc |-> "assert", execs |-> poll[o].execs, answers |-> poll[o].answers, behind |-> poll[o].behind]
    BY <1>3, <1>4, GotoIs DEF PollOK
  <2> DEFINE n == [r EXCEPT !.answers = answers]
  <2>3. n.pc = "assert" /\ n.answers = answers
    <3> HIDE DEF r
    <3> QED BY <2>2
  <2>4. poll'[o] = n
    <3> HIDE DEF n
    <3>1. Become(o, n)
      BY <2>1 DEF n
    <3> QED BY <1>3, <1>4, <3>1, BecomeMoves DEF Moves
  <2>5. lease' = o
    BY <1>8 DEF Call
  <2> HIDE DEF n
  <2> QED BY <1>3, <2>1, <2>3, <2>4, <2>5 DEF InFlight, Calling
<1>9. ASSUME Append(o) PROVE InFlight(q)'
  <2>1. PICK s, n : OwnedWrite(o, s, lease, n) /\ n.pc = "save" /\ n.answers = poll[o].answers
    BY <1>3, <1>9, AppendIs
  <2>2. lease' = o /\ poll'[o] = n
    BY <1>6, <2>1
  <2> QED BY <1>3, <2>1, <2>2 DEF InFlight, Calling
<1>10. ASSUME Save(o) PROVE InFlight(q)' \/ (q = NextAnswer(o) /\ session'.execs = Saved(o))
  <2>1. PICK s, n : /\ OwnedWrite(o, s, lease, n) /\ n.pc = "apply" /\ s.execs = Saved(o)
                    /\ DOMAIN n.answers = DOMAIN poll[o].answers \ {NextAnswer(o)}
    BY <1>3, <1>10, SaveIs
  <2>2. session' = s /\ lease' = o /\ poll'[o] = n
    BY <1>6, <2>1
  <2> QED BY <1>3, <2>1, <2>2 DEF InFlight, Calling
<1>11. ~Release(o) /\ ~Read(o) /\ ~Recover(o) /\ ~Finish(o) /\ ~Wait(o) /\ ~Acquire(o) /\ ~Lock(o)
       /\ ~Unlock(o) /\ ~Begin(o) /\ ~Abandon(o)
  BY <1>3 DEF Release, Read, Recover, Finish, Wait, Acquire, Lock, Unlock, Begin, Abandon, At, Calling
<1>12. \A p \in Polls : ~Crash(p)
  BY <1>1 DEF Crash, CountersOK
<1>13. ~LeaseEnds
  BY <1>1, <1>3 DEF LeaseEnds, Lapse, Early, CountersOK
<1>14. CASE LockEnds
  BY <1>14 DEF LockEnds, InFlight
<1>15. CASE DelayEnds
  <2> DEFINE r == poll[o]
             due == Due(r.execs)
  <2>1. r = [pc |-> r.pc, execs |-> r.execs, answers |-> r.answers, behind |-> r.behind]
    BY <1>4 DEF PollOK, IsPoll
  <2>2. poll'[o] = [r EXCEPT !.execs = due] /\ lease' = o
    BY <1>3, <1>15 DEF DelayEnds
  <2>3. poll'[o].pc = r.pc /\ poll'[o].answers = r.answers
    <3> HIDE DEF r, due
    <3> QED BY <2>1, <2>2
  <2> QED BY <1>3, <2>2, <2>3 DEF InFlight
<1> QED BY <1>5, <1>7, <1>8, <1>9, <1>10, <1>11, <1>12, <1>13, <1>14, <1>15, <1>3 DEF ContinuationNext, Poll

-----------------------------------------------------------------------------
(* An execution is begun again only after an interruption once its retries  *)
(* are used up: the one it has beyond those is in flight.                   *)
AttemptsOK ==
    stale = 0 => \A q \in Providers :
        /\ session.execs[q].attempts <= MaxAttempts + Troubles
        /\ session.execs[q].state \in {"pending", "due"} => session.execs[q].attempts < MaxAttempts + Troubles
        /\ session.execs[q].state = "waiting" => session.execs[q].attempts < MaxAttempts
        /\ session.execs[q].state = "running" /\ session.execs[q].attempts = MaxAttempts + Troubles
              => InFlight(q)

LEMMA AttemptsStep ==
  ASSUME ContinuationInv, CountersOK, AttemptsOK, ContinuationNext
  PROVE  AttemptsOK'
<1> SUFFICES ASSUME stale' = 0, NEW q \in Providers
             PROVE  LET e == session'.execs[q] IN
                    /\ e.attempts <= MaxAttempts + Troubles'
                    /\ e.state \in {"pending", "due"} => e.attempts < MaxAttempts + Troubles'
                    /\ e.state = "waiting" => e.attempts < MaxAttempts
                    /\ e.state = "running" /\ e.attempts = MaxAttempts + Troubles' => InFlight(q)'
  BY DEF AttemptsOK
<1> DEFINE e == session.execs[q]
           f == session'.execs[q]
<1>1. stale = 0 /\ CountersOK' /\ Troubles <= Troubles' /\ Troubles \in Nat /\ Troubles' \in Nat
      /\ MaxAttempts \in Nat \ {0}
  <2>1. CountersOK' /\ stale <= stale' /\ Troubles <= Troubles'
    BY CountersStep
  <2> QED BY <2>1, ContinuationBounds DEF CountersOK, Troubles
<1>2. session.execs \in [Providers -> Execution] /\ session'.execs \in [Providers -> Execution]
      /\ e.attempts \in Nat /\ e.page \in Nat \ {0} /\ f.attempts \in Nat
  <2>1. ContinuationInv'
    BY ContinuationInvKept
  <2>2. session.execs \in [Providers -> Execution] /\ session'.execs \in [Providers -> Execution]
    BY <2>1 DEF ContinuationInv, SessionOK, Fits
  <2> QED BY <2>2 DEF Execution
<1>3. /\ e.attempts <= MaxAttempts + Troubles
      /\ e.state \in {"pending", "due"} => e.attempts < MaxAttempts + Troubles
      /\ e.state = "waiting" => e.attempts < MaxAttempts
      /\ e.state = "running" /\ e.attempts = MaxAttempts + Troubles => InFlight(q)
  BY <1>1 DEF AttemptsOK
<1> DEFINE Bounded(x, t) ==
             /\ x.attempts <= MaxAttempts + t
             /\ x.state \in {"pending", "due"} => x.attempts < MaxAttempts + t
             /\ x.state = "waiting" => x.attempts < MaxAttempts
             /\ x.state = "running" /\ x.attempts = MaxAttempts + t => InFlight(q)'
<1> SUFFICES Bounded(f, Troubles')
  OBVIOUS
<1>4. CASE f = e
  <2>1. CASE Troubles' = Troubles
    <3>1. InFlight(q) => InFlight(q)' \/ (Save(lease) /\ q = NextAnswer(lease) /\ session'.execs = Saved(lease))
      BY <2>1, InFlightStep
    <3>2. ASSUME InFlight(q), Save(lease), q = NextAnswer(lease), session'.execs = Saved(lease)
          PROVE  f.state # "running"
      <4>1. lease \in Polls
        BY <3>2 DEF InFlight
      <4>2. PollOK(poll[lease], session.hotels)
        BY <4>1 DEF ContinuationInv, PollsOK
      <4>3. PICK s, n : poll[lease].pc \in {"apply", "save"} /\ DOMAIN poll[lease].answers # {}
                        /\ OwnedWrite(lease, s, lease, n)
        BY <3>2, <4>1, SaveIs
      <4>4. poll[lease].execs[q].state = "running" /\ Fits(poll[lease].execs, session.hotels)
        BY <3>2, <4>1, <4>3, NextAnswerIs
      <4>5. f = Applied(poll[lease].execs[q], poll[lease].answers[q], LastPage[q])
        BY <3>2, <4>4 DEF Saved, Fits
      <4>6. poll[lease].execs[q] \in Execution /\ poll[lease].execs[q].page <= LastPage[q]
            /\ LastPage[q] \in Nat \ {0}
        BY <4>4, ContinuationBounds DEF Fits, Ended
      <4> QED BY <4>5, <4>6, AppliedIs
    <3> QED BY <1>1, <1>2, <1>3, <1>4, <2>1, <3>1, <3>2
  <2>2. CASE Troubles' > Troubles
    BY <1>1, <1>2, <1>3, <1>4, <2>2
  <2> QED BY <1>1, <2>1, <2>2
<1>5. CASE session'.execs = Recovered(session.execs) /\ lease = None
  <2>1. ~InFlight(q)
    BY <1>5, PollsAssumption DEF InFlight
  <2>2. CASE e.state = "running"
    <3>1. f.state = "pending" /\ f.attempts = e.attempts
      BY <1>2, <1>5, <2>2 DEF Recovered, Execution
    <3> QED BY <1>1, <1>2, <1>3, <2>1, <2>2, <3>1
  <2>3. CASE e.state # "running"
    <3>1. f = e
      BY <1>2, <1>5, <2>3 DEF Recovered
    <3> QED BY <1>4, <3>1
  <2> QED BY <2>2, <2>3
<1>6. CASE session'.execs = Due(session.execs)
  <2>1. CASE e.state = "waiting"
    <3>1. f.state = "due" /\ f.attempts = e.attempts
      BY <1>2, <1>6, <2>1 DEF Due, Execution
    <3> QED BY <1>1, <1>2, <1>3, <2>1, <3>1
  <2>2. CASE e.state # "waiting"
    <3>1. f = e
      BY <1>2, <1>6, <2>2 DEF Due
    <3> QED BY <1>4, <3>1
  <2> QED BY <2>1, <2>2
<1>7. ASSUME NEW p \in Polls, lease = p, Begin(p), poll[p].execs = session.execs,
             session'.execs = BegunAll(session.execs)
      PROVE  Bounded(f, Troubles')
  <2>1. CASE q \in Runnable(session.execs)
    <3>1. f = Begun(e) /\ e.state \in {"pending", "due"}
      BY <1>2, <1>7, <2>1 DEF BegunAll, Runnable, In
    <3>2. e \in Execution
      BY <1>2
    <3>3. f.state = "running" /\ f.attempts = e.attempts + 1
      BY <3>1, <3>2, BegunIs
    <3>4. Troubles' = Troubles => InFlight(q)'
      <4> SUFFICES ASSUME Troubles' = Troubles PROVE InFlight(q)'
        OBVIOUS
      <4>1. PICK s, n : /\ OwnedWrite(p, s, lease, n) /\ n.pc = "renew"
                        /\ DOMAIN n.answers = Runnable(poll[p].execs)
        BY <1>7, BeginIs
      <4>2. ~Fault
        BY <4>1 DEF Fault, CountersOK, Troubles, OwnedWrite, UnchangedByPoll
      <4>3. lease' = p /\ Become(p, n) /\ PollsOK
        BY <1>7, <4>1, <4>2 DEF OwnedWrite, Owned, ContinuationInv
      <4>4. poll'[p] = n
        BY <4>3, BecomeMoves DEF Moves
      <4> QED BY <1>7, <2>1, <4>1, <4>3, <4>4 DEF InFlight, Calling
    <3> QED BY <1>1, <1>2, <1>3, <3>1, <3>3, <3>4
  <2>2. CASE q \notin Runnable(session.execs)
    <3>1. f = e
      BY <1>2, <1>7, <2>2 DEF BegunAll
    <3> QED BY <1>4, <3>1
  <2> QED BY <2>1, <2>2
<1>8. ASSUME NEW p \in Polls, lease = p, Save(p), poll[p].pc \in {"apply", "save"},
             DOMAIN poll[p].answers # {}, poll[p].execs = session.execs, session'.execs = Saved(p)
      PROVE  Bounded(f, Troubles')
  <2>1. e \in Execution /\ (e.state = "running" => e.page <= LastPage[q]) /\ LastPage[q] \in Nat \ {0}
    BY <1>2, ContinuationBounds DEF ContinuationInv, SessionOK, Fits, Ended
  <2>2. CASE q = NextAnswer(p)
    <3>1. e.state = "running" /\ f = Applied(e, poll[p].answers[q], LastPage[q])
      BY <1>2, <1>8, <2>2, NextAnswerIs DEF Saved
    <3>2. /\ f.page = e.page => f.attempts = e.attempts
          /\ f.state \in {"pending", "waiting", "completed", "failed"}
          /\ f.state = "pending" => f.attempts = 0
          /\ f.state = "waiting" => f.page = e.page /\ e.attempts < MaxAttempts
          /\ f.state \in Ended => f.attempts = e.attempts
      BY <2>1, <3>1, AppliedIs
    <3> QED BY <1>1, <1>2, <1>3, <3>2 DEF Ended
  <2>3. CASE q # NextAnswer(p)
    <3>1. f = e
      BY <1>2, <1>8, <2>3 DEF Saved
    <3> QED BY <1>4, <3>1
  <2> QED BY <2>2, <2>3
<1> HIDE DEF Bounded
<1>9. ASSUME NEW p \in Polls, OwnerWrites(p) PROVE Bounded(f, Troubles')
  BY <1>7, <1>8, <1>9 DEF OwnerWrites
<1>10. CASE session'.execs = session.execs
  BY <1>4, <1>10
<1> QED BY <1>5, <1>6, <1>9, <1>10, ExecsStep

-----------------------------------------------------------------------------
(* The polls that have begun page c of provider q and not called yet. *)
Pending(q, c) ==
    {p \in Polls : /\ poll[p].pc \in {"renew", "call"} /\ q \in DOMAIN poll[p].answers
                   /\ poll[p].execs[q].page = c}

(* How often page c can have been asked for, by the execution that has come *)
(* this far: as often as it was begun, or, once it is past the page, as     *)
(* often as the limit and the interruptions allow.                          *)
Allowed(e, c, troubles) ==
    IF c < e.page THEN MaxAttempts + troubles ELSE IF c = e.page THEN e.attempts ELSE 0

AskedType == asked = [q \in Providers |-> [c \in 1..LastPage[q] |-> asked[q][c]]]
             /\ \A q \in Providers : \A c \in 1..LastPage[q] : asked[q][c] \in Nat

(* A call that was made, or can still be, was begun and counted first. *)
AskedOK ==
    stale = 0 => \A q \in Providers : \A c \in 1..LastPage[q] :
        asked[q][c] + Cardinality(Pending(q, c)) <= Allowed(session.execs[q], c, Troubles)

LEMMA PendingFinite ==
  /\ \A q, c : IsFiniteSet(Pending(q, c)) /\ Cardinality(Pending(q, c)) \in Nat
  /\ \A q, c : IsFiniteSet(Pending(q, c)') /\ Cardinality(Pending(q, c)') \in Nat
<1>1. \A q, c : Pending(q, c) \subseteq Polls /\ Pending(q, c)' \subseteq Polls
  BY DEF Pending
<1>2. ASSUME NEW S, S \subseteq Polls PROVE IsFiniteSet(S) /\ Cardinality(S) \in Nat
  BY <1>2, PollsAssumption, FS_Subset, FS_CardinalityType
<1> QED BY <1>1, <1>2

(* A step that is not Call asks for nothing. *)
LEMMA AskedBy ==
  ASSUME ContinuationNext
  PROVE  asked' = asked \/ \E p \in Polls : Call(p)
<1>1. ASSUME NEW p \in Polls, Poll(p), ~Call(p) PROVE asked' = asked
  <2>1. CASE Read(p) \/ Acquire(p) \/ Unlock(p) \/ Abandon(p)
    BY <2>1 DEF Read, Acquire, Unlock, Abandon
  <2>2. CASE Recover(p) \/ Finish(p) \/ Wait(p)
    BY <2>2 DEF Recover, Finish, Wait, UnlockedWrite
  <2>3. CASE Lock(p) \/ Begin(p) \/ Renew(p) \/ Append(p) \/ Save(p) \/ Release(p)
    BY <2>3 DEF Lock, Begin, Renew, Append, Save, Release, OwnedWrite
  <2> QED BY <1>1, <2>1, <2>2, <2>3 DEF Poll
<1>2. CASE (\E p \in Polls : Crash(p)) \/ LeaseEnds \/ LockEnds \/ DelayEnds
  BY <1>2 DEF Crash, LeaseEnds, LockEnds, DelayEnds
<1> QED BY <1>1, <1>2 DEF ContinuationNext

LEMMA AskedTypeStep == AskedType /\ [ContinuationNext]_continuationVars => AskedType'
<1> SUFFICES ASSUME AskedType, [ContinuationNext]_continuationVars PROVE AskedType'
  OBVIOUS
<1>1. CASE asked' = asked
  BY <1>1 DEF AskedType
<1>2. ASSUME NEW p \in Polls, Call(p) PROVE AskedType'
  <2> DEFINE n(q, c) == IF q \in DOMAIN poll[p].answers /\ poll[p].execs[q].page = c /\ asked[q][c] <= MaxAsked
                        THEN asked[q][c] + 1 ELSE asked[q][c]
  <2>1. asked' = [q \in Providers |-> [c \in 1..LastPage[q] |-> n(q, c)]]
    BY <1>2 DEF Call
  <2>2. \A q \in Providers : \A c \in 1..LastPage[q] : n(q, c) \in Nat
    <3>1. \A q \in Providers : \A c \in 1..LastPage[q] : asked[q][c] \in Nat
      BY DEF AskedType
    <3> QED BY <3>1
  <2> HIDE DEF n
  <2>3. asked' = [q \in Providers |-> [c \in 1..LastPage[q] |-> asked'[q][c]]]
        /\ \A q \in Providers : \A c \in 1..LastPage[q] : asked'[q][c] = n(q, c)
    BY <2>1
  <2> QED BY <2>2, <2>3 DEF AskedType
<1>3. CASE UNCHANGED continuationVars
  BY <1>1, <1>3 DEF continuationVars
<1> QED BY <1>1, <1>2, <1>3, AskedBy

(* A step that is not Begin adds no call that is still to be made, and Call *)
(* takes its own away.                                                      *)
LEMMA PendingStep ==
  ASSUME ContinuationInv, ContinuationNext, NEW q, NEW c
  PROVE  /\ (\A p \in Polls : ~Begin(p)) => Pending(q, c)' \subseteq Pending(q, c)
         /\ \A p \in Polls : Call(p) => Pending(q, c)' \subseteq Pending(q, c) \ {p}
         /\ \A p \in Polls : Begin(p) => Pending(q, c)' \subseteq Pending(q, c) \cup {p}
<1>1. ASSUME NEW p \in Polls, Poll(p), NEW x \in Polls \ {p}
      PROVE  x \in Pending(q, c)' => x \in Pending(q, c)
  <2>1. PICK next : Moves(p, next)
    BY <1>1, PollMoves
  <2>2. poll'[x].pc = poll[x].pc /\ poll'[x].execs = poll[x].execs /\ poll'[x].answers = poll[x].answers
    BY <2>1 DEF Moves
  <2> QED BY <2>2 DEF Pending
<1>2. ASSUME NEW p \in Polls, Poll(p), ~Begin(p)
      PROVE  p \in Pending(q, c)' => p \in Pending(q, c) /\ poll[p].pc = "renew"
  BY <1>2, PollMoves DEF Pending
<1>3. ASSUME NEW p \in Polls, Crash(p), NEW x \in Polls PROVE x \in Pending(q, c)' => x \in Pending(q, c)
  <2>1. Moves(p, Nobody)
    BY <1>3, BecomeMoves DEF Crash, ContinuationInv
  <2>2. CASE x = p
    BY <2>1, <2>2 DEF Moves, Pending, Nobody
  <2>3. CASE x # p
    <3>1. poll'[x].pc = poll[x].pc /\ poll'[x].execs = poll[x].execs /\ poll'[x].answers = poll[x].answers
      BY <2>1, <2>3 DEF Moves
    <3> QED BY <3>1 DEF Pending
  <2> QED BY <2>2, <2>3
<1>4. ASSUME LeaseEnds \/ LockEnds PROVE Pending(q, c)' = Pending(q, c)
  BY <1>4 DEF LeaseEnds, LockEnds, Pending
<1>5. ASSUME DelayEnds, NEW x \in Polls PROVE x \in Pending(q, c)' => x \in Pending(q, c)
  <2> DEFINE r == poll[x]
             due == Due(r.execs)
  <2>1. PollOK(r, session.hotels)
    BY DEF ContinuationInv, PollsOK
  <2>2. poll'[x] = [r EXCEPT !.execs = due]
    BY <1>5 DEF DelayEnds
  <2>3. poll'[x].pc = r.pc /\ poll'[x].answers = r.answers /\ poll'[x].execs = due
    <3>1. r = [pc |-> r.pc, execs |-> r.execs, answers |-> r.answers, behind |-> r.behind]
      BY <2>1 DEF PollOK, IsPoll
    <3> HIDE DEF r, due
    <3> QED BY <2>2, <3>1
  <2>4. ASSUME r.pc \in {"renew", "call"}, q \in DOMAIN r.answers PROVE due[q].page = r.execs[q].page
    <3>1. q \in Providers /\ r.execs \in [Providers -> Execution]
      BY <2>1, <2>4 DEF PollOK, Fits, Calling
    <3> QED BY <3>1 DEF Due, Execution
  <2> HIDE DEF due
  <2> QED BY <2>3, <2>4 DEF Pending
<1>6. ASSUME \A p \in Polls : ~Begin(p) PROVE Pending(q, c)' \subseteq Pending(q, c)
  <2> SUFFICES ASSUME NEW x \in Polls, x \in Pending(q, c)' PROVE x \in Pending(q, c)
    BY DEF Pending
  <2>1. ASSUME NEW p \in Polls, Poll(p) PROVE x \in Pending(q, c)
    BY <1>1, <1>2, <1>6, <2>1
  <2> QED BY <1>3, <1>4, <1>5, <2>1 DEF ContinuationNext
<1>7. ASSUME NEW p \in Polls, Call(p) PROVE Pending(q, c)' \subseteq Pending(q, c) \ {p}
  <2>1. Poll(p) /\ poll[p].pc = "call" /\ ~Begin(p)
    BY <1>7 DEF Poll, Call, Begin, At
  <2>2. p \notin Pending(q, c)'
    BY <1>2, <2>1
  <2> QED BY <1>1, <2>1, <2>2 DEF Pending
<1>8. ASSUME NEW p \in Polls, Begin(p) PROVE Pending(q, c)' \subseteq Pending(q, c) \cup {p}
  <2>1. Poll(p)
    BY <1>8 DEF Poll
  <2> QED BY <1>1, <2>1 DEF Pending
<1> QED BY <1>6, <1>7, <1>8

\* While a page stays in work, more troubles and more attempts allow more.
LEMMA AllowedOnPage ==
  ASSUME NEW e, NEW f, NEW c \in Nat, NEW t \in Nat, NEW u \in Nat, t <= u,
         MaxAttempts \in Nat, f.page \in Nat, e.page = f.page,
         e.attempts \in Nat, f.attempts \in Nat, e.attempts <= f.attempts
  PROVE  Allowed(e, c, t) <= Allowed(f, c, u)
<1>1. CASE c < f.page
  BY <1>1 DEF Allowed
<1>2. CASE c = f.page
  BY <1>2 DEF Allowed
<1>3. CASE c > f.page
  BY <1>3 DEF Allowed
<1> QED BY <1>1, <1>2, <1>3

(* No step takes back what the executions allow, and Begin allows one more  *)
(* call for every execution that it counts.                                 *)
LEMMA AllowedStep ==
  ASSUME ContinuationInv, CountersOK, AttemptsOK, ContinuationNext, stale' = 0,
         NEW q \in Providers, NEW c \in 1..LastPage[q]
  PROVE  /\ Allowed(session.execs[q], c, Troubles) \in Nat
         /\ Allowed(session'.execs[q], c, Troubles') \in Nat
         /\ Allowed(session.execs[q], c, Troubles) <= Allowed(session'.execs[q], c, Troubles')
<1> DEFINE e == session.execs[q]
           f == session'.execs[q]
<1>1. stale = 0 /\ Troubles <= Troubles' /\ Troubles \in Nat /\ Troubles' \in Nat
      /\ MaxAttempts \in Nat \ {0} /\ LastPage[q] \in Nat \ {0} /\ c \in Nat
  <2>1. CountersOK' /\ stale <= stale' /\ Troubles <= Troubles'
    BY CountersStep
  <2>2. stale = 0
    BY <2>1 DEF CountersOK
  <2>3. Troubles \in Nat /\ Troubles' \in Nat
    <3>1. {faults, crashes, lapses, faults', crashes', lapses'} \subseteq Nat
      BY <2>1 DEF CountersOK
    <3> QED BY <3>1 DEF Troubles
  <2>4. MaxAttempts \in Nat \ {0} /\ LastPage[q] \in Nat \ {0}
    BY ContinuationBounds
  <2>5. c \in Nat
    BY <2>4
  <2> QED BY <2>1, <2>2, <2>3, <2>4, <2>5
<1>2. /\ session.execs \in [Providers -> Execution] /\ session'.execs \in [Providers -> Execution]
      /\ e \in Execution /\ e.attempts \in Nat /\ e.page \in Nat \ {0}
      /\ f.attempts \in Nat /\ f.page \in Nat \ {0}
      /\ e.state = "running" => e.page <= LastPage[q]
  <2>1. ContinuationInv'
    BY ContinuationInvKept
  <2>2. Fits(session.execs, session.hotels) /\ Fits(session'.execs, session'.hotels)
    BY <2>1 DEF ContinuationInv, SessionOK
  <2> QED BY <2>2 DEF Fits, Execution, Ended
<1>3. e.attempts <= MaxAttempts + Troubles
  BY <1>1 DEF AttemptsOK
<1> DEFINE Goal == Allowed(e, c, Troubles) <= Allowed(f, c, Troubles')
<1>4. ASSUME f.page = e.page, f.attempts >= e.attempts PROVE Goal
  <2> HIDE DEF e, f
  <2>1. MaxAttempts \in Nat /\ f.page \in Nat /\ e.page = f.page
        /\ e.attempts \in Nat /\ f.attempts \in Nat /\ e.attempts <= f.attempts
    BY <1>1, <1>2, <1>4
  <2>2. Allowed(e, c, Troubles) <= Allowed(f, c, Troubles')
    BY <1>1, <2>1, AllowedOnPage
  <2> QED BY <2>2
<1>5. ASSUME f.page = e.page + 1, f.attempts = 0 \/ f.page > LastPage[q] PROVE Goal
  BY <1>1, <1>2, <1>3, <1>5 DEF Allowed
<1>6. ASSUME session'.execs = session.execs PROVE Goal
  <2>1. f = e
    BY <1>6
  <2>2. f.page = e.page /\ f.attempts >= e.attempts
    <3> HIDE DEF e, f
    <3> QED BY <1>2, <2>1
  <2> QED BY <1>4, <2>2
<1>7. ASSUME session'.execs = Recovered(session.execs) PROVE Goal
  BY <1>2, <1>4, <1>7 DEF Recovered, Execution
<1>8. ASSUME session'.execs = Due(session.execs) PROVE Goal
  BY <1>2, <1>4, <1>8 DEF Due, Execution
<1>9. ASSUME NEW p \in Polls, OwnerWrites(p) PROVE Goal
  <2>1. CASE session'.execs = BegunAll(session.execs)
    <3>1. f = Begun(e) \/ f = e
      BY <2>1 DEF BegunAll
    <3> QED BY <1>2, <1>4, <3>1, BegunIs
  <2>2. CASE /\ Save(p) /\ poll[p].pc \in {"apply", "save"} /\ DOMAIN poll[p].answers # {}
             /\ poll[p].execs = session.execs /\ session'.execs = Saved(p)
    <3>1. CASE q = NextAnswer(p)
      <4>1. e.state = "running" /\ f = Applied(e, poll[p].answers[q], LastPage[q])
        BY <1>2, <2>2, <3>1, NextAnswerIs DEF Saved
      <4>2. /\ f.page # e.page => f.page = e.page + 1
            /\ f.page = e.page => f.attempts = e.attempts
            /\ f.page # e.page => f.attempts = 0 \/ f.page > LastPage[q]
        BY <1>1, <1>2, <4>1, AppliedIs
      <4> QED BY <1>2, <1>4, <1>5, <4>2
    <3>2. CASE q # NextAnswer(p)
      <4>1. f = e
        BY <1>2, <2>2, <3>2 DEF Saved
      <4> QED BY <1>2, <1>4, <4>1
    <3> QED BY <3>1, <3>2
  <2> QED BY <1>9, <2>1, <2>2 DEF OwnerWrites
<1>10. Goal
  <2> HIDE DEF Goal
  <2> QED BY <1>6, <1>7, <1>8, <1>9, ExecsStep
<1>11. Allowed(e, c, Troubles) \in Nat /\ Allowed(f, c, Troubles') \in Nat
  <2>1. \A x, t : x.attempts \in Nat /\ t \in Nat => Allowed(x, c, t) \in Nat
    BY <1>1 DEF Allowed
  <2> QED BY <1>1, <1>2, <2>1
<1> QED BY <1>10, <1>11

LEMMA AskedStep ==
  ASSUME ContinuationInv, CountersOK, AttemptsOK, AskedType, AskedOK, ContinuationNext
  PROVE  AskedOK'
<1> SUFFICES ASSUME stale' = 0, NEW q \in Providers, NEW c \in 1..LastPage[q]
             PROVE  asked'[q][c] + Cardinality(Pending(q, c)')
                       <= Allowed(session'.execs[q], c, Troubles')
  BY DEF AskedOK
<1> DEFINE a == asked[q][c]
           b == asked'[q][c]
           m == Cardinality(Pending(q, c))
           n == Cardinality(Pending(q, c)')
           x == Allowed(session.execs[q], c, Troubles)
           y == Allowed(session'.execs[q], c, Troubles')
<1>1. stale = 0
  BY CountersStep DEF CountersOK
<1>2. a + m <= x
  BY <1>1 DEF AskedOK
<1>3. AskedType'
  BY AskedTypeStep
<1>4. a \in Nat /\ b \in Nat
  BY <1>3 DEF AskedType
<1>5. m \in Nat /\ n \in Nat
  BY PendingFinite
<1>6. x \in Nat /\ y \in Nat /\ x <= y
  BY AllowedStep
<1>7. ASSUME NEW p \in Polls, Call(p) PROVE b + n <= y
  <2>1. Pending(q, c)' \subseteq Pending(q, c) \ {p}
    BY <1>7, PendingStep
  <2>2. asked'[q][c] = IF q \in DOMAIN poll[p].answers /\ poll[p].execs[q].page = c /\ asked[q][c] <= MaxAsked
                       THEN asked[q][c] + 1 ELSE asked[q][c]
    BY <1>7 DEF Call
  <2>3. CASE p \in Pending(q, c)
    <3>1. Cardinality(Pending(q, c) \ {p}) = m - 1
      BY <2>3, PendingFinite, FS_RemoveElement
    <3>2. IsFiniteSet(Pending(q, c) \ {p})
      BY PendingFinite, FS_RemoveElement
    <3>3. n <= m - 1
      BY <2>1, <3>1, <3>2, FS_Subset
    <3>4. b <= a + 1
      <4> HIDE DEF m, n, x, y
      <4> QED BY <1>4, <2>2
    <3> HIDE DEF a, b, m, n, x, y
    <3> QED BY <1>2, <1>4, <1>5, <1>6, <3>3, <3>4
  <2>4. CASE p \notin Pending(q, c)
    <3>1. n <= m
      BY <2>1, PendingFinite, FS_Subset
    <3>2. poll[p].pc = "call"
      BY <1>7 DEF Call, At
    <3>3. b = a
      BY <2>2, <2>4, <3>2 DEF Pending
    <3> HIDE DEF a, b, m, n, x, y
    <3> QED BY <1>2, <1>4, <1>5, <1>6, <3>1, <3>3
  <2> QED BY <2>3, <2>4
<1>8. ASSUME b = a, Pending(q, c)' \subseteq Pending(q, c) PROVE b + n <= y
  <2>1. n <= m
    BY <1>8, PendingFinite, FS_Subset
  <2> HIDE DEF a, b, m, n, x, y
  <2> QED BY <1>2, <1>4, <1>5, <1>6, <1>8, <2>1
<1>9. ASSUME NEW p \in Polls, Begin(p), b = a PROVE b + n <= y
  <2>1. Pending(q, c)' \subseteq Pending(q, c) \cup {p}
    BY <1>9, PendingStep
  <2>2. CASE p \notin Pending(q, c)'
    BY <1>8, <1>9, <2>1, <2>2
  <2>3. CASE p \in Pending(q, c)'
    <3>1. PICK s, r : /\ OwnedWrite(p, s, lease, r) /\ s.execs = BegunAll(poll[p].execs)
                      /\ r.execs = s.execs /\ DOMAIN r.answers = Runnable(poll[p].execs)
      BY <1>9, BeginIs
    <3>2. PollsOK /\ PollOK(poll[p], session.hotels) /\ poll[p].pc = "begin"
      BY <1>9 DEF ContinuationInv, PollsOK, Begin, At
    <3>3. ~Become(p, OnError(p))
      <4>1. ASSUME Become(p, OnError(p)) PROVE poll'[p] = OnError(p)
        BY <3>2, <4>1, BecomeMoves DEF Moves
      <4>2. OnError(p).pc \in {"unlock", "abandon"}
        BY <3>2, OnErrorOK
      <4> QED BY <2>3, <4>1, <4>2 DEF Pending
    <3>4. lease = p /\ session' = s /\ Become(p, r)
      BY <3>1, <3>3 DEF OwnedWrite, Owned
    <3>5. poll'[p] = r
      BY <3>2, <3>4, BecomeMoves DEF Moves
    <3>6. q \in Runnable(poll[p].execs) /\ session'.execs[q].page = c
      BY <2>3, <3>1, <3>4, <3>5 DEF Pending
    <3>7. poll[p].execs = session.execs /\ session.execs[q] \in Execution
      BY <3>2, <3>4 DEF ContinuationInv, OwnerAgrees, Working, SessionOK, Fits
    <3>8. session'.execs[q] = Begun(session.execs[q])
      BY <3>1, <3>4, <3>6, <3>7 DEF BegunAll
    <3>9. /\ session.execs[q].page = c /\ session.execs[q].attempts \in Nat
          /\ session'.execs[q].attempts = session.execs[q].attempts + 1
      BY <3>6, <3>7, <3>8, BegunIs DEF Execution
    <3>10. y = x + 1
      <4>1. x = session.execs[q].attempts
        BY <3>9 DEF Allowed
      <4>2. y = session'.execs[q].attempts
        BY <3>6 DEF Allowed
      <4> QED BY <3>9, <4>1, <4>2
    <3>11. n <= m + 1
      <4>1. IsFiniteSet(Pending(q, c) \cup {p}) /\ Cardinality(Pending(q, c) \cup {p}) <= m + 1
        <5> DEFINE S == Pending(q, c)
        <5>1. IsFiniteSet(S) /\ Cardinality(S) \in Nat
          BY PendingFinite
        <5> HIDE DEF S
        <5>2. IsFiniteSet(S \cup {p}) /\ Cardinality(S \cup {p}) <= Cardinality(S) + 1
          BY <5>1, FS_AddElement
        <5> QED BY <5>2 DEF S
      <4>2. Cardinality(Pending(q, c) \cup {p}) \in Nat
        BY <4>1, FS_CardinalityType
      <4>3. n <= Cardinality(Pending(q, c) \cup {p})
        BY <2>1, <4>1, FS_Subset
      <4> DEFINE k == Cardinality(Pending(q, c) \cup {p})
      <4> HIDE DEF m, n, k
      <4> QED BY <1>5, <4>1, <4>2, <4>3 DEF k
    <3> HIDE DEF a, b, m, n, x, y
    <3> QED BY <1>2, <1>4, <1>5, <1>6, <1>9, <3>10, <3>11
  <2> QED BY <2>2, <2>3
<1>10. CASE \E p \in Polls : Call(p)
  BY <1>7, <1>10
<1>11. CASE asked' = asked
  <2>1. CASE \A p \in Polls : ~Begin(p)
    BY <1>8, <1>11, <2>1, PendingStep
  <2>2. CASE \E p \in Polls : Begin(p)
    BY <1>9, <1>11, <2>2
  <2> QED BY <2>1, <2>2
<1> QED BY <1>10, <1>11, AskedBy

(* Each interruption of a continuation costs a provider at most one more    *)
(* call for the same page, unless a stale copy gave attempts back.          *)
THEOREM CallsBounded == ContinuationSpec => []AttemptsBounded
<1> DEFINE Counted == AttemptsOK /\ AskedType /\ AskedOK
<1>1. ContinuationInit => Counted
  <2> SUFFICES ASSUME ContinuationInit PROVE Counted
    OBVIOUS
  <2>1. /\ session.execs = [q \in Providers |-> FirstPage] /\ Troubles = 0
        /\ asked = [q \in Providers |-> [c \in 1..LastPage[q] |-> 0]]
        /\ poll = [p \in Polls |-> Nobody]
    BY DEF ContinuationInit, Troubles
  <2>2. FirstPage.state = "pending" /\ FirstPage.attempts = 0 /\ FirstPage.page = 1
    BY DEF FirstPage
  <2>3. AttemptsOK
    BY <2>1, <2>2, ContinuationBounds DEF AttemptsOK
  <2>4. AskedType
    BY <2>1 DEF AskedType
  <2>5. \A q, c : Pending(q, c) = {}
    BY <2>1 DEF Pending, Nobody
  <2>6. \A q, c : Cardinality(Pending(q, c)) = 0
    BY <2>5, FS_EmptySet
  <2>7. ASSUME NEW q \in Providers, NEW c \in 1..LastPage[q]
        PROVE  asked[q][c] = 0 /\ Allowed(session.execs[q], c, Troubles) >= 0
    BY <2>1, <2>2, ContinuationBounds DEF Allowed
  <2>8. AskedOK
    BY <2>6, <2>7 DEF AskedOK
  <2> QED BY <2>3, <2>4, <2>8
<1>2. ContinuationInv /\ CountersOK /\ Counted /\ [ContinuationNext]_continuationVars => Counted'
  <2>1. CASE UNCHANGED continuationVars
    <3> USE <2>1 DEF continuationVars
    <3>1. \A q \in Providers : InFlight(q)' <=> InFlight(q)
      BY DEF InFlight
    <3>2. Troubles' = Troubles /\ \A q, c : Pending(q, c)' = Pending(q, c)
      BY DEF Troubles, Pending
    <3>3. AttemptsOK => AttemptsOK'
      BY <3>1, <3>2 DEF AttemptsOK
    <3>4. AskedType => AskedType'
      BY DEF AskedType
    <3>5. AskedOK => AskedOK'
      BY <3>2 DEF AskedOK
    <3> QED BY <3>3, <3>4, <3>5
  <2>2. CASE ContinuationNext
    BY <2>2, AttemptsStep, AskedTypeStep, AskedStep
  <2> QED BY <2>1, <2>2
<1>3. ContinuationInv /\ CountersOK /\ Counted => AttemptsBounded
  <2> SUFFICES ASSUME ContinuationInv, CountersOK, Counted, stale = 0,
                      NEW q \in Providers, NEW c \in 1..LastPage[q]
               PROVE  asked[q][c] <= MaxAttempts + faults + crashes + lapses
    BY DEF AttemptsBounded
  <2> DEFINE e == session.execs[q]
             m == Cardinality(Pending(q, c))
  <2>1. asked[q][c] + m <= Allowed(e, c, Troubles) /\ m \in Nat /\ asked[q][c] \in Nat
    <3>1. asked[q][c] \in Nat
      BY DEF AskedType
    <3> QED BY <3>1, PendingFinite DEF AskedOK
  <2>2. e.attempts <= MaxAttempts + Troubles /\ e.attempts \in Nat /\ Troubles \in Nat
        /\ MaxAttempts \in Nat
    BY ContinuationBounds DEF AttemptsOK, CountersOK, Troubles, ContinuationInv, SessionOK, Fits, Execution
  <2>3. Allowed(e, c, Troubles) <= MaxAttempts + Troubles /\ Allowed(e, c, Troubles) \in Nat
    <3> HIDE DEF e
    <3> QED BY <2>2 DEF Allowed
  <2> HIDE DEF m, e
  <2>4. asked[q][c] <= MaxAttempts + Troubles
    <3> DEFINE a == asked[q][c]
               x == Allowed(e, c, Troubles)
    <3> HIDE DEF a, x
    <3> QED BY <2>1, <2>2, <2>3 DEF a, x
  <2> QED BY <2>2, <2>4 DEF Troubles, CountersOK
<1> QED BY <1>1, <1>2, <1>3, ContinuationAlways, CountersAlways, PTL DEF ContinuationSpec
=============================================================================
