------------------------ MODULE ProcessingStageProofs ------------------------
(***************************************************************************)
(* The processing stage for any number of documents and overlapping calls: *)
(* what the stage says, how often jobs are retried, and where calls can    *)
(* wait in a circle.                                                       *)
(***************************************************************************)
EXTENDS ProcessingStage, TLAPS

DataType == [ocr : BOOLEAN, bank : BOOLEAN, credit : BOOLEAN, ocrPending : BOOLEAN,
             bankPending : BOOLEAN, accepted : BOOLEAN, rejected : BOOLEAN]

-----------------------------------------------------------------------------
(* Stages *)

\* What keeps a stage from moving.
Rests(s, data) ==
  /\ s = "pending" => ~data.ocrPending /\ ~data.ocr
  /\ s = "ocr_processing" => ~data.ocr
  /\ s = "ocr_complete" => ~data.bankPending /\ ~data.bank
  /\ s = "banking_processing" => ~data.bank
  /\ s \in {"banking_complete", "documents_complete", "credit_summary_processing",
            "credit_summary_complete", "ready_for_lender"}
       => ~(data.ocr /\ data.bank /\ data.rejected)
  /\ s \in {"banking_complete", "documents_incomplete"}
       => ~(data.ocr /\ data.bank /\ data.accepted)
  /\ s = "documents_complete" => ~(data.ocr /\ data.bank /\ data.accepted)
  /\ s = "credit_summary_processing" => ~data.credit
  /\ s = "credit_summary_complete"
       => ~(data.ocr /\ data.bank /\ data.accepted /\ data.credit)

LEMMA RestsSettles ==
  ASSUME NEW s \in Stages, NEW data \in DataType
  PROVE  ResolveNextStage(s, data) = s <=> Rests(s, data)
  BY DEF ResolveNextStage, Rests, Stages, DataType

LEMMA ResolveTyped ==
  ASSUME NEW s \in Stages, NEW data
  PROVE  ResolveNextStage(s, data) \in Stages
  BY DEF ResolveNextStage, Stages

Rank(s, data) ==
  CASE s = "pending" -> 0 [] s = "ocr_processing" -> 1 [] s = "ocr_complete" -> 2
    [] s = "banking_processing" -> 3 [] s = "banking_complete" -> 4
    [] s = "documents_incomplete" -> IF data.rejected THEN 10 ELSE 5
    [] s = "documents_complete" -> 6 [] s = "credit_summary_processing" -> 7
    [] s = "credit_summary_complete" -> 8 [] s = "ready_for_lender" -> 9

LEMMA RankGrows ==
  ASSUME NEW s \in Stages, NEW data \in DataType, ~(data.accepted /\ data.rejected),
         ResolveNextStage(s, data) # s
  PROVE  Rank(s, data) < Rank(ResolveNextStage(s, data), data)
  <1> DEFINE t == ResolveNextStage(s, data)
  <1>1. CASE s = "pending"
    <2>1. t \in {"ocr_processing", "ocr_complete"} BY <1>1 DEF ResolveNextStage, DataType
    <2> QED BY <1>1, <2>1 DEF Rank
  <1>2. CASE s = "ocr_processing"
    <2>1. t = "ocr_complete" BY <1>2 DEF ResolveNextStage, DataType
    <2> QED BY <1>2, <2>1 DEF Rank
  <1>3. CASE s = "ocr_complete"
    <2>1. t \in {"banking_processing", "banking_complete"}
      BY <1>3 DEF ResolveNextStage, DataType
    <2> QED BY <1>3, <2>1 DEF Rank
  <1>4. CASE s = "banking_processing"
    <2>1. t = "banking_complete" BY <1>4 DEF ResolveNextStage, DataType
    <2> QED BY <1>4, <2>1 DEF Rank
  <1>5. CASE s = "documents_incomplete"
    <2>1. t = "documents_complete" /\ ~data.rejected
      BY <1>5 DEF ResolveNextStage, DataType
    <2> QED BY <1>5, <2>1 DEF Rank
  <1>6. CASE s \in {"banking_complete", "documents_complete", "credit_summary_processing",
                    "credit_summary_complete", "ready_for_lender"}
    <2>1. CASE data.ocr /\ data.bank /\ data.rejected
      <3>1. t = "documents_incomplete" BY <1>6, <2>1 DEF ResolveNextStage, DataType
      <3> QED BY <1>6, <2>1, <3>1 DEF Rank
    <2>2. CASE ~(data.ocr /\ data.bank /\ data.rejected)
      <3>1. /\ s = "banking_complete" => t = "documents_complete"
            /\ s = "documents_complete"
                 => t \in {"credit_summary_processing", "credit_summary_complete"}
            /\ s = "credit_summary_processing" => t = "credit_summary_complete"
            /\ s = "credit_summary_complete" => t = "ready_for_lender"
            /\ s # "ready_for_lender"
        BY <1>6, <2>2 DEF ResolveNextStage, DataType
      <3> QED BY <1>6, <3>1 DEF Rank
    <2> QED BY <2>1, <2>2
  <1> QED BY <1>1, <1>2, <1>3, <1>4, <1>5, <1>6 DEF Stages

LEMMA RankBounded ==
  ASSUME NEW s \in Stages, NEW data \in DataType
  PROVE  Rank(s, data) \in 0..10
  BY DEF Rank, Stages

LEMMA SettleUnrolls ==
  ASSUME NEW s, NEW data
  PROVE  \E f : /\ f[0] = s
                /\ \A n \in 1..10 : f[n] = ResolveNextStage(f[n - 1], data)
                /\ Settle(s, data) = f[10]
  <1> DEFINE after == CHOOSE f : f = [n \in 0..10 |-> IF n = 0 THEN s ELSE ResolveNextStage(f[n - 1], data)]
             R(x) == ResolveNextStage(x, data)
             a1 == R(s)
             a2 == R(a1)
             a3 == R(a2)
             a4 == R(a3)
             a5 == R(a4)
             a6 == R(a5)
             a7 == R(a6)
             a8 == R(a7)
             a9 == R(a8)
             a10 == R(a9)
             g == [n \in 0..10 |-> IF n = 0 THEN s ELSE IF n = 1 THEN a1 ELSE IF n = 2 THEN a2
                    ELSE IF n = 3 THEN a3 ELSE IF n = 4 THEN a4 ELSE IF n = 5 THEN a5
                    ELSE IF n = 6 THEN a6 ELSE IF n = 7 THEN a7 ELSE IF n = 8 THEN a8
                    ELSE IF n = 9 THEN a9 ELSE a10]
  <1>1. Settle(s, data) = after[10] BY DEF Settle
  <1>2. g = [n \in 0..10 |-> IF n = 0 THEN s ELSE ResolveNextStage(g[n - 1], data)]
    <2>1. ASSUME NEW n \in 1..10 PROVE g[n] = R(g[n-1])
      <3> HIDE DEF R
      <3> QED OBVIOUS
    <2> HIDE DEF R
    <2> QED BY <2>1 DEF R
  <1>3. after = [n \in 0..10 |-> IF n = 0 THEN s ELSE ResolveNextStage(after[n - 1], data)]
    <2> HIDE DEF g
    <2> QED BY <1>2
  <1> HIDE DEF after
  <1> QED BY <1>1, <1>3

\* The passes of advanceProcessingStageInternal, one after the other.
Passes(f, s, data) ==
  f[0] = s /\ \A n \in 1..10 : f[n] = ResolveNextStage(f[n - 1], data)

\* Whatever a pass keeps holds at the end.
LEMMA PassesRest ==
  ASSUME NEW f, NEW s \in Stages, NEW data \in DataType, Passes(f, s, data),
         ~(data.accepted /\ data.rejected)
  PROVE  f[10] \in Stages /\ Rests(f[10], data)
  <1> DEFINE P(x, n) == /\ x \in Stages
                        /\ Rests(x, data) \/ n <= Rank(x, data)
  <1>1. ASSUME NEW n \in 1..10, P(f[n - 1], n - 1)  PROVE P(f[n], n)
    <2>1. f[n] = ResolveNextStage(f[n - 1], data) BY DEF Passes
    <2>2. f[n - 1] \in Stages /\ f[n] \in Stages BY <1>1, <2>1, ResolveTyped
    <2>3. CASE f[n] = f[n - 1]
      BY <2>1, <2>2, <2>3, RestsSettles
    <2>4. CASE f[n] # f[n - 1]
      <3>1. ~Rests(f[n - 1], data) BY <2>1, <2>2, <2>4, RestsSettles
      <3>2. n - 1 <= Rank(f[n - 1], data) BY <1>1, <3>1
      <3>3. Rank(f[n - 1], data) < Rank(f[n], data) BY <2>1, <2>2, <2>4, RankGrows
      <3>4. Rank(f[n - 1], data) \in 0..10 /\ Rank(f[n], data) \in 0..10
        BY <2>2, RankBounded
      <3> QED BY <2>2, <3>2, <3>3, <3>4
    <2> QED BY <2>3, <2>4
  <1>2. P(f[0], 0)
    <2>1. f[0] \in Stages BY DEF Passes
    <2>2. Rank(f[0], data) \in 0..10 BY <2>1, RankBounded
    <2> QED BY <2>1, <2>2
  <1> HIDE DEF P
  <1>3. P(f[1], 1) BY <1>1, <1>2
  <1>4. P(f[2], 2) BY <1>1, <1>3
  <1>5. P(f[3], 3) BY <1>1, <1>4
  <1>6. P(f[4], 4) BY <1>1, <1>5
  <1>7. P(f[5], 5) BY <1>1, <1>6
  <1>8. P(f[6], 6) BY <1>1, <1>7
  <1>9. P(f[7], 7) BY <1>1, <1>8
  <1>10. P(f[8], 8) BY <1>1, <1>9
  <1>11. P(f[9], 9) BY <1>1, <1>10
  <1>12. P(f[10], 10) BY <1>1, <1>11
  <1>13. f[10] \in Stages /\ (Rests(f[10], data) \/ 10 <= Rank(f[10], data))
    BY <1>12 DEF P
  <1>14. 10 <= Rank(f[10], data) => f[10] = "documents_incomplete" /\ data.rejected
    BY <1>13 DEF Rank, Stages
  <1>15. f[10] = "documents_incomplete" /\ data.rejected => Rests(f[10], data)
    BY DEF Rests
  <1> QED BY <1>13, <1>14, <1>15

\* What the portal is told by a stage.
Backed(s, st) ==
  /\ s \notin {"pending", "ocr_processing"} => "ocr" \in st
  /\ s \notin {"pending", "ocr_processing", "ocr_complete", "banking_processing"}
       => "bank" \in st
  /\ s \in {"credit_summary_complete", "ready_for_lender"} => "credit" \in st

LEMMA PassBacked ==
  ASSUME NEW s \in Stages, NEW st, NEW jb, NEW rq, Backed(s, st)
  PROVE  Backed(ResolveNextStage(s, StageData(st, jb, rq)), st)
  <1> DEFINE d == StageData(st, jb, rq)
  <1>1. (d.ocr <=> "ocr" \in st) /\ (d.bank <=> "bank" \in st) /\ (d.credit <=> "credit" \in st)
    BY DEF StageData
  <1> HIDE DEF d
  <1>2. Backed(ResolveNextStage(s, d), st)
    BY <1>1 DEF ResolveNextStage, Backed, Stages
  <1> QED BY <1>2 DEF d

LEMMA PassesBacked ==
  ASSUME NEW f, NEW s \in Stages, NEW st, NEW jb, NEW rq, Backed(s, st),
         Passes(f, s, StageData(st, jb, rq))
  PROVE  Backed(f[10], st)
  <1> DEFINE P(x) == x \in Stages /\ Backed(x, st)
  <1>1. ASSUME NEW n \in 1..10, P(f[n - 1]) PROVE P(f[n])
    <2>1. f[n] = ResolveNextStage(f[n - 1], StageData(st, jb, rq)) BY DEF Passes
    <2> QED BY <1>1, <2>1, ResolveTyped, PassBacked
  <1>2. P(f[0]) BY DEF Passes
  <1> HIDE DEF P
  <1>3. P(f[1]) BY <1>1, <1>2
  <1>4. P(f[2]) BY <1>1, <1>3
  <1>5. P(f[3]) BY <1>1, <1>4
  <1>6. P(f[4]) BY <1>1, <1>5
  <1>7. P(f[5]) BY <1>1, <1>6
  <1>8. P(f[6]) BY <1>1, <1>7
  <1>9. P(f[7]) BY <1>1, <1>8
  <1>10. P(f[8]) BY <1>1, <1>9
  <1>11. P(f[9]) BY <1>1, <1>10
  <1>12. P(f[10]) BY <1>1, <1>11
  <1> QED BY <1>12 DEF P

LEMMA DataTyped ==
  ASSUME NEW st, NEW jb, NEW rq
  PROVE  /\ StageData(st, jb, rq) \in DataType
         /\ ~(StageData(st, jb, rq).accepted /\ StageData(st, jb, rq).rejected)
  BY DEF StageData, DataType

\* Ten passes are enough, and they invent nothing.
LEMMA SettleRests ==
  ASSUME NEW s \in Stages, NEW st, NEW jb, NEW rq
  PROVE  LET next == Settle(s, StageData(st, jb, rq)) IN
         /\ next \in Stages
         /\ Rests(next, StageData(st, jb, rq))
         /\ Backed(s, st) => Backed(next, st)
  <1> DEFINE d == StageData(st, jb, rq)
  <1>1. PICK f : Passes(f, s, d) /\ Settle(s, d) = f[10] BY SettleUnrolls DEF Passes
  <1>2. f[10] \in Stages /\ Rests(f[10], d) BY <1>1, DataTyped, PassesRest
  <1>3. Backed(s, st) => Backed(f[10], st) BY <1>1, PassesBacked
  <1> QED BY <1>1, <1>2, <1>3

\* Jobs that stop being pending and documents that stop being reviewed move no stage.
LEMMA RestsOn ==
  ASSUME NEW s, NEW st, NEW jb, NEW rq, NEW jb2, NEW rq2,
         Rests(s, StageData(st, jb, rq)),
         \A d \in Docs : jb2[d].status = "pending" => jb[d].status = "pending",
         jb2["bank"].status = "pending" => jb["bank"].status = "pending",
         \A d \in Docs : rq2[d] \in {"accepted", "rejected"} => rq2[d] = rq[d]
  PROVE  Rests(s, StageData(st, jb2, rq2))
  BY ProcessingAssumption DEF Rests, StageData

-----------------------------------------------------------------------------
(* Types *)

Ops == {"createOcr", "accept", "reject", "retry", "ocrDone", "ocrFail", "createBank",
        "bankDone", "bankFail", "advance", "upload"}
CallState == [op : { o[1] : o \in Operations } \cup {"none"}, j : Jobs,
              pc : {"idle", "lock", "read", "close", "update", "touch", "advance", "commit"},
              held : SUBSET Rows, write : BOOLEAN, part : Parts, next : Stages,
              fresh : BOOLEAN]
JobState == [status : JobStatus, retries : Nat, forced : Nat]

LEMMA OperationsKnown ==
  ASSUME NEW o \in Operations
  PROVE  /\ o[1] \in Ops /\ o[2] \in Jobs
         /\ o[1] \in {"createOcr", "accept", "reject", "upload"} => o[2] \in Docs
         /\ o[1] \in {"createBank", "bankDone", "bankFail"} => o[2] = "bank"
  BY DEF Operations, Retries, Ops, Jobs

LEMMA IdleTyped == Idle \in CallState
  BY DEF Idle, CallState, Jobs, Stages, Rows, Parts

LEMMA RowsDistinct ==
  ASSUME NEW x, NEW y
  PROVE  /\ JobRow(x) = JobRow(y) => x = y
         /\ JobRow(x) # DocRow(y) /\ JobRow(x) # ReqRow(y) /\ JobRow(x) # App
         /\ DocRow(x) # App /\ ReqRow(x) # App /\ DocRow(x) # ReqRow(y)
         /\ DocRow(x) = DocRow(y) => x = y
  BY DEF JobRow, DocRow, ReqRow, App

\* What happens to a job row: its status changes, and a retry is counted.
LEMMA RowWrites ==
  ASSUME NEW r \in JobState, NEW n \in {0, 1}
  PROVE  /\ Reopened(r, n) \in JobState /\ Reopened(r, n).status = "pending"
         /\ Reopened(r, n).retries = r.retries + 1 /\ Reopened(r, n).forced = r.forced + n
         /\ [r EXCEPT !.status = "pending"] \in JobState
         /\ [r EXCEPT !.status = "pending"].status = "pending"
         /\ [r EXCEPT !.status = "pending"].retries = r.retries
         /\ [r EXCEPT !.status = "pending"].forced = r.forced
         /\ \A st \in {"completed", "failed"} :
              /\ Closed(r, st) \in JobState
              /\ Closed(r, st).retries = r.retries /\ Closed(r, st).forced = r.forced
              /\ Closed(r, st).status = IF r.status = "pending" THEN st ELSE r.status
  <1>1. r.status \in JobStatus /\ r.retries \in Nat /\ r.forced \in Nat /\ n \in Nat
    BY DEF JobState
  <1>2. r.retries + 1 \in Nat /\ r.forced + n \in Nat BY <1>1
  <1>3. Reopened(r, n) = [r EXCEPT !.status = "pending", !.retries = r.retries + 1,
                                   !.forced = r.forced + n]
    BY DEF Reopened
  <1>4. /\ Reopened(r, n) \in JobState /\ Reopened(r, n).status = "pending"
        /\ Reopened(r, n).retries = r.retries + 1 /\ Reopened(r, n).forced = r.forced + n
    <2> HIDE DEF JobStatus
    <2>1. "pending" \in JobStatus BY DEF JobStatus
    <2> QED BY <1>1, <1>2, <1>3, <2>1 DEF JobState
  <1>5. /\ [r EXCEPT !.status = "pending"] \in JobState
        /\ [r EXCEPT !.status = "pending"].status = "pending"
        /\ [r EXCEPT !.status = "pending"].retries = r.retries
        /\ [r EXCEPT !.status = "pending"].forced = r.forced
    BY DEF JobState, JobStatus
  <1>6. \A st \in {"completed", "failed"} :
              /\ Closed(r, st) \in JobState
              /\ Closed(r, st).retries = r.retries /\ Closed(r, st).forced = r.forced
              /\ Closed(r, st).status = IF r.status = "pending" THEN st ELSE r.status
    BY DEF JobState, JobStatus, Closed
  <1> QED BY <1>4, <1>5, <1>6

LEMMA WritesTyped ==
  ASSUME TypeOK, NEW c \in Calls
  PROVE  /\ JobAfter(c) \in [Jobs -> JobState]
         /\ StampsAfter(c) \subseteq {"ocr", "bank", "credit"}
         /\ call[c].op \in {"accept", "reject", "upload"} /\ call[c].j \in Docs
                => ReqAfter(c) \in [Docs -> {"missing", "uploaded", "accepted", "rejected"}]
  <1>1. ASSUME NEW k \in Jobs PROVE JobAfter(c)[k] \in JobState
    <2>1. job[k] \in JobState BY DEF TypeOK, JobState
    <2>2. /\ Reopened(job[k], 1) \in JobState /\ Reopened(job[k], 0) \in JobState
          /\ [job[k] EXCEPT !.status = "pending"] \in JobState
          /\ \A st \in {"completed", "failed"} : Closed(job[k], st) \in JobState
      BY <2>1, RowWrites
    <2> QED BY <2>1, <2>2 DEF JobAfter
  <1>2. JobAfter(c) \in [Jobs -> JobState] BY <1>1 DEF JobAfter
  <1>3. StampsAfter(c) \subseteq {"ocr", "bank", "credit"} BY DEF StampsAfter, TypeOK
  <1>4. call[c].op \in {"accept", "reject", "upload"} /\ call[c].j \in Docs
          => ReqAfter(c) \in [Docs -> {"missing", "uploaded", "accepted", "rejected"}]
    BY DEF ReqAfter, TypeOK
  <1> QED BY <1>2, <1>3, <1>4

-----------------------------------------------------------------------------
(* The invariant *)

Creators == {"createOcr", "createBank"}
Quiet == {"ocrFail", "bankFail", "retry", "upload"}
Closers == {"ocrDone", "ocrFail"}
Partless == {"ocrFail", "bankFail", "retry", "advance"}

\* What a call holds and has done, by the statement it stands at.
Sound(r) ==
  /\ r.pc \in {"idle", "lock"} => r.held = {} /\ r.write = FALSE /\ r.fresh = FALSE
  /\ r.op \in {"createOcr", "accept", "reject", "upload"} => r.j \in Docs
  /\ r.op \in {"createBank", "bankDone", "bankFail"} => r.j = "bank"
  /\ r.pc # "idle" => r.op \in Ops
  /\ r.pc \in {"read", "update"} => r.op \in Creators
  /\ r.pc = "close" => r.op \in Closers /\ r.held \subseteq { JobRow(d) : d \in Docs }
  /\ r.pc = "touch" => r.op \notin Partless
  /\ r.op = "upload" /\ r.pc = "touch" => r.held = {}
  /\ r.pc = "advance" => r.op \notin Quiet
  /\ r.op = "advance" => r.pc # "lock" /\ (r.pc = "advance" => r.held = {})
  /\ r.part # "none" => \/ r.op = "upload"
                        \/ r.op \notin Partless /\ r.pc \in {"touch", "advance", "commit"}
  /\ r.op \in Creators /\ r.pc \in {"read", "update", "touch", "advance", "commit"}
       => (IF r.op = "createOcr" THEN DocRow(r.j) ELSE App) \in r.held
  /\ r.write = TRUE <=> r.op \in Creators /\ r.pc \in {"update", "touch", "advance", "commit"}
  /\ r.op = "createOcr" /\ r.pc \in {"read", "update"} => r.held = { DocRow(r.j) }
  /\ r.op = "createBank" /\ r.pc \in {"read", "update"} => r.held = {App}
  /\ r.op \in {"bankDone", "bankFail", "retry"} /\ r.pc \in {"touch", "advance", "commit"}
       => JobRow(r.j) \in r.held
  /\ r.op # "createBank" /\ r.pc \in {"read", "update", "close", "touch", "advance"}
       => App \notin r.held
  /\ r.pc = "commit" /\ r.op \notin Quiet => App \in r.held
  /\ r.fresh = TRUE => r.pc = "commit" /\ r.op \notin Quiet
  /\ \A k \in Jobs : JobRow(k) \in r.held =>
       \/ r.op \in {"bankDone", "bankFail", "retry"}
       \/ r.op \in {"ocrDone", "ocrFail"} /\ k \in Docs
       \/ r.op \in Creators /\ k = r.j /\ r.write = TRUE

Exclusive == \A c, d \in Calls : c # d => call[c].held \cap call[d].held = {}

\* What a call may rely on until it commits.
Covered(c) ==
  call[c].write = TRUE /\ job[call[c].j].status # "none"
    => job[call[c].j].retries < MaxRetries(call[c].j) + job[call[c].j].forced
BankOpen(c) ==
  call[c].write = TRUE /\ call[c].op = "createBank" => job["bank"].status # "completed"
JobStands(c) ==
  call[c].op = "retry" /\ call[c].pc = "commit" => job[call[c].j].status # "none"
NextSettled(c) ==
  /\ call[c].pc = "commit" /\ Advances(c) => call[c].fresh = TRUE \/ lagging = TRUE
  /\ call[c].fresh = TRUE
       => Rests(call[c].next, StageData(StampsAfter(c), JobAfter(c), ReqAfter(c)))
NextBacked(c) ==
  call[c].pc = "commit" /\ Advances(c) => Backed(call[c].next, StampsAfter(c))

\* A call that closes OCR jobs holds one of them.
Closing(c) ==
  call[c].pc = "close" => \E d \in Docs : JobRow(d) \in call[c].held /\ job[d].status # "none"

CallInv(c) ==
  /\ Sound(call[c]) /\ Covered(c) /\ BankOpen(c) /\ JobStands(c)
  /\ NextSettled(c) /\ NextBacked(c) /\ Closing(c)

\* The first lock of a closing call takes every OCR job there is.
OneCloser ==
  \A c, x \in Calls : call[c].pc = "close" /\ call[x].pc = "close" => c = x

PInv == /\ TypeOK /\ Exclusive /\ \A c \in Calls : CallInv(c)
        /\ StageSettled /\ StageBacked /\ RetryLimit /\ OneCloser

LEMMA SoundIdle == Sound(Idle)
  BY DEF Sound, Idle, Creators, Ops, Closers, Partless

LEMMA TypeCall == TypeOK => /\ call \in [Calls -> CallState] /\ job \in [Jobs -> JobState]
                            /\ stage \in Stages /\ stamps \subseteq {"ocr", "bank", "credit"}
  BY DEF TypeOK, CallState, JobState

LEMMA JobNames == Docs \subseteq Jobs /\ "bank" \in Jobs /\ "credit" \in Jobs
                  /\ "bank" \notin Docs /\ "credit" \notin Docs
  BY ProcessingAssumption DEF Jobs

-----------------------------------------------------------------------------
(* The steps that write no row *)

\* What a step before the commit makes of its call.
Moved(c, r) ==
  /\ call' = [call EXCEPT ![c] = r] /\ UNCHANGED Rest
  /\ r \in CallState /\ Sound(r)
  /\ r.held \subseteq call[c].held \cup Wanted(c)
  /\ r.held \subseteq call[c].held \/ Available(c)
  /\ \/ r.pc \in {"idle", "lock"}
     \/ r.pc \in {"read", "close", "touch", "advance", "commit"}
        /\ r.write = FALSE /\ r.fresh = FALSE
        /\ (r.pc = "commit" => r.op \in Quiet)
        /\ (r.op = "retry" => job[r.j].status # "none")
     \/ r.write = TRUE /\ r.op = call[c].op /\ r.j = call[c].j /\ r.fresh = FALSE
        /\ r.pc # "commit"
        /\ \/ job[r.j].status = "none"
           \/ job[r.j].status = "failed" /\ job[r.j].retries < MaxRetries(r.j)
           \/ call[c].write = TRUE
     \/ r.pc = "commit" /\ r.op = call[c].op /\ r.j = call[c].j /\ r.write = call[c].write
        /\ r.op \notin Quiet /\ r.fresh = TRUE /\ r.held = call[c].held \cup {App}
        /\ r.next = Settle(stage, StageData(StampsAfter(c), JobAfter(c), ReqAfter(c)))
  /\ r.pc = "close" =>
       /\ \A d \in Docs : job[d].status # "none" => JobRow(d) \in r.held
       /\ \E d \in Docs : job[d].status # "none"

Moves(c) ==
  \/ LockRows(c) \/ NotFound(c) \/ ReadNoJob(c) \/ ReadFailedJob(c) \/ ReadNothingToDo(c)
  \/ UpdateJob(c) \/ CloseRows(c) \/ TouchApplication(c) \/ Advance(c)
  \/ DeadlockVictim(c) \/ Fault(c)
  \/ \E o \in Operations : Start(c, o)
  \/ \E d \in Docs, part \in {"none", "share"} : StartUpload(c, d, part)

LEMMA MoveToIdle ==
  ASSUME NEW c \in Calls, End(c), UNCHANGED Rest
  PROVE  Moved(c, Idle)
  <1>1. Idle.pc = "idle" /\ Idle.held = {} BY DEF Idle
  <1> QED BY <1>1, SoundIdle, IdleTyped DEF Moved, End

LEMMA MoveStart ==
  ASSUME NEW c \in Calls, NEW o \in Operations, Start(c, o)
  PROVE  \E r : Moved(c, r)
  <1> DEFINE pc == IF o[1] = "advance" THEN "advance" ELSE "lock"
             r == [Idle EXCEPT !.op = o[1], !.j = o[2], !.pc = pc]
  <1>1. o[1] \in Ops /\ o[2] \in Jobs BY OperationsKnown
  <1>2. /\ r.op = o[1] /\ r.j = o[2] /\ r.pc = pc /\ r.held = {} /\ r.write = FALSE
        /\ r.fresh = FALSE /\ r.part = "none"
    BY DEF Idle
  <1>3. r \in CallState BY <1>1, IdleTyped DEF CallState
  <1>4. call' = [call EXCEPT ![c] = r] /\ UNCHANGED Rest BY DEF Start
  <1>5. \/ pc = "lock" /\ r.op # "advance"
        \/ pc = "advance" /\ r.op = "advance"
    BY <1>2
  <1> HIDE DEF r, pc
  <1>6. Sound(r) BY <1>1, <1>2, <1>5, OperationsKnown DEF Sound, Ops, Creators, Quiet
  <1> QED BY <1>2, <1>3, <1>4, <1>5, <1>6 DEF Moved

LEMMA MoveStartUpload ==
  ASSUME NEW c \in Calls, NEW d \in Docs, NEW part \in {"none", "share"},
         StartUpload(c, d, part)
  PROVE  \E r : Moved(c, r)
  <1> DEFINE r == [Idle EXCEPT !.op = "upload", !.j = d, !.part = part, !.pc = "touch"]
  <1>1. << "upload", d >> \in Operations BY DEF Operations
  <1>2. "upload" \in { o[1] : o \in Operations }
    <2>1. << "upload", d >>[1] = "upload" OBVIOUS
    <2> QED BY <1>1, <2>1
  <1>3. d \in Jobs /\ part \in Parts BY JobNames DEF Parts
  <1>4. /\ r.op = "upload" /\ r.j = d /\ r.pc = "touch" /\ r.held = {} /\ r.write = FALSE
        /\ r.fresh = FALSE
    BY DEF Idle
  <1>5. r \in CallState
    <2> HIDE DEF Operations
    <2> QED BY <1>2, <1>3, IdleTyped DEF CallState
  <1>6. call' = [call EXCEPT ![c] = r] /\ UNCHANGED Rest BY DEF StartUpload
  <1> HIDE DEF r
  <1>7. Sound(r) BY <1>4 DEF Sound, Ops, Creators, Partless
  <1> QED BY <1>4, <1>5, <1>6, <1>7 DEF Moved

LEMMA RowsTyped ==
  ASSUME TypeOK, NEW c \in Calls, Sound(call[c])
  PROVE  Wanted(c) \subseteq Rows
  <1>1. call[c].j \in Jobs /\ Docs \subseteq Jobs BY TypeCall, JobNames DEF CallState
  <1>2. /\ \A d \in Docs : DocRow(d) \in Rows /\ ReqRow(d) \in Rows
        /\ \A j \in Jobs : JobRow(j) \in Rows
        /\ App \in Rows
    BY DEF Rows
  <1>3. call[c].op \in {"createOcr", "accept", "reject", "upload"} => call[c].j \in Docs
    BY DEF Sound
  <1>4. call[c].pc = "lock" => call[c].op \in Ops \ {"advance"} BY DEF Sound
  <1>5. CASE call[c].pc = "lock"
    <2>1. CASE call[c].op = "upload"
      <3>1. FirstRows(c) \subseteq { ReqRow(call[c].j), DocRow(call[c].j) }
        BY <2>1 DEF FirstRows
      <3> QED BY <1>2, <1>3, <1>5, <2>1, <3>1 DEF Wanted
    <2>2. CASE call[c].op # "upload"
      <3>1. FirstRows(c) \subseteq Rows
        BY <1>1, <1>2, <1>3, <1>4, <1>5, <2>2 DEF FirstRows, CreatorRows, Ops
      <3> QED BY <1>5, <3>1 DEF Wanted
    <2> QED BY <2>1, <2>2
  <1>6. CASE call[c].pc # "lock"
    BY <1>1, <1>2, <1>6 DEF Wanted
  <1> QED BY <1>5, <1>6

LEMMA MoveLock ==
  ASSUME TypeOK, NEW c \in Calls, Sound(call[c]), LockRows(c)
  PROVE  \E r : Moved(c, r)
  <1>1. call[c] \in CallState BY TypeCall
  <1>2. /\ call[c].pc = "lock" /\ Available(c) /\ Wanted(c) = FirstRows(c)
        /\ call[c].write = FALSE /\ call[c].fresh = FALSE /\ call[c].held = {}
        /\ call[c].op \in Ops /\ call[c].part \in Parts
    BY <1>1 DEF LockRows, Wanted, Sound, CallState
  <1>3. PICK part \in Parts :
          /\ call' = [call EXCEPT ![c] = [call[c] EXCEPT !.held = FirstRows(c), !.part = part,
                                                         !.pc = AfterLock(c)]]
          /\ AfterLock(c) # "touch" => part = call[c].part
          /\ UNCHANGED Rest
    <2>1. Touches(c) \subseteq Parts BY DEF Touches, Parts
    <2> QED BY <1>2, <2>1 DEF LockRows
  <1> DEFINE pc == AfterLock(c)
             r == [call[c] EXCEPT !.held = FirstRows(c), !.part = part, !.pc = pc]
  <1>4. /\ call[c].op \in Creators => pc = "read"
        /\ call[c].op \in Closers => pc = "close"
        /\ call[c].op \in {"bankDone", "accept", "reject"} => pc = "touch"
        /\ call[c].op \in {"bankFail", "retry", "upload", "advance"} => pc = "commit"
        /\ pc \in {"read", "close", "touch", "commit"}
    BY DEF AfterLock, Creators, Closers
  <1>5. FirstRows(c) \subseteq Rows BY <1>2, RowsTyped
  <1>6. r \in CallState
    <2> HIDE DEF pc
    <2> QED BY <1>1, <1>4, <1>5 DEF CallState
  <1>7. /\ r.op = call[c].op /\ r.j = call[c].j /\ r.held = FirstRows(c) /\ r.write = FALSE
        /\ r.fresh = FALSE /\ r.next = call[c].next /\ r.pc = pc /\ r.part = part
        /\ call' = [call EXCEPT ![c] = r]
    <2>1. call' = [call EXCEPT ![c] = r] BY <1>3
    <2> HIDE DEF pc
    <2>2. /\ r.op = call[c].op /\ r.j = call[c].j /\ r.held = FirstRows(c)
          /\ r.next = call[c].next /\ r.pc = pc /\ r.part = part
          /\ r.write = call[c].write /\ r.fresh = call[c].fresh
      BY <1>1 DEF CallState
    <2> HIDE DEF r
    <2> QED BY <1>2, <2>1, <2>2
  <1> HIDE DEF r
  <1>8. call[c].op # "advance" BY <1>2 DEF Sound
  <1>9. r.op \in {"bankDone", "bankFail", "retry"}
          => job[r.j].status # "none" /\ r.held = { JobRow(r.j) }
    BY <1>2, <1>7 DEF LockRows, FirstRows
  <1>10. r.op \in Closers =>
           /\ r.held = { JobRow(d) : d \in { x \in Docs : job[x].status # "none" } }
           /\ r.held # {}
    BY <1>2, <1>7 DEF LockRows, FirstRows, Closers
  <1>11. r.op = "createOcr" => r.held = { DocRow(r.j) }
    BY <1>2, <1>7 DEF FirstRows, CreatorRows
  <1>12. r.op = "createBank" => r.held = {App}
    BY <1>2, <1>7 DEF FirstRows, CreatorRows
  <1>13. r.op \in {"accept", "reject", "upload"}
           => r.held \subseteq { DocRow(r.j), ReqRow(r.j) }
    BY <1>2, <1>7 DEF FirstRows
  <1>14. \A k \in Jobs : JobRow(k) \in r.held =>
           \/ r.op \in {"bankDone", "bankFail", "retry"}
           \/ r.op \in {"ocrDone", "ocrFail"} /\ k \in Docs
    <2> SUFFICES ASSUME NEW k \in Jobs, JobRow(k) \in r.held
                 PROVE  \/ r.op \in {"bankDone", "bankFail", "retry"}
                        \/ r.op \in {"ocrDone", "ocrFail"} /\ k \in Docs
      OBVIOUS
    <2>1. r.op # "createOcr" BY <1>11, RowsDistinct
    <2>2. r.op # "createBank" BY <1>12, RowsDistinct
    <2>3. r.op \notin {"accept", "reject", "upload"} BY <1>13, RowsDistinct
    <2>4. r.op \in Closers => k \in Docs BY <1>10, RowsDistinct
    <2> QED BY <1>2, <1>7, <1>8, <2>1, <2>2, <2>3, <2>4 DEF Ops, Closers
  <1>15. r.op # "createBank" => App \notin r.held
    <2>1. r.op \in Closers => App \notin r.held BY <1>10, RowsDistinct
    <2>2. r.op \in {"bankDone", "bankFail", "retry"} => App \notin r.held
      BY <1>9, RowsDistinct
    <2>3. r.op \in {"createOcr", "accept", "reject", "upload"} => App \notin r.held
      BY <1>11, <1>13, RowsDistinct
    <2> QED BY <1>2, <1>7, <1>8, <2>1, <2>2, <2>3 DEF Ops, Closers
  <1>16. r.pc = "close" =>
           /\ r.op \in Closers /\ r.held \subseteq { JobRow(d) : d \in Docs }
           /\ \A d \in Docs : job[d].status # "none" => JobRow(d) \in r.held
           /\ \E d \in Docs : job[d].status # "none"
    <2>1. r.pc = "close" => r.op \in Closers
      BY <1>2, <1>4, <1>7, <1>8 DEF Ops, Creators, Closers
    <2> QED BY <1>10, <2>1
  <1>17. part # "none" => r.op = "upload" \/ (r.op \notin Partless /\ r.pc = "touch")
    <2>1. r.pc # "touch" => part = call[c].part BY <1>3, <1>7
    <2>2. call[c].part # "none" => r.op = "upload" BY <1>2, <1>7 DEF Sound
    <2>3. r.pc = "touch" => r.op \notin Partless
      BY <1>2, <1>4, <1>7 DEF Ops, Creators, Closers, Partless
    <2> QED BY <2>1, <2>2, <2>3
  <1>18. Sound(r)
    <2>1. /\ r.op \in {"createOcr", "accept", "reject", "upload"} => r.j \in Docs
          /\ r.op \in {"createBank", "bankDone", "bankFail"} => r.j = "bank"
      BY <1>7 DEF Sound
    <2>2. r.op \in Creators => (IF r.op = "createOcr" THEN DocRow(r.j) ELSE App) \in r.held
      BY <1>11, <1>12 DEF Creators
    <2>3. /\ r.pc = "read" => r.op \in Creators
          /\ r.pc = "touch" => r.op \in {"bankDone", "accept", "reject"}
          /\ r.pc = "commit" => r.op \in Quiet
          /\ r.pc \notin {"idle", "lock", "update", "advance"}
          /\ r.op \in Creators => r.pc = "read"
      BY <1>2, <1>4, <1>7, <1>8 DEF Ops, Creators, Closers, Quiet
    <2>4. r.pc = "touch" => r.op \notin Partless /\ r.op # "upload"
      BY <2>3 DEF Partless
    <2>5. r.op \in {"bankDone", "bankFail", "retry"} => JobRow(r.j) \in r.held BY <1>9
    <2> QED BY <1>2, <1>7, <1>11, <1>12, <1>14, <1>15, <1>16, <1>17,
               <2>1, <2>2, <2>3, <2>4, <2>5 DEF Sound
  <1>19. r.op = "retry" => job[r.j].status # "none" BY <1>9
  <1>20. r.pc = "commit" => r.op \in Quiet
    BY <1>2, <1>4, <1>7, <1>8 DEF Ops, Creators, Closers, Quiet
  <1>21. /\ r.held \subseteq call[c].held \cup Wanted(c)
         /\ r.held \subseteq call[c].held \/ Available(c)
         /\ r.pc \in {"read", "close", "touch", "advance", "commit"}
    BY <1>2, <1>4, <1>7
  <1> QED
    BY <1>3, <1>6, <1>7, <1>16, <1>18, <1>19, <1>20, <1>21 DEF Moved

LEMMA MoveClose ==
  ASSUME TypeOK, NEW c \in Calls, Sound(call[c]), CloseRows(c)
  PROVE  \E r : Moved(c, r)
  <1>1. call[c] \in CallState BY TypeCall
  <1>2. /\ call[c].pc = "close" /\ Available(c) /\ call[c].op \in Closers
        /\ Wanted(c) = { JobRow(d) : d \in { x \in Docs : job[x].status = "pending" } }
        /\ call[c].write = FALSE
    BY <1>1 DEF CloseRows, Wanted, Sound, CallState
  <1> DEFINE pc == IF call[c].op = "ocrDone" THEN "touch" ELSE "commit"
  <1>3. PICK part \in Touches(c) :
          /\ call' = [call EXCEPT ![c] = [call[c] EXCEPT !.held = call[c].held \cup Wanted(c),
                                                         !.part = part, !.pc = pc]]
          /\ UNCHANGED Rest
    BY DEF CloseRows
  <1> DEFINE r == [call[c] EXCEPT !.held = call[c].held \cup Wanted(c), !.part = part, !.pc = pc]
  <1>4. part \in Parts /\ (call[c].op = "ocrFail" => part = "none")
    BY DEF Touches, Parts
  <1>5. Wanted(c) \subseteq Rows BY RowsTyped
  <1>6. /\ r.op = call[c].op /\ r.j = call[c].j /\ r.held = call[c].held \cup Wanted(c)
        /\ r.write = FALSE /\ r.fresh = call[c].fresh /\ r.pc = pc /\ r.part = part
        /\ r \in CallState /\ call' = [call EXCEPT ![c] = r]
    BY <1>1, <1>2, <1>3, <1>4, <1>5 DEF CallState
  <1>7. \/ r.op = "ocrDone" /\ r.pc = "touch"
        \/ r.op = "ocrFail" /\ r.pc = "commit" /\ r.part = "none"
    BY <1>2, <1>4, <1>6 DEF Closers
  <1> HIDE DEF r, pc
  <1>8. r.fresh = FALSE BY <1>1, <1>2, <1>6 DEF Sound, CallState
  <1>9. \A k \in Jobs : JobRow(k) \in r.held => k \in Docs
    BY <1>2, <1>6, RowsDistinct DEF Sound
  <1>10. App \notin r.held BY <1>2, <1>6, RowsDistinct DEF Sound
  <1>11. Sound(r)
    BY <1>6, <1>7, <1>8, <1>9, <1>10 DEF Sound, Creators, Quiet, Ops, Partless
  <1>12. r.pc = "commit" => r.op \in Quiet BY <1>7 DEF Quiet
  <1> QED BY <1>2, <1>3, <1>6, <1>7, <1>8, <1>11, <1>12 DEF Moved

LEMMA MoveTouch ==
  ASSUME TypeOK, NEW c \in Calls, Sound(call[c]), TouchApplication(c)
  PROVE  \E r : Moved(c, r)
  <1> DEFINE pc == IF call[c].op = "upload" THEN "lock" ELSE "advance"
             r == [call[c] EXCEPT !.pc = pc]
  <1>1. call[c] \in CallState BY TypeCall
  <1>2. call[c].pc = "touch" /\ call' = [call EXCEPT ![c] = r] /\ UNCHANGED Rest
    BY DEF TouchApplication
  <1>3. /\ r \in CallState /\ r.pc = pc /\ r.op = call[c].op /\ r.j = call[c].j
        /\ r.held = call[c].held /\ r.write = call[c].write /\ r.fresh = call[c].fresh
        /\ r.part = call[c].part
    BY <1>1 DEF CallState
  <1>4. \/ r.op = "upload" /\ r.pc = "lock" /\ r.held = {}
        \/ r.op # "upload" /\ r.pc = "advance"
    BY <1>2, <1>3 DEF Sound
  <1> HIDE DEF r, pc
  <1>5. r.fresh = FALSE /\ (r.write = FALSE \/ r.write = TRUE)
    BY <1>1, <1>2, <1>3 DEF Sound, CallState
  <1>6. r.op \notin Partless /\ (r.op = "upload" => r.write = FALSE)
    BY <1>2, <1>3, <1>5 DEF Sound, Creators
  <1>7. Sound(r)
    BY <1>2, <1>3, <1>4, <1>5, <1>6 DEF Sound, Creators, Quiet, Partless
  <1>8. r.op # "retry" BY <1>6 DEF Partless
  <1> QED BY <1>2, <1>3, <1>4, <1>5, <1>7, <1>8 DEF Moved

LEMMA MoveRead ==
  ASSUME TypeOK, NEW c \in Calls, Sound(call[c]), ReadNoJob(c) \/ ReadFailedJob(c)
  PROVE  \E r : Moved(c, r)
  <1>1. call[c] \in CallState BY TypeCall
  <1>2. PICK pc \in {"update", "touch"}, part \in Parts :
          /\ call' = [call EXCEPT ![c] = [call[c] EXCEPT !.pc = pc, !.write = TRUE, !.part = part]]
          /\ \/ pc = "touch" /\ job[call[c].j].status = "none"
             \/ pc = "update" /\ job[call[c].j].status = "failed" /\ part = call[c].part
                /\ job[call[c].j].retries < MaxRetries(call[c].j)
          /\ call[c].pc = "read" /\ UNCHANGED Rest
    <2>1. Touches(c) \subseteq Parts BY DEF Touches, Parts
    <2>2. CASE ReadNoJob(c) BY <2>1, <2>2 DEF ReadNoJob
    <2>3. CASE ReadFailedJob(c)
      <3>1. [call[c] EXCEPT !.pc = "update", !.write = TRUE]
              = [call[c] EXCEPT !.pc = "update", !.write = TRUE, !.part = call[c].part]
        BY <1>1 DEF CallState
      <3>2. call[c].part \in Parts BY <1>1 DEF CallState
      <3> QED BY <2>3, <3>1, <3>2 DEF ReadFailedJob
    <2> QED BY <2>2, <2>3
  <1> DEFINE r == [call[c] EXCEPT !.pc = pc, !.write = TRUE, !.part = part]
  <1>3. /\ r \in CallState /\ r.pc = pc /\ r.write = TRUE /\ r.part = part
        /\ r.op = call[c].op /\ r.j = call[c].j /\ r.held = call[c].held
        /\ r.fresh = call[c].fresh /\ call' = [call EXCEPT ![c] = r]
    BY <1>1, <1>2 DEF CallState
  <1> HIDE DEF r
  <1>4. r.fresh = FALSE BY <1>1, <1>2, <1>3 DEF Sound, CallState
  <1>5. r.op \in Creators BY <1>2, <1>3 DEF Sound
  <1>6. r.op \notin Partless /\ r.op # "upload" BY <1>5 DEF Creators, Partless
  <1>7. call[c].part = "none" BY <1>2, <1>3, <1>6 DEF Sound
  <1>8. Sound(r)
    BY <1>2, <1>3, <1>4, <1>5, <1>6, <1>7 DEF Sound, Creators, Quiet
  <1>9. /\ r.held \subseteq call[c].held /\ r.pc \notin {"commit", "close"} /\ UNCHANGED Rest
        /\ \/ job[r.j].status = "none"
           \/ job[r.j].status = "failed" /\ job[r.j].retries < MaxRetries(r.j)
    BY <1>2, <1>3
  <1>10. Moved(c, r) BY <1>3, <1>4, <1>8, <1>9 DEF Moved
  <1> QED BY <1>10

LEMMA MoveUpdate ==
  ASSUME TypeOK, NEW c \in Calls, Sound(call[c]), UpdateJob(c)
  PROVE  \E r : Moved(c, r)
  <1> DEFINE r == [call[c] EXCEPT !.held = call[c].held \cup { JobRow(call[c].j) },
                                  !.pc = "advance"]
  <1>1. call[c] \in CallState BY TypeCall
  <1>2. /\ call[c].pc = "update" /\ Available(c) /\ Wanted(c) = { JobRow(call[c].j) }
        /\ UNCHANGED Rest
    BY DEF UpdateJob, Wanted
  <1>2a. call' = [call EXCEPT ![c] = r]
    BY DEF UpdateJob
  <1>3. JobRow(call[c].j) \in Rows BY <1>1 DEF CallState, Rows
  <1>4. /\ r \in CallState /\ r.pc = "advance" /\ r.write = call[c].write
        /\ r.op = call[c].op /\ r.j = call[c].j /\ r.held = call[c].held \cup Wanted(c)
        /\ r.fresh = call[c].fresh /\ r.part = call[c].part
    BY <1>1, <1>2, <1>3 DEF CallState
  <1> HIDE DEF r
  <1>5. call[c].op \in Creators /\ call[c].write = TRUE BY <1>2 DEF Sound
  <1>6. r.fresh = FALSE BY <1>1, <1>2, <1>4 DEF Sound, CallState
  <1>7. App \notin Wanted(c) BY <1>2, RowsDistinct
  <1>8. \A k \in Jobs : JobRow(k) \in r.held => JobRow(k) \in call[c].held \/ k = r.j
    BY <1>2, <1>4, RowsDistinct
  <1>9. Sound(r)
    BY <1>2, <1>4, <1>5, <1>6, <1>7, <1>8 DEF Sound, Creators, Quiet, Partless
  <1> QED BY <1>2, <1>2a, <1>4, <1>5, <1>6, <1>9 DEF Moved

LEMMA MoveAdvance ==
  ASSUME TypeOK, NEW c \in Calls, Sound(call[c]), Advance(c)
  PROVE  \E r : Moved(c, r)
  <1> DEFINE n == Settle(stage, StageData(StampsAfter(c), JobAfter(c), ReqAfter(c)))
             r == [call[c] EXCEPT !.held = call[c].held \cup {App}, !.pc = "commit",
                                  !.fresh = TRUE, !.next = n]
  <1>1. call[c] \in CallState /\ stage \in Stages BY TypeCall
  <1>2. /\ call[c].pc = "advance" /\ Available(c) /\ Wanted(c) = {App}
        /\ UNCHANGED Rest
    BY DEF Advance, Wanted
  <1>2a. call' = [call EXCEPT ![c] = r]
    BY DEF Advance
  <1>3. n \in Stages BY <1>1, SettleRests
  <1>4. App \in Rows BY DEF Rows
  <1> HIDE DEF n
  <1>5. /\ r \in CallState /\ r.pc = "commit" /\ r.write = call[c].write
        /\ r.op = call[c].op /\ r.j = call[c].j /\ r.held = call[c].held \cup {App}
        /\ r.fresh = TRUE /\ r.next = n /\ r.part = call[c].part
    BY <1>1, <1>3, <1>4 DEF CallState
  <1> HIDE DEF r
  <1>6. r.op \notin Quiet BY <1>2, <1>5 DEF Sound
  <1>7. \A k \in Jobs : JobRow(k) \in r.held => JobRow(k) \in call[c].held
    BY <1>5, RowsDistinct
  <1>8. Sound(r) BY <1>2, <1>5, <1>6, <1>7 DEF Sound, Creators
  <1> QED BY <1>2, <1>2a, <1>5, <1>6, <1>8 DEF Moved, n

LEMMA MoveEffect ==
  ASSUME TypeOK, NEW c \in Calls, Sound(call[c]), Moves(c)
  PROVE  \E r : Moved(c, r)
  <1>1. CASE NotFound(c) \/ ReadNothingToDo(c) \/ DeadlockVictim(c) \/ Fault(c)
    BY <1>1, MoveToIdle DEF NotFound, ReadNothingToDo, DeadlockVictim, Fault
  <1> QED BY <1>1, MoveStart, MoveStartUpload, MoveLock, MoveClose, MoveTouch, MoveRead, MoveUpdate,
           MoveAdvance DEF Moves

\* What a call would write depends on its own statements and the rows.
LEMMA SameAfter ==
  ASSUME NEW x \in Calls, job' = job, stamps' = stamps, req' = req,
         call'[x].op = call[x].op, call'[x].j = call[x].j, call'[x].write = call[x].write,
         \A k \in Jobs : JobRow(k) \in call'[x].held <=> JobRow(k) \in call[x].held
  PROVE  /\ JobAfter(x)' = JobAfter(x) /\ StampsAfter(x)' = StampsAfter(x)
         /\ ReqAfter(x)' = ReqAfter(x)
  <1>1. JobAfter(x)' = JobAfter(x) BY DEF JobAfter
  <1>2. StampsAfter(x)' = StampsAfter(x) BY DEF StampsAfter
  <1>3. ReqAfter(x)' = ReqAfter(x) BY DEF ReqAfter
  <1> QED BY <1>1, <1>2, <1>3

LEMMA MoveKeeps ==
  ASSUME PInv, NEW c \in Calls, NEW r, Moved(c, r)
  PROVE  PInv'
  <1>1. /\ call' = [call EXCEPT ![c] = r] /\ UNCHANGED Rest /\ r \in CallState /\ Sound(r)
        /\ TypeOK /\ call \in [Calls -> CallState]
    BY TypeCall DEF Moved, PInv
  <1>2. /\ call'[c] = r /\ \A x \in Calls : x # c => call'[x] = call[x]
        /\ call' \in [Calls -> CallState]
    BY <1>1
  <1>3. /\ stage' = stage /\ stamps' = stamps /\ job' = job /\ req' = req /\ lagging' = lagging
    BY <1>1 DEF Rest
  <1>4. TypeOK' BY <1>1, <1>2, <1>3 DEF TypeOK, CallState
  <1>5. Exclusive'
    <2>1. \A x \in Calls : x # c => r.held \cap call[x].held = {}
      BY DEF PInv, Exclusive, Moved, Available, WaitsFor
    <2> QED BY <1>2, <2>1 DEF PInv, Exclusive
  <1>6. StageSettled' /\ StageBacked' /\ RetryLimit'
    BY <1>3 DEF PInv, StageSettled, StageBacked, RetryLimit
  <1>7. ASSUME NEW x \in Calls, x # c PROVE CallInv(x)'
    <2>1. call'[x] = call[x] BY <1>2, <1>7
    <2>2. CallInv(x) BY DEF PInv
    <2>3. /\ JobAfter(x)' = JobAfter(x) /\ StampsAfter(x)' = StampsAfter(x)
          /\ ReqAfter(x)' = ReqAfter(x)
      BY <1>3, <2>1, SameAfter
    <2>4. Sound(call[x])' /\ Covered(x)' /\ BankOpen(x)' /\ JobStands(x)' /\ Closing(x)'
      BY <1>3, <2>1, <2>2 DEF CallInv, Covered, BankOpen, JobStands, Closing, MaxRetries
    <2>5. NextSettled(x)' /\ NextBacked(x)'
      BY <1>3, <2>1, <2>2, <2>3 DEF CallInv, NextSettled, NextBacked, Advances
    <2> QED BY <2>4, <2>5 DEF CallInv
  <1>8. CallInv(c)'
    <2>1. CallInv(c) BY DEF PInv
    <2>2. Sound(call[c])' BY <1>1, <1>2
    <2>3. Covered(c)'
      <3> SUFFICES ASSUME r.write = TRUE, job[r.j].status # "none"
                   PROVE  job[r.j].retries < MaxRetries(r.j) + job[r.j].forced
        BY <1>2, <1>3 DEF Covered, MaxRetries
      <3>1. \/ job[r.j].status = "failed" /\ job[r.j].retries < MaxRetries(r.j)
            \/ call[c].write = TRUE /\ r.j = call[c].j
        BY <1>1 DEF Moved, Sound
      <3>2. r.j \in Jobs BY <1>1 DEF CallState
      <3>3. job[r.j].retries \in Nat /\ job[r.j].forced \in Nat
        BY <1>1, <3>2 DEF TypeOK
      <3>4. MaxRetries(r.j) \in Nat BY ProcessingAssumption DEF MaxRetries
      <3> QED BY <2>1, <3>1, <3>3, <3>4 DEF CallInv, Covered
    <2>4. BankOpen(c)'
      <3> SUFFICES ASSUME r.write = TRUE, r.op = "createBank"
                   PROVE  job["bank"].status # "completed"
        BY <1>2, <1>3 DEF BankOpen
      <3>1. r.j = "bank" BY <1>1 DEF Sound
      <3>2. \/ job[r.j].status \in {"none", "failed"}
            \/ call[c].write = TRUE /\ r.op = call[c].op
        BY <1>1 DEF Moved, Sound
      <3> QED BY <2>1, <3>1, <3>2 DEF CallInv, BankOpen
    <2>5. JobStands(c)'
      <3> SUFFICES ASSUME r.op = "retry", r.pc = "commit"
                   PROVE  job[r.j].status # "none"
        BY <1>2, <1>3 DEF JobStands
      <3> QED BY <1>1 DEF Moved, Quiet
    <2>6. r.pc = "commit" /\ r.op \notin Quiet
            => /\ r.op = call[c].op /\ r.j = call[c].j /\ r.write = call[c].write
               /\ r.fresh = TRUE
               /\ r.next = Settle(stage, StageData(StampsAfter(c), JobAfter(c), ReqAfter(c)))
      BY DEF Moved
    <2>7. r.fresh = TRUE => r.pc = "commit" /\ r.op \notin Quiet BY <1>1 DEF Sound
    <2>8. ASSUME r.pc = "commit", r.op \notin Quiet
          PROVE  /\ Rests(r.next, StageData(StampsAfter(c)', JobAfter(c)', ReqAfter(c)'))
                 /\ Backed(r.next, StampsAfter(c)')
      <3>1. r.held = call[c].held \cup {App} BY <2>8 DEF Moved
      <3>2. \A k \in Jobs : JobRow(k) \in call'[c].held <=> JobRow(k) \in call[c].held
        BY <1>2, <3>1, RowsDistinct
      <3>3. /\ JobAfter(c)' = JobAfter(c) /\ StampsAfter(c)' = StampsAfter(c)
            /\ ReqAfter(c)' = ReqAfter(c)
        BY <1>2, <1>3, <2>6, <2>8, <3>2, SameAfter
      <3>4. stage \in Stages /\ Backed(stage, StampsAfter(c))
        BY DEF PInv, StageBacked, Backed, StampsAfter, TypeOK
      <3> QED BY <2>6, <2>8, <3>3, <3>4, SettleRests
    <2>9. NextSettled(c)' /\ NextBacked(c)'
      BY <1>2, <2>6, <2>7, <2>8 DEF NextSettled, NextBacked, Advances, Quiet
    <2>10. Closing(c)' BY <1>2, <1>3 DEF Moved, Closing
    <2> QED BY <2>2, <2>3, <2>4, <2>5, <2>9, <2>10 DEF CallInv
  <1>9. OneCloser'
    <2> SUFFICES ASSUME NEW x \in Calls, x # c, call[x].pc = "close", r.pc = "close"
                 PROVE  FALSE
      BY <1>2 DEF PInv, OneCloser
    <2>1. PICK d \in Docs : JobRow(d) \in call[x].held /\ job[d].status # "none"
      BY DEF PInv, CallInv, Closing
    <2>2. JobRow(d) \in r.held BY <2>1 DEF Moved
    <2> QED BY <1>2, <1>5, <2>1, <2>2 DEF Exclusive
  <1> QED BY <1>4, <1>5, <1>6, <1>7, <1>8, <1>9 DEF PInv

-----------------------------------------------------------------------------
(* The commits *)

\* Rows a commit changes: those its call holds, and the one it creates or retries.
LEMMA JobsWritten ==
  ASSUME TypeOK, NEW c \in Calls, Sound(call[c]), call[c].pc = "commit", NEW k \in Jobs
  PROVE  /\ JobRow(k) \notin call[c].held /\ ~(call[c].write = TRUE /\ k = call[c].j)
              => JobAfter(c)[k] = job[k]
         /\ call[c].op = "retry" /\ k = call[c].j => JobAfter(c)[k] = Reopened(job[k], 1)
         /\ call[c].write = TRUE /\ k = call[c].j
              => JobAfter(c)[k] = IF job[k].status = "none"
                                    THEN [job[k] EXCEPT !.status = "pending"]
                                    ELSE Reopened(job[k], 0)
         /\ call[c].write = FALSE /\ ~(call[c].op = "retry" /\ k = call[c].j)
              => \/ JobAfter(c)[k] = job[k]
                 \/ call[c].op \in {"ocrDone", "bankDone"}
                    /\ JobAfter(c)[k] = Closed(job[k], "completed")
                 \/ call[c].op \notin {"ocrDone", "bankDone"}
                    /\ JobAfter(c)[k] = Closed(job[k], "failed")
  <1>1. call[c].op = "retry" => JobRow(call[c].j) \in call[c].held BY DEF Sound
  <1>2. call[c].write = TRUE <=> call[c].op \in Creators BY DEF Sound
  <1>3. call[c].write \in BOOLEAN BY TypeCall DEF CallState
  <1> QED BY <1>1, <1>2, <1>3 DEF JobAfter, Creators

\* Two calls never rely on the same row.
LEMMA Apart ==
  ASSUME PInv, NEW c \in Calls, NEW x \in Calls, x # c, call[c].pc = "commit"
  PROVE  /\ Advances(c) => App \notin call[x].held
         /\ \A k \in Jobs : JobRow(k) \in call[x].held => JobRow(k) \notin call[c].held
         /\ call[x].write = TRUE /\ call[c].write = TRUE => call[x].j # call[c].j
         /\ call[x].write = TRUE /\ Advances(c) => call[x].op # "createBank"
  <1>1. Sound(call[c]) /\ Sound(call[x]) BY DEF PInv, CallInv
  <1>2. call[c].held \cap call[x].held = {} BY DEF PInv, Exclusive
  <1>3. Advances(c) => App \in call[c].held BY <1>1 DEF Sound, Advances, Quiet
  <1>4. call[x].write = TRUE =>
          /\ call[x].op \in Creators
          /\ (IF call[x].op = "createOcr" THEN DocRow(call[x].j) ELSE App) \in call[x].held
    BY <1>1 DEF Sound
  <1>5. call[c].write = TRUE =>
          /\ call[c].op \in Creators
          /\ (IF call[c].op = "createOcr" THEN DocRow(call[c].j) ELSE App) \in call[c].held
    BY <1>1 DEF Sound
  <1>6. ASSUME call[x].write = TRUE, call[c].write = TRUE, call[x].j = call[c].j PROVE FALSE
    <2>1. /\ call[x].op = "createOcr" => call[x].j \in Docs
          /\ call[c].op = "createOcr" => call[c].j \in Docs
          /\ call[x].op = "createBank" => call[x].j = "bank"
          /\ call[c].op = "createBank" => call[c].j = "bank"
      BY <1>1 DEF Sound
    <2>2. call[x].op = call[c].op BY <1>4, <1>5, <1>6, <2>1, JobNames DEF Creators
    <2> QED BY <1>2, <1>4, <1>5, <1>6, <2>2
  <1> QED BY <1>2, <1>3, <1>4, <1>6 DEF Creators

LEMMA IdleInv ==
  ASSUME NEW c \in Calls, call'[c] = Idle
  PROVE  CallInv(c)'
  <1>1. /\ Idle.pc = "idle" /\ Idle.op = "none" /\ Idle.write = FALSE /\ Idle.fresh = FALSE
    BY DEF Idle
  <1> QED
    BY <1>1, SoundIdle
       DEF CallInv, Covered, BankOpen, JobStands, NextSettled, NextBacked, Closing

LEMMA OneCloserStays ==
  ASSUME OneCloser, \A x \in Calls : call'[x].pc \in {call[x].pc, "idle"}
  PROVE  OneCloser'
  <1> SUFFICES ASSUME NEW x \in Calls, NEW y \in Calls,
                      call'[x].pc = "close", call'[y].pc = "close"
               PROVE  x = y
    BY DEF OneCloser
  <1>1. call[x].pc = "close" /\ call[y].pc = "close" OBVIOUS
  <1> QED BY <1>1 DEF OneCloser

\* A call commits: its job rows are written, it ends, and the calls that read
\* the stage before are told if nobody advances it.
Commits(c) ==
  /\ call[c].pc = "commit" /\ call'[c] = Idle
  /\ \A k \in Jobs : k # "credit" => job'[k] = JobAfter(c)[k]
  /\ \/ job'["credit"] = JobAfter(c)["credit"]
     \/ job'["credit"] = [JobAfter(c)["credit"] EXCEPT !.status = "pending"]
  /\ IF call[c].op = "retry"
       THEN /\ lagging' = TRUE
            /\ \A x \in Calls : x # c => call'[x] = [call[x] EXCEPT !.fresh = FALSE]
       ELSE \A x \in Calls : x # c => call'[x] = call[x]
  /\ ~Advances(c) => UNCHANGED <<stage, stamps, req>>
  /\ call[c].op \in {"ocrFail", "bankFail"} => lagging' = lagging
  /\ call[c].op # "upload"

\* The effect of a commit on a row that its call does not create or retry itself.
LEMMA RowEffect ==
  ASSUME PInv, NEW c \in Calls, Commits(c), NEW k \in Jobs, k # "credit",
         ~(call[c].write = TRUE /\ k = call[c].j)
  PROVE  /\ job'[k].status # "none" <=> job[k].status # "none"
         /\ \/ job'[k].retries = job[k].retries /\ job'[k].forced = job[k].forced
            \/ job'[k].retries = job[k].retries + 1 /\ job'[k].forced = job[k].forced + 1
         /\ job'[k].status = "completed" => job[k].status = "completed" \/ Advances(c)
         /\ job'[k].status = "pending" => job[k].status = "pending" \/ call[c].op = "retry"
         /\ JobRow(k) \notin call[c].held => job'[k] = job[k]
  <1>1. TypeOK /\ Sound(call[c]) /\ JobStands(c) /\ job[k] \in JobState
    BY TypeCall DEF PInv, CallInv
  <1>2. call[c].pc = "commit" /\ job'[k] = JobAfter(c)[k] BY DEF Commits
  <1>3. JobRow(k) \notin call[c].held => job'[k] = job[k]
    BY <1>1, <1>2, JobsWritten
  <1>4. CASE call[c].op = "retry" /\ k = call[c].j
    <2>1. job'[k] = Reopened(job[k], 1) BY <1>1, <1>2, <1>4, JobsWritten
    <2>2. job[k].status # "none" BY <1>1, <1>2, <1>4 DEF JobStands
    <2>3. /\ job'[k].status = "pending"
          /\ job'[k].retries = job[k].retries + 1 /\ job'[k].forced = job[k].forced + 1
      <3>1. /\ Reopened(job[k], 1).status = "pending"
            /\ Reopened(job[k], 1).retries = job[k].retries + 1
            /\ Reopened(job[k], 1).forced = job[k].forced + 1
        BY <1>1, RowWrites
      <3> QED BY <2>1, <3>1
    <2> QED BY <1>3, <1>4, <2>2, <2>3
  <1>5. CASE ~(call[c].op = "retry" /\ k = call[c].j) /\ call[c].write = FALSE
    <2>1. \/ job'[k] = job[k]
          \/ /\ call[c].op \in {"ocrDone", "bankDone"}
             /\ job'[k] = Closed(job[k], "completed")
          \/ job'[k] = Closed(job[k], "failed")
      BY <1>1, <1>2, <1>5, JobsWritten
    <2>2. call[c].op \in {"ocrDone", "bankDone"} => Advances(c) BY DEF Advances
    <2>3. \A st \in {"completed", "failed"} :
            /\ Closed(job[k], st).retries = job[k].retries
            /\ Closed(job[k], st).forced = job[k].forced
            /\ Closed(job[k], st).status = IF job[k].status = "pending" THEN st
                                                                        ELSE job[k].status
      BY <1>1, RowWrites
    <2> QED BY <1>3, <2>1, <2>2, <2>3
  <1>6. CASE call[c].write = TRUE
    <2>1. JobRow(k) \notin call[c].held BY <1>1, <1>6 DEF Sound, Creators
    <2> QED BY <1>3, <2>1
  <1>7. call[c].write \in BOOLEAN BY <1>1, TypeCall DEF CallState
  <1> QED BY <1>4, <1>5, <1>6, <1>7

LEMMA WriterKey ==
  ASSUME PInv, NEW x \in Calls, call[x].write = TRUE
  PROVE  call[x].j \in Jobs /\ call[x].j # "credit" /\ call[x].op \in Creators
  BY JobNames DEF PInv, CallInv, Sound, Creators

\* No row disappears.
LEMMA RowsStay ==
  ASSUME PInv, NEW c \in Calls, Commits(c), NEW k \in Jobs, job[k].status # "none"
  PROVE  job'[k].status # "none"
  <1>1. TypeOK /\ Sound(call[c]) /\ job[k] \in JobState /\ call[c].pc = "commit"
    BY TypeCall DEF PInv, CallInv, Commits
  <1>2. call[c].write \in BOOLEAN BY <1>1, TypeCall DEF CallState
  <1>3. JobAfter(c)[k].status # "none"
    <2>1. \/ JobAfter(c)[k] = job[k]
          \/ JobAfter(c)[k] = Reopened(job[k], 0)
          \/ JobAfter(c)[k] = Reopened(job[k], 1)
          \/ JobAfter(c)[k] = Closed(job[k], "completed")
          \/ JobAfter(c)[k] = Closed(job[k], "failed")
      <3>1. CASE call[c].write = TRUE
        <4>1. call[c].op \in Creators BY <1>1, <3>1 DEF Sound
        <4>2. CASE k = call[c].j BY <1>1, <3>1, <4>2, JobsWritten
        <4>3. CASE k # call[c].j
          <5>1. JobRow(k) \notin call[c].held BY <1>1, <4>1, <4>3 DEF Sound, Creators
          <5> QED BY <1>1, <4>3, <5>1, JobsWritten
        <4> QED BY <4>2, <4>3
      <3>2. CASE call[c].write = FALSE
        BY <1>1, <3>2, JobsWritten
      <3> QED BY <1>2, <3>1, <3>2
    <2>2. /\ Reopened(job[k], 0).status = "pending" /\ Reopened(job[k], 1).status = "pending"
          /\ Closed(job[k], "completed").status # "none"
          /\ Closed(job[k], "failed").status # "none"
      BY <1>1, RowWrites
    <2> QED BY <2>1, <2>2
  <1>4. JobAfter(c) \in [Jobs -> JobState] BY <1>1, WritesTyped
  <1>5. k = "credit" => job'[k].status # "none"
    <2>1. JobAfter(c)["credit"] \in JobState BY <1>4, JobNames
    <2> QED BY <1>3, <2>1 DEF Commits, JobState
  <1> QED BY <1>3, <1>5 DEF Commits

LEMMA OthersStand ==
  ASSUME PInv, NEW c \in Calls, Commits(c), NEW x \in Calls, x # c
  PROVE  CallInv(x)'
  <1>1. CallInv(x) /\ Sound(call[x]) /\ call[x] \in CallState /\ TypeOK
    BY TypeCall DEF PInv, CallInv
  <1>2. /\ call'[x].op = call[x].op /\ call'[x].j = call[x].j /\ call'[x].pc = call[x].pc
        /\ call'[x].held = call[x].held /\ call'[x].write = call[x].write
        /\ call'[x].part = call[x].part
        /\ call'[x].next = call[x].next
        /\ call'[x].fresh \in {call[x].fresh, FALSE}
        /\ call[c].op = "retry" => call'[x].fresh = FALSE
        /\ call[c].op # "retry" => call'[x].fresh = call[x].fresh
    <2>1. CASE call[c].op = "retry"
      <3>1. call'[x] = [call[x] EXCEPT !.fresh = FALSE] BY <2>1 DEF Commits
      <3> QED BY <1>1, <2>1, <3>1 DEF CallState
    <2>2. CASE call[c].op # "retry"
      <3>1. call'[x] = call[x] BY <2>2 DEF Commits
      <3> QED BY <2>2, <3>1
    <2> QED BY <2>1, <2>2
  <1>3. call[c].pc = "commit" BY DEF Commits
  <1>4. Sound(call[x])'
    BY <1>1, <1>2 DEF Sound
  <1>5. Covered(x)'
    <2> SUFFICES ASSUME call[x].write = TRUE, job'[call[x].j].status # "none"
                 PROVE  job'[call[x].j].retries
                          < MaxRetries(call[x].j) + job'[call[x].j].forced
      BY <1>2 DEF Covered, MaxRetries
    <2> DEFINE k == call[x].j
    <2>1. k \in Jobs /\ k # "credit" BY WriterKey
    <2>2. ~(call[c].write = TRUE /\ k = call[c].j) BY <1>3, Apart
    <2>3. /\ job[k].status # "none"
          /\ \/ job'[k].retries = job[k].retries /\ job'[k].forced = job[k].forced
             \/ job'[k].retries = job[k].retries + 1 /\ job'[k].forced = job[k].forced + 1
      BY <2>1, <2>2, RowEffect
    <2>4. job[k].retries < MaxRetries(k) + job[k].forced
      BY <1>1, <2>3 DEF CallInv, Covered
    <2>5. job[k].retries \in Nat /\ job[k].forced \in Nat BY <1>1, <2>1 DEF TypeOK
    <2>6. MaxRetries(k) \in Nat BY ProcessingAssumption DEF MaxRetries
    <2> HIDE DEF k
    <2>7. job'[k].retries < MaxRetries(k) + job'[k].forced
      <3>1. CASE job'[k].retries = job[k].retries /\ job'[k].forced = job[k].forced
        BY <2>4, <3>1
      <3>2. CASE job'[k].retries = job[k].retries + 1 /\ job'[k].forced = job[k].forced + 1
        <4>1. job[k].retries + 1 < MaxRetries(k) + (job[k].forced + 1)
          BY <2>4, <2>5, <2>6
        <4> QED BY <3>2, <4>1
      <3> QED BY <2>3, <3>1, <3>2
    <2> QED BY <2>7 DEF k
  <1>6. BankOpen(x)'
    <2> SUFFICES ASSUME call[x].write = TRUE, call[x].op = "createBank"
                 PROVE  job'["bank"].status # "completed"
      BY <1>2 DEF BankOpen
    <2>1. call[x].j = "bank" BY <1>1 DEF Sound
    <2>2. ~(call[c].write = TRUE /\ "bank" = call[c].j) /\ ~Advances(c)
      BY <1>3, <2>1, Apart
    <2>3. job'["bank"].status = "completed" => job["bank"].status = "completed"
      BY <2>2, RowEffect, JobNames
    <2> QED BY <1>1, <2>3 DEF CallInv, BankOpen
  <1>7. JobStands(x)'
    <2> SUFFICES ASSUME call[x].op = "retry", call[x].pc = "commit"
                 PROVE  job'[call[x].j].status # "none"
      BY <1>2 DEF JobStands
    <2>1. call[x].j \in Jobs BY <1>1 DEF CallState
    <2> QED BY <1>1, <2>1, RowsStay DEF CallInv, JobStands
  <1>8. call[x].pc = "commit" /\ Advances(x) => call[c].op \in Quiet
    BY <1>1, <1>3, Apart DEF Sound, Advances, Quiet
  <1>8a. Closing(x)'
    <2>1. call[x].pc = "close" =>
            \E d \in Docs : JobRow(d) \in call[x].held /\ job[d].status # "none"
      BY <1>1 DEF CallInv, Closing
    <2>2. \A d \in Docs : job[d].status # "none" => job'[d].status # "none"
      BY RowsStay, JobNames
    <2> QED BY <1>2, <2>1, <2>2 DEF Closing
  <1>9. ASSUME call[x].pc = "commit", Advances(x) PROVE StampsAfter(x)' = StampsAfter(x)
    <2>1. stamps' = stamps BY <1>8, <1>9 DEF Commits, Advances, Quiet
    <2>2. CASE call[x].op = "bankDone"
      <3>1. JobRow("bank") \in call[x].held BY <1>1, <1>9, <2>2 DEF Sound
      <3>2. JobRow("bank") \notin call[c].held BY <1>3, <3>1, JobNames, Apart
      <3>3. call[c].write # TRUE
        BY <1>8, <1>9 DEF PInv, CallInv, Sound, Quiet, Creators
      <3>4. job'["bank"] = job["bank"] BY <3>2, <3>3, RowEffect, JobNames
      <3> QED BY <1>2, <2>1, <3>4 DEF StampsAfter
    <2>3. CASE call[x].op # "bankDone"
      BY <1>2, <2>1, <2>3 DEF StampsAfter
    <2> QED BY <2>2, <2>3
  <1>10. NextBacked(x)'
    BY <1>1, <1>2, <1>9 DEF CallInv, NextBacked, Advances
  <1>11. NextSettled(x)'
    <2>1. call[x].pc = "commit" /\ Advances(x) => call'[x].fresh = TRUE \/ lagging' = TRUE
      BY <1>1, <1>2, <1>8 DEF CallInv, NextSettled, Commits, Quiet
    <2>2. ASSUME call'[x].fresh = TRUE
          PROVE  Rests(call[x].next, StageData(StampsAfter(x)', JobAfter(x)', ReqAfter(x)'))
      <3>1. call[x].fresh = TRUE /\ call[c].op # "retry" BY <1>2, <2>2
      <3>2. call[x].pc = "commit" /\ Advances(x) BY <1>1, <3>1 DEF Sound, Advances, Quiet
      <3>3. Rests(call[x].next, StageData(StampsAfter(x), JobAfter(x), ReqAfter(x)))
        BY <1>1, <3>1 DEF CallInv, NextSettled
      <3>4. ReqAfter(x)' = ReqAfter(x)
        BY <1>2, <1>8, <3>2 DEF Commits, Advances, Quiet, ReqAfter
      <3>5. ASSUME NEW k \in Jobs, k # "credit", JobAfter(x)'[k].status = "pending"
            PROVE  JobAfter(x)[k].status = "pending"
        <4>1. call[c].op \in Quiet /\ call[c].write # TRUE
          BY <1>8, <3>2 DEF PInv, CallInv, Sound, Quiet, Creators
        <4>2. CASE call[x].write = TRUE /\ k = call[x].j
          <5>1. job[k] \in JobState BY <1>1, TypeCall
          <5>2. JobAfter(x)[k] \in {[job[k] EXCEPT !.status = "pending"], Reopened(job[k], 0)}
            BY <1>1, <3>2, <4>2, JobsWritten
          <5>3. /\ [job[k] EXCEPT !.status = "pending"].status = "pending"
                /\ Reopened(job[k], 0).status = "pending"
            BY <5>1, RowWrites
          <5> QED BY <5>2, <5>3
        <4>3. CASE ~(call[x].write = TRUE /\ k = call[x].j) /\ JobRow(k) \in call[x].held
          <5>1. JobRow(k) \notin call[c].held BY <1>3, <4>3, Apart
          <5>2. job'[k] = job[k] BY <3>5, <4>1, <5>1, RowEffect
          <5>3. JobAfter(x)'[k] = JobAfter(x)[k] BY <1>2, <5>2 DEF JobAfter
          <5> QED BY <3>5, <5>3
        <4>4. CASE ~(call[x].write = TRUE /\ k = call[x].j) /\ JobRow(k) \notin call[x].held
          <5>1. JobAfter(x)[k] = job[k] BY <1>1, <3>2, <4>4, JobsWritten
          <5>2. JobAfter(x)'[k] = job'[k]
            <6>1. /\ ~(call'[x].op = "retry" /\ k = call'[x].j)
                  /\ ~(call'[x].op \in {"createOcr", "createBank"} /\ k = call'[x].j
                        /\ call'[x].write)
                  /\ JobRow(k) \notin call'[x].held
              BY <1>1, <1>2, <3>2, <4>4 DEF Advances, CallState
            <6> QED BY <6>1 DEF JobAfter
          <5> QED BY <3>1, <3>5, <4>1, <5>1, <5>2, RowEffect
        <4> QED BY <4>2, <4>3, <4>4
      <3> QED BY <1>9, <3>2, <3>3, <3>4, <3>5, RestsOn, JobNames
    <2> QED BY <1>2, <2>1, <2>2 DEF NextSettled, Advances
  <1> QED BY <1>4, <1>5, <1>6, <1>7, <1>8a, <1>10, <1>11 DEF CallInv

LEMMA CommitIs ==
  ASSUME PInv, NEW c \in Calls, CommitAdvanced(c) \/ CommitFailed(c) \/ CommitRetry(c)
  PROVE  Commits(c) /\ TypeOK'
  <1>1. /\ TypeOK /\ call \in [Calls -> CallState] /\ Sound(call[c])
        /\ call[c] \in CallState /\ call[c].pc = "commit"
    BY TypeCall DEF PInv, CallInv, CommitAdvanced, CommitFailed, CommitRetry
  <1>2. /\ JobAfter(c) \in [Jobs -> JobState]
        /\ StampsAfter(c) \subseteq {"ocr", "bank", "credit"}
    BY <1>1, WritesTyped
  <1>3. ReqAfter(c) \in [Docs -> {"missing", "uploaded", "accepted", "rejected"}]
    <2>1. call[c].op \in {"accept", "reject", "upload"} => call[c].j \in Docs BY <1>1 DEF Sound
    <2>2. call[c].op \notin {"accept", "reject", "upload"} => ReqAfter(c) = req
      BY DEF ReqAfter
    <2> QED BY <1>1, <2>1, <2>2, WritesTyped DEF TypeOK
  <1>4. CASE CommitAdvanced(c)
    <2>1. /\ call' = [call EXCEPT ![c] = Idle] /\ Advances(c)
          /\ job' = EnsureCreditSummaryJob(JobAfter(c), call[c].next)
          /\ stamps' = StampsAfter(c) /\ req' = ReqAfter(c) /\ stage' = call[c].next
          /\ lagging' = (lagging /\ ~call[c].fresh)
      BY <1>4 DEF CommitAdvanced, End
    <2>2. \/ job' = JobAfter(c)
          \/ job' = [JobAfter(c) EXCEPT !["credit"] =
                       [JobAfter(c)["credit"] EXCEPT !.status = "pending"]]
      BY <2>1 DEF EnsureCreditSummaryJob
    <2>3. [JobAfter(c)["credit"] EXCEPT !.status = "pending"] \in JobState
      <3>1. JobAfter(c)["credit"] \in JobState BY <1>2, JobNames
      <3> QED BY <3>1, RowWrites
    <2>4. job' \in [Jobs -> JobState] BY <1>2, <2>2, <2>3
    <2>5. /\ \A k \in Jobs : k # "credit" => job'[k] = JobAfter(c)[k]
          /\ \/ job'["credit"] = JobAfter(c)["credit"]
             \/ job'["credit"] = [JobAfter(c)["credit"] EXCEPT !.status = "pending"]
      BY <1>2, <2>2, JobNames
    <2>6. call' \in [Calls -> CallState] /\ stage' \in Stages /\ lagging' \in BOOLEAN
      BY <1>1, <2>1, IdleTyped DEF CallState
    <2>7. TypeOK' BY <1>2, <1>3, <2>1, <2>4, <2>6 DEF TypeOK, CallState, JobState
    <2>8. call[c].op \notin {"retry", "upload"} /\ call[c].op \notin {"ocrFail", "bankFail"}
      BY <2>1 DEF Advances
    <2> QED BY <1>1, <2>1, <2>5, <2>7, <2>8 DEF Commits
  <1>5. CASE CommitFailed(c)
    <2>1. call' = [call EXCEPT ![c] = Idle] /\ job' = JobAfter(c) BY <1>5 DEF CommitFailed, End
    <2>2. call' \in [Calls -> CallState] BY <1>1, <2>1, IdleTyped
    <2>3. TypeOK' BY <1>1, <1>2, <1>5, <2>1, <2>2 DEF CommitFailed, TypeOK, CallState, JobState
    <2> QED BY <1>1, <1>5, <2>1, <2>3 DEF Commits, CommitFailed
  <1>6. CASE CommitRetry(c)
    <2>1. /\ call' = [x \in Calls |-> IF x = c THEN Idle ELSE [call[x] EXCEPT !.fresh = FALSE]]
          /\ job' = JobAfter(c) /\ lagging' = TRUE
      BY <1>6 DEF CommitRetry
    <2>2. \A x \in Calls : [call[x] EXCEPT !.fresh = FALSE] \in CallState
      BY <1>1 DEF CallState
    <2>3. call' \in [Calls -> CallState] BY <2>1, <2>2, IdleTyped
    <2>4. TypeOK' BY <1>1, <1>2, <1>6, <2>1, <2>3 DEF CommitRetry, TypeOK, CallState, JobState
    <2> QED BY <1>1, <1>6, <2>1, <2>4 DEF Commits, CommitRetry
  <1> QED BY <1>4, <1>5, <1>6

LEMMA LimitKept ==
  ASSUME PInv, NEW c \in Calls, Commits(c)
  PROVE  RetryLimit'
  <1> SUFFICES ASSUME NEW k \in Docs \cup {"bank"}
               PROVE  job'[k].retries <= MaxRetries(k) + job'[k].forced
    BY DEF RetryLimit, MaxRetries
  <1>1. k \in Jobs /\ k # "credit" BY JobNames
  <1>2. TypeOK /\ Sound(call[c]) /\ Covered(c) /\ call[c].pc = "commit" /\ job[k] \in JobState
    BY <1>1, TypeCall DEF PInv, CallInv, Commits
  <1>3. job[k].retries \in Nat /\ job[k].forced \in Nat BY <1>2 DEF JobState
  <1>4. MaxRetries(k) \in Nat BY ProcessingAssumption DEF MaxRetries
  <1>5. job[k].retries <= MaxRetries(k) + job[k].forced BY DEF PInv, RetryLimit
  <1>6. CASE job'[k].retries = job[k].retries /\ job'[k].forced = job[k].forced
    BY <1>5, <1>6
  <1>7. CASE job'[k].retries = job[k].retries + 1 /\ job'[k].forced = job[k].forced + 1
    <2>1. job[k].retries + 1 <= MaxRetries(k) + (job[k].forced + 1) BY <1>3, <1>4, <1>5
    <2> QED BY <1>7, <2>1
  <1>8. CASE call[c].write = TRUE /\ k = call[c].j
    <2>1. job'[k] = IF job[k].status = "none" THEN [job[k] EXCEPT !.status = "pending"]
                                              ELSE Reopened(job[k], 0)
      <3>1. job'[k] = JobAfter(c)[k]
        BY <1>1 DEF Commits
      <3>2. JobAfter(c)[k] = IF job[k].status = "none" THEN [job[k] EXCEPT !.status = "pending"]
                                                       ELSE Reopened(job[k], 0)
        BY <1>1, <1>2, <1>8, JobsWritten
      <3> QED BY <3>1, <3>2
    <2>2. CASE job[k].status = "none"
      <3>1. /\ [job[k] EXCEPT !.status = "pending"].retries = job[k].retries
            /\ [job[k] EXCEPT !.status = "pending"].forced = job[k].forced
        BY <1>2, RowWrites
      <3> QED BY <1>6, <2>1, <2>2, <3>1
    <2>3. CASE job[k].status # "none"
      <3>1. /\ Reopened(job[k], 0).retries = job[k].retries + 1
            /\ Reopened(job[k], 0).forced = job[k].forced + 0
        BY <1>2, RowWrites
      <3>2. job[k].retries < MaxRetries(k) + job[k].forced
        BY <1>2, <1>8, <2>3 DEF Covered
      <3>3. job[k].retries + 1 <= MaxRetries(k) + (job[k].forced + 0)
        BY <1>3, <1>4, <3>2
      <3> QED BY <2>1, <2>3, <3>1, <3>3
    <2> QED BY <2>2, <2>3
  <1> QED BY <1>1, <1>6, <1>7, <1>8, RowEffect

LEMMA CommitKeeps ==
  ASSUME PInv, NEW c \in Calls, CommitAdvanced(c) \/ CommitFailed(c) \/ CommitRetry(c)
  PROVE  PInv'
  <1>1. Commits(c) /\ TypeOK' BY CommitIs
  <1>2. /\ TypeOK /\ CallInv(c) /\ Sound(call[c]) /\ call[c] \in CallState
        /\ call[c].pc = "commit"
    BY <1>1, TypeCall DEF PInv, CallInv, Commits
  <1>3. \A x \in Calls : CallInv(x)'
    <2>1. CallInv(c)' BY <1>1, IdleInv DEF Commits
    <2> QED BY <1>1, <2>1, OthersStand
  <1>4. Exclusive'
    <2>1. Idle.held = {} BY DEF Idle
    <2>2. \A x \in Calls : call'[x].held \subseteq call[x].held
      <3>1. ASSUME NEW x \in Calls, x # c PROVE call'[x].held = call[x].held
        <4>1. call'[x] = call[x] \/ call'[x] = [call[x] EXCEPT !.fresh = FALSE]
          BY <1>1, <3>1 DEF Commits
        <4>2. call[x] \in CallState
          BY <1>2, TypeCall
        <4> QED BY <4>1, <4>2 DEF CallState
      <3>2. call'[c] = Idle
        BY <1>1 DEF Commits
      <3> QED BY <2>1, <3>1, <3>2
    <2> QED BY <2>2 DEF PInv, Exclusive
  <1>4a. OneCloser'
    <2>1. ASSUME NEW x \in Calls PROVE call'[x].pc \in {call[x].pc, "idle"}
      <3>1. CASE x = c BY <1>1, <3>1 DEF Commits, Idle
      <3>2. CASE x # c
        <4>1. call'[x] = call[x] \/ call'[x] = [call[x] EXCEPT !.fresh = FALSE]
          BY <1>1, <3>2 DEF Commits
        <4>2. call[x] \in CallState BY <1>2, TypeCall
        <4> QED BY <4>1, <4>2 DEF CallState
      <3> QED BY <3>1, <3>2
    <2> QED BY <2>1, OneCloserStays DEF PInv
  <1>5. RetryLimit' BY <1>1, LimitKept
  <1>6. StageBacked'
    <2>1. CASE CommitAdvanced(c)
      <3>1. /\ stage' = call[c].next /\ stamps' = StampsAfter(c)
            /\ job' = EnsureCreditSummaryJob(JobAfter(c), call[c].next) /\ Advances(c)
        BY <2>1 DEF CommitAdvanced
      <3>2. Backed(stage', stamps') BY <1>2, <3>1 DEF CallInv, NextBacked
      <3>3. stage' = "credit_summary_processing" => job'["credit"].status # "none"
        <4>1. JobAfter(c) \in [Jobs -> JobState] BY <1>2, WritesTyped
        <4>2. JobAfter(c)["credit"] \in JobState BY <4>1, JobNames
        <4> QED BY <3>1, <4>1, <4>2, JobNames DEF EnsureCreditSummaryJob, JobState
      <3> QED BY <3>2, <3>3 DEF StageBacked, Backed
    <2>2. CASE CommitFailed(c) \/ CommitRetry(c)
      <3>1. stage' = stage /\ stamps' = stamps BY <2>2 DEF CommitFailed, CommitRetry
      <3>2. job["credit"].status # "none" => job'["credit"].status # "none"
        BY <1>1, RowsStay, JobNames
      <3> QED BY <3>1, <3>2 DEF PInv, StageBacked
    <2> QED BY <2>1, <2>2
  <1>7. StageSettled'
    <2> SUFFICES ASSUME ~lagging' PROVE Rests(stage', StageData(stamps', job', req'))
      <3>1. stage' \in Stages BY <1>1 DEF TypeOK
      <3>2. StageData(stamps', job', req') \in DataType BY DataTyped
      <3>3. Rests(stage', StageData(stamps', job', req'))
              => ResolveNextStage(stage', StageData(stamps', job', req')) = stage'
        BY <3>1, <3>2, RestsSettles
      <3> QED BY <3>3 DEF StageSettled, ResolveNextStage, StageData
    <2>1. CASE CommitAdvanced(c)
      <3>1. /\ stage' = call[c].next /\ stamps' = StampsAfter(c) /\ req' = ReqAfter(c)
            /\ Advances(c) /\ lagging' = (lagging /\ ~call[c].fresh)
        BY <2>1 DEF CommitAdvanced
      <3>2. call[c].fresh = TRUE
        BY <1>2, <3>1 DEF CallInv, NextSettled
      <3>3. Rests(call[c].next, StageData(StampsAfter(c), JobAfter(c), ReqAfter(c)))
        BY <1>2, <3>2 DEF CallInv, NextSettled
      <3>4. \A k \in Jobs : k # "credit" => job'[k] = JobAfter(c)[k] BY <1>1 DEF Commits
      <3> QED BY <3>1, <3>3, <3>4, RestsOn, JobNames
    <2>2. CASE CommitFailed(c)
      <3>1. /\ stage' = stage /\ stamps' = stamps /\ req' = req /\ lagging' = lagging
            /\ call[c].op \in {"ocrFail", "bankFail"}
        BY <2>2 DEF CommitFailed
      <3>2. Rests(stage, StageData(stamps, job, req))
        BY <1>2, <3>1, DataTyped, RestsSettles DEF PInv, StageSettled, TypeOK
      <3>3. call[c].write # TRUE BY <1>2, <3>1 DEF Sound, Creators
      <3>4. \A k \in Jobs : k # "credit" /\ job'[k].status = "pending"
                              => job[k].status = "pending"
        BY <1>1, <3>1, <3>3, RowEffect
      <3> QED BY <3>1, <3>2, <3>4, RestsOn, JobNames
    <2>3. CASE CommitRetry(c) BY <2>3 DEF CommitRetry
    <2> QED BY <2>1, <2>2, <2>3
  <1> QED BY <1>1, <1>3, <1>4, <1>4a, <1>5, <1>6, <1>7 DEF PInv

-----------------------------------------------------------------------------
(* The writers that do not advance *)

LEMMA StampKeeps ==
  ASSUME PInv, NEW s \in {"credit", "bank"}, Stamp(s)
  PROVE  PInv'
  <1>1. /\ TypeOK /\ call \in [Calls -> CallState] BY TypeCall DEF PInv
  <1>2. /\ stamps' = stamps \cup {s} /\ lagging' = TRUE /\ AppFree
        /\ call' = [x \in Calls |-> [call[x] EXCEPT !.fresh = FALSE]]
        /\ stage' = stage /\ job' = job /\ req' = req
    BY DEF Stamp, Stale
  <1>3. \A x \in Calls :
          /\ call'[x] \in CallState /\ call'[x].op = call[x].op /\ call'[x].j = call[x].j
          /\ call'[x].pc = call[x].pc /\ call'[x].held = call[x].held
          /\ call'[x].write = call[x].write /\ call'[x].part = call[x].part
          /\ call'[x].fresh = FALSE
    BY <1>1, <1>2 DEF CallState
  <1>4. TypeOK'
    <2>1. call' \in [Calls -> CallState] BY <1>2, <1>3
    <2> QED BY <1>1, <1>2, <2>1 DEF TypeOK, CallState
  <1>5. Exclusive' BY <1>3 DEF PInv, Exclusive
  <1>5a. OneCloser' BY <1>3, OneCloserStays DEF PInv
  <1>6. StageSettled' /\ RetryLimit' BY <1>2 DEF PInv, StageSettled, RetryLimit
  <1>7. StageBacked' BY <1>2 DEF PInv, StageBacked
  <1>8. ASSUME NEW x \in Calls PROVE CallInv(x)'
    <2>1. CallInv(x) BY DEF PInv
    <2>2. Sound(call[x])' BY <1>3, <2>1 DEF CallInv, Sound
    <2>3. Covered(x)' /\ BankOpen(x)' /\ JobStands(x)' /\ Closing(x)'
      BY <1>2, <1>3, <2>1 DEF CallInv, Covered, BankOpen, JobStands, Closing, MaxRetries
    <2>4. ~(call[x].pc = "commit" /\ Advances(x))
      BY <1>2, <2>1 DEF AppFree, CallInv, Sound, Advances, Quiet
    <2>5. NextSettled(x)' /\ NextBacked(x)'
      BY <1>3, <2>4 DEF NextSettled, NextBacked, Advances
    <2> QED BY <2>2, <2>3, <2>5 DEF CallInv
  <1> QED BY <1>4, <1>5, <1>5a, <1>6, <1>7, <1>8 DEF PInv

LEMMA UploadKeeps ==
  ASSUME PInv, NEW c \in Calls, CommitUpload(c)
  PROVE  PInv'
  <1>1. /\ TypeOK /\ req \in [Docs -> {"missing", "uploaded", "accepted", "rejected"}]
        /\ call \in [Calls -> CallState] /\ call[c].j \in Docs /\ call[c].op = "upload"
    BY TypeCall DEF PInv, TypeOK, CallInv, Sound, CommitUpload
  <1>2. /\ req' = [req EXCEPT ![call[c].j] = "uploaded"] /\ stage' = stage /\ stamps' = stamps
        /\ job' = job /\ lagging' = lagging /\ call' = [call EXCEPT ![c] = Idle]
    BY <1>1 DEF CommitUpload, ReqAfter, End
  <1>3. \A e \in Docs : req'[e] \in {"accepted", "rejected"} => req'[e] = req[e]
    BY <1>1, <1>2
  <1>3a. /\ call'[c] = Idle /\ \A x \in Calls : x # c => call'[x] = call[x]
         /\ Idle.held = {} /\ Idle.pc = "idle"
    BY <1>1, <1>2 DEF Idle
  <1>4. TypeOK'
    <2>1. call' \in [Calls -> CallState] BY <1>1, <1>2, IdleTyped
    <2> QED BY <1>1, <1>2, <2>1 DEF TypeOK, CallState
  <1>5. Exclusive' /\ RetryLimit' /\ StageBacked'
    <2>1. Exclusive' BY <1>3a DEF PInv, Exclusive
    <2> QED BY <1>2, <2>1 DEF PInv, RetryLimit, StageBacked
  <1>5a. OneCloser' BY <1>3a, OneCloserStays DEF PInv
  <1>6. StageSettled'
    <2> SUFFICES ASSUME ~lagging PROVE Rests(stage, StageData(stamps, job, req'))
      <3>1. stage \in Stages BY <1>1 DEF TypeOK
      <3>2. StageData(stamps, job, req') \in DataType BY DataTyped
      <3>3. Rests(stage, StageData(stamps, job, req'))
              => ResolveNextStage(stage, StageData(stamps, job, req')) = stage
        BY <3>1, <3>2, RestsSettles
      <3> QED BY <1>2, <3>3 DEF StageSettled
    <2>1. Rests(stage, StageData(stamps, job, req))
      BY <1>1, DataTyped, RestsSettles DEF PInv, StageSettled, TypeOK
    <2> QED BY <1>3, <2>1, RestsOn
  <1>7. ASSUME NEW x \in Calls, x # c PROVE CallInv(x)'
    <2>1. CallInv(x) /\ call'[x] = call[x] BY <1>3a, <1>7 DEF PInv
    <2>2. Sound(call[x])' /\ Covered(x)' /\ BankOpen(x)' /\ JobStands(x)' /\ Closing(x)'
      BY <1>2, <2>1 DEF CallInv, Covered, BankOpen, JobStands, MaxRetries, Closing
    <2>3. /\ JobAfter(x)' = JobAfter(x) /\ StampsAfter(x)' = StampsAfter(x)
      BY <1>2, <2>1 DEF JobAfter, StampsAfter
    <2>3a. NextBacked(x)' BY <2>1, <2>3 DEF CallInv, NextBacked, Advances
    <2>4. \A e \in Docs : ReqAfter(x)'[e] \in {"accepted", "rejected"}
                            => ReqAfter(x)'[e] = ReqAfter(x)[e]
      <3>1. CASE call[x].op \in {"accept", "reject", "upload"}
        BY <1>1, <1>2, <1>3, <2>1, <3>1 DEF ReqAfter
      <3>2. CASE call[x].op \notin {"accept", "reject", "upload"}
        BY <1>2, <1>3, <2>1, <3>2 DEF ReqAfter
      <3> QED BY <3>1, <3>2
    <2>5. call[x].fresh = TRUE
            => Rests(call[x].next, StageData(StampsAfter(x)', JobAfter(x)', ReqAfter(x)'))
      BY <2>1, <2>3, <2>4, RestsOn DEF CallInv, NextSettled
    <2>6. NextSettled(x)' BY <1>2, <2>1, <2>5 DEF CallInv, NextSettled, Advances
    <2> QED BY <2>2, <2>3a, <2>6 DEF CallInv
  <1>8. CallInv(c)' BY <1>3a, IdleInv
  <1> QED BY <1>4, <1>5, <1>5a, <1>6, <1>7, <1>8 DEF PInv

-----------------------------------------------------------------------------
(* The theorems *)

LEMMA PInit == Init => PInv
  <1> SUFFICES ASSUME Init PROVE PInv
    OBVIOUS
  <1>1. /\ \A c \in Calls : call[c] = Idle
        /\ \A j \in Jobs : job[j] = NoJob
        /\ stage = "pending" /\ stamps = {} /\ lagging = FALSE /\ "bank" \in Jobs
    BY JobNames DEF Init
  <1>2. NoJob \in JobState /\ NoJob.status = "none" /\ NoJob.retries = 0 /\ NoJob.forced = 0
    BY DEF NoJob, JobState, JobStatus
  <1>3. /\ Idle.pc = "idle" /\ Idle.op = "none" /\ Idle.write = FALSE /\ Idle.fresh = FALSE
        /\ Idle.held = {}
    BY DEF Idle
  <1>4. TypeOK
    <2>1. job \in [Jobs -> JobState] /\ call \in [Calls -> CallState]
      BY <1>2, IdleTyped DEF Init
    <2> QED BY <2>1 DEF Init, TypeOK, CallState, JobState, Stages
  <1>5. \A c \in Calls : CallInv(c)
    BY <1>1, <1>3, SoundIdle
       DEF CallInv, Covered, BankOpen, JobStands, NextSettled, NextBacked, Closing
  <1>5a. OneCloser BY <1>1, <1>3 DEF OneCloser
  <1>6. Exclusive BY <1>1, <1>3 DEF Exclusive
  <1>7. RetryLimit
    <2>1. \A j \in Docs \cup {"bank"} : job[j].retries = 0 /\ job[j].forced = 0
      BY <1>1, <1>2, JobNames
    <2> QED BY <2>1, ProcessingAssumption DEF RetryLimit, MaxRetries
  <1>8. StageBacked BY <1>1 DEF StageBacked
  <1>9. StageSettled
    <2>1. \A k \in Jobs : job[k].status = "none" BY <1>1, <1>2
    <2>2. Rests(stage, StageData(stamps, job, req))
      BY <1>1, <2>1, JobNames DEF Rests, StageData
    <2> QED BY <1>1, <1>4, <2>2, DataTyped, RestsSettles DEF StageSettled, TypeOK
  <1> QED BY <1>4, <1>5, <1>5a, <1>6, <1>7, <1>8, <1>9 DEF PInv

LEMMA PKept == PInv /\ [Next]_vars => PInv'
  <1> SUFFICES ASSUME PInv, [Next]_vars PROVE PInv'
    OBVIOUS
  <1>1. ASSUME NEW c \in Calls, Moves(c) PROVE PInv'
    <2>1. TypeOK /\ Sound(call[c]) BY DEF PInv, CallInv
    <2>2. PICK r : Moved(c, r) BY <1>1, <2>1, MoveEffect
    <2> QED BY <2>2, MoveKeeps
  <1>2. CASE UNCHANGED vars
    <2>1. /\ call' = call /\ job' = job /\ stamps' = stamps /\ req' = req
          /\ stage' = stage /\ lagging' = lagging
      BY <1>2 DEF vars
    <2>2. /\ TypeOK' /\ Exclusive' /\ StageSettled' /\ StageBacked' /\ RetryLimit'
          /\ OneCloser'
      BY <2>1 DEF PInv, TypeOK, Exclusive, StageSettled, StageBacked, RetryLimit, OneCloser
    <2>3. ASSUME NEW x \in Calls PROVE CallInv(x)'
      <3>1. CallInv(x) BY DEF PInv
      <3>2. /\ JobAfter(x)' = JobAfter(x) /\ StampsAfter(x)' = StampsAfter(x)
            /\ ReqAfter(x)' = ReqAfter(x)
        BY <2>1, SameAfter
      <3>3. Sound(call[x])' /\ Covered(x)' /\ BankOpen(x)' /\ JobStands(x)' /\ Closing(x)'
        BY <2>1, <3>1 DEF CallInv, Covered, BankOpen, JobStands, Closing, MaxRetries
      <3>4. NextSettled(x)' /\ NextBacked(x)'
        BY <2>1, <3>1, <3>2 DEF CallInv, NextSettled, NextBacked, Advances
      <3> QED BY <3>3, <3>4 DEF CallInv
    <2> QED BY <2>2, <2>3 DEF PInv
  <1> QED
    BY <1>1, <1>2, CommitKeeps, StampKeeps, UploadKeeps DEF Next, CallStep, Moves

\* No circle runs through c when it is in a group that waits for nobody it could
\* be waited for by: whoever waits for one of the group is in the group, and c
\* itself waits for none of it.
LEMMA NotInCircle ==
  ASSUME NEW waits, NEW c \in Calls, NEW P \in SUBSET Calls, c \in P,
         \A x \in Calls : waits[x] \subseteq Calls,
         waits[c] \cap P = {},
         \A x \in Calls \ P : waits[x] \cap P = {}
  PROVE  ~InCircle(waits, c)
  <1> DEFINE S == Calls \ P
  <1>1. S \in SUBSET Calls /\ c \notin S OBVIOUS
  <1>2. waits[c] \subseteq S /\ \A x \in S : waits[x] \subseteq S OBVIOUS
  <1> HIDE DEF S
  <1> QED BY <1>1, <1>2 DEF InCircle

\* Calls that hold no row: nobody waits for them.
Lockers == { x \in Calls : call[x].pc = "lock" }
\* Creations of OCR jobs about to retry theirs: they hold their document.
Updaters == { x \in Calls : call[x].pc = "update" /\ call[x].op = "createOcr" }

\* The documents and requirements a call may wait for, and when.
LEMMA WantsDocument ==
  ASSUME PInv, NEW x \in Calls, NEW d, DocRow(d) \in Wanted(x)
  PROVE  call[x].pc = "lock" /\ call[x].part = "none"
  <1>1. Sound(call[x]) BY DEF PInv, CallInv
  <1>2. call[x].pc = "lock" BY RowsDistinct DEF Wanted
  <1>3. call[x].op \in Ops /\ DocRow(d) \in FirstRows(x) BY <1>1, <1>2 DEF Sound, Wanted
  <1>4. call[x].op = "upload" => call[x].part = "none"
    BY <1>3, RowsDistinct DEF FirstRows
  <1> QED BY <1>1, <1>2, <1>4 DEF Sound

\* The jobs a call may wait for, and when.
LEMMA WantsJob ==
  ASSUME PInv, NEW x \in Calls, NEW d \in Docs, JobRow(d) \in Wanted(x)
  PROVE  \/ call[x].pc = "lock" /\ call[x].part = "none"
         \/ call[x].pc = "close"
         \/ x \in Updaters
  <1>1. Sound(call[x]) /\ TypeOK BY DEF PInv, CallInv
  <1>2. call[x].pc \in {"lock", "close", "update"} BY RowsDistinct DEF Wanted
  <1>3. CASE call[x].pc = "lock"
    <2>1. call[x].op \in Ops /\ JobRow(d) \in FirstRows(x) BY <1>1, <1>3 DEF Sound, Wanted
    <2>2. call[x].op # "upload" BY <2>1, RowsDistinct DEF FirstRows
    <2> QED BY <1>1, <1>3, <2>2 DEF Sound
  <1>4. CASE call[x].pc = "update"
    <2>1. d = call[x].j BY <1>4, RowsDistinct DEF Wanted
    <2>2. call[x].op = "createOcr" BY <1>1, <1>4, <2>1, JobNames DEF Sound, Creators
    <2> QED BY <1>4, <2>2 DEF Updaters
  <1> QED BY <1>2, <1>3, <1>4

LEMMA NoRowCircle ==
  ASSUME PInv, NEW c \in Calls
  PROVE  ~InCircle(RowWaits, c)
  <1>1. /\ \A x \in Calls : Sound(call[x])
        /\ \A x \in Calls : RowWaits[x]
             = { y \in Calls \ {x} : (Wanted(x) \ {App}) \cap call[y].held # {} }
    BY DEF PInv, CallInv, RowWaits
  <1>2. \A x \in Lockers : call[x].held = {} BY <1>1 DEF Lockers, Sound
  <1>3. CASE call[c].pc \notin {"lock", "close", "update"}
    <2>1. Wanted(c) \ {App} = {} BY <1>3 DEF Wanted
    <2>2. RowWaits[c] = {} BY <1>1, <2>1
    <2> QED BY <2>2 DEF InCircle
  <1>4. CASE call[c].pc = "lock"
    <2>1. \A x \in Calls : c \notin RowWaits[x] BY <1>1, <1>2, <1>4 DEF Lockers
    <2> QED BY <1>1, <2>1, NotInCircle, {c} \in SUBSET Calls
  <1>5. CASE call[c].pc = "update" /\ call[c].op = "createBank"
    <2>1. call[c].held = {App} BY <1>1, <1>5 DEF Sound
    <2>2. \A x \in Calls : c \notin RowWaits[x] BY <1>1, <2>1
    <2> QED BY <1>1, <2>2, NotInCircle, {c} \in SUBSET Calls
  <1>6. ASSUME NEW x \in Calls, NEW y \in Updaters, y \in RowWaits[x]
        PROVE  x \in Lockers
    <2>1. call[y].held = { DocRow(call[y].j) } BY <1>1 DEF Updaters, Sound
    <2>2. DocRow(call[y].j) \in Wanted(x) BY <1>1, <1>6, <2>1
    <2> QED BY <2>2, WantsDocument DEF Lockers
  <1>7. CASE c \in Updaters
    <2> DEFINE P == Lockers \cup Updaters
    <2>1. ASSUME NEW x \in Calls, x = c \/ x \notin P PROVE RowWaits[x] \cap P = {}
      <3> SUFFICES ASSUME NEW y \in RowWaits[x], y \in P PROVE FALSE
        OBVIOUS
      <3>1. y \notin Lockers BY <1>1, <1>2
      <3>2. x \in Lockers BY <1>6, <3>1
      <3> QED BY <1>7, <2>1, <3>2 DEF Lockers, Updaters
    <2>2. P \in SUBSET Calls /\ c \in P BY <1>7 DEF Lockers, Updaters
    <2> HIDE DEF P
    <2> QED BY <1>1, <2>1, <2>2, NotInCircle
  <1>8. CASE call[c].pc = "close"
    <2> DEFINE P == {c} \cup Lockers \cup Updaters
    <2>1. ASSUME NEW x \in Calls, x = c \/ x \notin P PROVE RowWaits[x] \cap P = {}
      <3> SUFFICES ASSUME NEW y \in RowWaits[x], y \in P PROVE FALSE
        OBVIOUS
      <3>1. y \notin Lockers BY <1>1, <1>2
      <3>2. y \in Updaters => x \in Lockers BY <1>6
      <3>3. y # c
        <4> SUFFICES ASSUME y = c PROVE FALSE
          OBVIOUS
        <4>1. PICK row \in Wanted(x) : row \in call[c].held BY <1>1
        <4>2. PICK d \in Docs : row = JobRow(d) BY <1>1, <1>8, <4>1 DEF Sound
        <4>3. call[x].pc \in {"lock", "close"} \/ x \in Updaters BY <4>1, <4>2, WantsJob
        <4>4. x # c BY <1>1
        <4> QED BY <1>8, <2>1, <4>3, <4>4 DEF PInv, OneCloser, Lockers
      <3> QED BY <1>8, <2>1, <3>1, <3>2, <3>3 DEF Lockers
    <2>2. P \in SUBSET Calls /\ c \in P BY DEF Lockers, Updaters
    <2> HIDE DEF P
    <2> QED BY <1>1, <2>1, <2>2, NotInCircle
  <1>9. call[c].pc = "update" => call[c].op \in Creators BY <1>1 DEF Sound
  <1> QED BY <1>3, <1>4, <1>5, <1>7, <1>8, <1>9 DEF Creators, Updaters

\* Failures, forced retries and plain advances: whoever waits for one of them holds
\* nothing that one waits for.
LEMMA SimpleCallsPass ==
  ASSUME PInv, NEW c \in Calls, call[c].op \in {"ocrFail", "bankFail", "retry", "advance"}
  PROVE  ~Deadlocked(c)
  <1>1. /\ \A x \in Calls : Sound(call[x])
        /\ \A x \in Calls : Waits[x] = { y \in Calls : WaitsFor(x, y) }
    BY DEF PInv, CallInv, Waits
  <1>2. call[c].part = "none" BY <1>1 DEF Sound, Partless
  <1> DEFINE Partless0 == { x \in Lockers : call[x].part = "none" }
  <1>3. ASSUME NEW x \in Calls, NEW y \in Calls, WaitsFor(x, y), call[y].held = {},
               call[y].part = "none"
        PROVE  FALSE
    BY <1>3 DEF WaitsFor, WaitsForPart, HeldPart
  <1>4. CASE call[c].held = {}
    <2>1. \A x \in Calls : c \notin Waits[x] BY <1>1, <1>2, <1>3, <1>4
    <2> QED BY <1>1, <2>1, NotInCircle, {c} \in SUBSET Calls DEF Deadlocked
  <1>5. CASE call[c].pc \notin {"lock", "close", "update", "touch", "advance"}
    <2>1. Wanted(c) = {} BY <1>5 DEF Wanted
    <2>2. Waits[c] = {} BY <1>1, <1>5, <2>1 DEF WaitsFor, WaitsForPart
    <2> QED BY <2>2 DEF Deadlocked, InCircle
  <1>6. CASE call[c].pc = "close"
    <2> DEFINE P == {c} \cup Partless0 \cup Updaters
    <2>1. ASSUME NEW x \in Calls, x = c \/ x \notin P PROVE Waits[x] \cap P = {}
      <3> SUFFICES ASSUME NEW y \in Waits[x], y \in P PROVE FALSE
        OBVIOUS
      <3>0. y \in Calls /\ WaitsFor(x, y) /\ x # y BY <1>1 DEF WaitsFor
      <3>1. y \notin Partless0
        <4>1. \A z \in Partless0 : call[z].held = {} /\ call[z].part = "none"
          BY <1>1 DEF Lockers, Sound
        <4> QED BY <1>3, <3>0, <4>1
      <3>2. CASE y \in Updaters
        <4>1. call[y].held = { DocRow(call[y].j) } /\ call[y].part = "none"
          BY <1>1, <3>2 DEF Updaters, Sound
        <4>2. DocRow(call[y].j) \in Wanted(x)
          BY <3>0, <4>1, RowsDistinct DEF WaitsFor, WaitsForPart, HeldPart
        <4>3. call[x].pc = "lock" /\ call[x].part = "none" BY <4>2, WantsDocument
        <4> QED BY <1>6, <2>1, <4>3 DEF Lockers
      <3>3. CASE y = c
        <4>1. App \notin call[c].held BY <1>1, <1>6, RowsDistinct DEF Sound
        <4>2. PICK row \in Wanted(x) : row \in call[c].held
          BY <1>2, <3>0, <3>3, <4>1 DEF WaitsFor, WaitsForPart, HeldPart
        <4>3. PICK d \in Docs : row = JobRow(d) BY <1>1, <1>6, <4>2 DEF Sound
        <4>4. \/ call[x].pc = "lock" /\ call[x].part = "none"
              \/ call[x].pc = "close" \/ x \in Updaters
          BY <4>2, <4>3, WantsJob
        <4> QED BY <1>6, <2>1, <3>0, <3>3, <4>4 DEF PInv, OneCloser, Lockers
      <3> QED BY <3>1, <3>2, <3>3
    <2>2. P \in SUBSET Calls /\ c \in P BY DEF Lockers, Updaters
    <2> HIDE DEF P
    <2> QED BY <1>1, <2>1, <2>2, NotInCircle DEF Deadlocked
  <1>7. call[c].pc \in {"lock", "update", "touch", "advance"} => call[c].held = {}
    BY <1>1 DEF Sound, Creators, Quiet, Partless
  <1> QED BY <1>4, <1>5, <1>6, <1>7

LEMMA CirclesKnown == PInv => CirclesUseApplication
  BY NoRowCircle, SimpleCallsPass DEF CirclesUseApplication

THEOREM ProcessingInvariant == Spec => []PInv
  <1> QED BY PInit, PKept, PTL DEF Spec

\* For any number of documents, overlapping calls and faults: the stage of
\* processingStage.service.ts is where the committed jobs, stamps and reviews put
\* it and says nothing that was not recorded, automatic retries end, every circle
\* of waiting transactions runs through the application's row, which the foreign
\* key of an inserted job or an UPDATE touches before FOR UPDATE is asked for, and
\* a failure, a forced retry or a plain advance is in none.
THEOREM StageFollows == Spec => []StageFollowsJobs
  <1>1. PInv => StageFollowsJobs BY CirclesKnown DEF PInv, StageFollowsJobs
  <1> QED BY <1>1, ProcessingInvariant, PTL

LEMMA CompletionKept ==
  ASSUME PInv, [Next]_vars, job["bank"].status = "completed", job'["bank"].status = "pending"
  PROVE  job'["bank"].forced > job["bank"].forced
  <1>1. TypeOK /\ job["bank"] \in JobState BY TypeCall, JobNames DEF PInv
  <1>2. job' # job BY <1>1
  <1>3. PICK c \in Calls : CommitAdvanced(c) \/ CommitFailed(c) \/ CommitRetry(c)
    <2>1. \A c \in Calls : Moves(c) => job' = job
      BY DEF Moves, LockRows, NotFound, ReadNoJob, ReadFailedJob, ReadNothingToDo, UpdateJob,
             CloseRows, TouchApplication, Advance, DeadlockVictim, Fault, Start, StartUpload, Rest
    <2> QED BY <1>2, <2>1 DEF Next, CallStep, Moves, Stamp, CommitUpload, vars
  <1>4. /\ Commits(c) /\ CallInv(c) /\ Sound(call[c]) /\ call[c] \in CallState
        /\ call[c].pc = "commit"
    BY <1>1, <1>3, CommitIs, TypeCall DEF PInv, CallInv, Commits
  <1>5. ~(call[c].write = TRUE /\ "bank" = call[c].j)
    <2> SUFFICES ASSUME call[c].write = TRUE, "bank" = call[c].j PROVE FALSE
      OBVIOUS
    <2>1. call[c].op = "createBank" BY <1>4, JobNames DEF Sound, Creators
    <2> QED BY <1>4, <2>1 DEF CallInv, BankOpen
  <1>6. call[c].op = "retry" BY <1>1, <1>4, <1>5, RowEffect, JobNames
  <1>7. job'["bank"] = JobAfter(c)["bank"] BY <1>4, JobNames DEF Commits
  <1>8. CASE call[c].j = "bank"
    <2>1. job'["bank"] = Reopened(job["bank"], 1)
      BY <1>1, <1>4, <1>6, <1>7, <1>8, JobsWritten, JobNames
    <2>2. Reopened(job["bank"], 1).forced = job["bank"].forced + 1 BY <1>1, RowWrites
    <2>3. job["bank"].forced \in Nat BY <1>1 DEF JobState
    <2> QED BY <2>1, <2>2, <2>3
  <1>9. CASE call[c].j # "bank"
    <2>1. call[c].write = FALSE BY <1>4, <1>6 DEF Sound, Creators, CallState
    <2>2. \/ job'["bank"] = job["bank"]
          \/ job'["bank"] = Closed(job["bank"], "failed")
      BY <1>1, <1>4, <1>6, <1>7, <1>9, <2>1, JobsWritten, JobNames
    <2>3. Closed(job["bank"], "failed").status = "completed"
      <3>1. Closed(job["bank"], "failed").status
              = IF job["bank"].status = "pending" THEN "failed" ELSE job["bank"].status
        BY <1>1, RowWrites
      <3> QED BY <3>1
    <2> QED BY <2>2, <2>3
  <1> QED BY <1>8, <1>9

\* No creation that read the banking job while it was failed overwrites a
\* completion: markBankingAnalysisCompleted needs the application that
\* createBankingAnalysisJob keeps locked.
THEOREM CompletionStands == Spec => BankingCompletionStands
  <1>1. PInv /\ [Next]_vars
          => [ (job["bank"].status = "completed" /\ job'["bank"].status = "pending")
               => job'["bank"].forced > job["bank"].forced ]_vars
    BY CompletionKept
  <1> QED BY <1>1, ProcessingInvariant, PTL DEF Spec, BankingCompletionStands
=============================================================================
