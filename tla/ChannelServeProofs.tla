------------------------- MODULE ChannelServeProofs -------------------------
(***************************************************************************)
(* No message of a polling channel is lost, for any number of processes,   *)
(* updates and faults.  NoMessageLost is about the file and the platform;  *)
(* it is inductive only together with what every process knows: the offset *)
(* in its memory covers answered messages only, and what its pending       *)
(* offset covers is answered or still in its batch.                        *)
(*                                                                         *)
(* Nor is one answered twice without a cause: as long as one process       *)
(* serves at a time, what was answered is behind the offset on disk, or    *)
(* behind the process in the middle of its batch, or was exposed by a      *)
(* failure in the loop (Alone).                                            *)
(***************************************************************************)
EXTENDS ChannelServe, WellFoundedInduction, TLAPS

\* What offset n covers is answered.
Covered(n, a) == \A m \in Allowed : m <= n => a[m] > 0

\* What a process q may rely on, when the answers are a.
Tracks(q, a) ==
    /\ Covered(q.cur, a)
    /\ \A m \in Allowed : m <= q.pend => m \in q.batch \/ a[m] > 0
    /\ \A m \in q.batch : m <= q.pend
    /\ q.at \in {"begin", "run", "ack"} => q.batch # {}
    /\ q.at \in {"poll", "complete"} => q.batch = {}
    /\ q.at = "ack" => a[First(q.batch)] > 0

ChannelInv ==
    /\ ChannelTypeOK
    /\ Covered(offset, answered)
    /\ Covered(forgotten, answered)
    /\ \A p \in Processes : Tracks(proc[p], answered)

-----------------------------------------------------------------------------
(* Helpers                                                                 *)

\* The first message of a batch exists: < is well-founded.
LEMMA FirstIsLeast ==
  ASSUME NEW S \in SUBSET Nat, S # {}
  PROVE  First(S) \in S /\ \A n \in S : First(S) <= n
  <1> DEFINE R == {ss \in Nat \X Nat : ss[1] < ss[2]}
  <1>1. OpToRel(<, Nat) = R
    BY Zenon DEF OpToRel
  <1>2. IsWellFoundedOn(R, Nat)
    BY <1>1, NatLessThanWellFounded, Zenon
  <1>3. PICK m \in S : \A n \in S : ~(<<n, m>> \in R)
    <2> HIDE DEF R
    <2> QED BY <1>2, WFMin, Zenon
  <1>4. \A n \in Nat : n < m => <<n, m>> \in R
    BY DEF R
  <1>5. \A n \in S : ~(n < m)
    BY <1>3, <1>4
  <1>6. \A n \in S : m <= n
    BY <1>5
  <1> QED BY <1>6 DEF First

LEMMA Positive == \A m \in Allowed : m \in Nat /\ ~(m <= 0)
  BY UpdatesAssumption

LEMMA BatchFirst ==
  ASSUME NEW q \in Process, q.batch # {}
  PROVE  /\ First(q.batch) \in q.batch
         /\ First(q.batch) \in Allowed
         /\ First(q.batch) \in 1..NumUpdates
         /\ \A n \in q.batch : First(q.batch) <= n
  <1>1. q.batch \in SUBSET Allowed
    BY DEF Process
  <1>2. q.batch \in SUBSET Nat
    <2>1. Allowed \subseteq Nat
      BY UpdatesAssumption
    <2> QED BY <1>1, <2>1
  <1> QED BY <1>1, <1>2, FirstIsLeast, UpdatesAssumption

\* What a record tracks depends on these fields.
LEMMA SameFields ==
  ASSUME NEW a, NEW q, NEW r, Tracks(q, a), r.cur = q.cur, r.pend = q.pend,
         r.batch = q.batch, r.at \notin {"poll", "begin", "run", "ack", "complete"}
  PROVE  Tracks(r, a)
  BY DEF Tracks

\* A process at the gate, or gone, has no batch.
LEMMA NoProcessTracks ==
  ASSUME NEW a, NEW step \in {"off", "stop", "exit", "poll"}, NEW n \in 0..NumUpdates,
         Covered(n, a)
  PROVE  /\ [NoProcess EXCEPT !.at = step] \in Process
         /\ Tracks([NoProcess EXCEPT !.at = step], a)
         /\ [[NoProcess EXCEPT !.at = step] EXCEPT !.cur = n] \in Process
         /\ Tracks([[NoProcess EXCEPT !.at = step] EXCEPT !.cur = n], a)
  <1>1. NoProcess \in Process
    <2>1. 0 \in 0..NumUpdates /\ "off" \in Steps
      BY UpdatesAssumption DEF Steps
    <2> QED BY <2>1 DEF NoProcess, Process
  <1>2. NoProcess.cur = 0 /\ NoProcess.pend = 0 /\ NoProcess.batch = {}
    BY DEF NoProcess
  <1>3. \A m \in Allowed : ~(m <= 0)
    BY UpdatesAssumption
  <1> DEFINE q == [NoProcess EXCEPT !.at = step]
             r == [q EXCEPT !.cur = n]
  <1>4. q \in Process /\ q.at = step /\ q.cur = 0 /\ q.pend = 0 /\ q.batch = {}
    BY <1>1, <1>2 DEF Process, Steps, Serving
  <1> HIDE DEF q
  <1>5. r \in Process /\ r.at = step /\ r.cur = n /\ r.pend = 0 /\ r.batch = {}
    BY <1>4 DEF Process
  <1> HIDE DEF r
  <1>6. Tracks(r, a)
    BY <1>3, <1>5 DEF Tracks
  <1>7. Tracks(q, a)
    BY <1>3, <1>4 DEF Tracks, Covered
  <1> QED BY <1>4, <1>5, <1>6, <1>7 DEF r, q

\* Nor has one that leaves the loop, or is going to.
LEMMA LeavingTracks ==
  ASSUME ChannelInv
  PROVE  /\ Leaving \in Process /\ Tracks(Leaving, answered)
         /\ Failing \in Process /\ Tracks(Failing, answered)
         /\ NoProcess \in Process /\ Tracks(NoProcess, answered)
         /\ [NoProcess EXCEPT !.at = "exit"] \in Process
         /\ Tracks([NoProcess EXCEPT !.at = "exit"], answered)
  <1>1. ASSUME NEW step \in {"off", "stop", "exit", "poll"}
        PROVE  /\ [NoProcess EXCEPT !.at = step] \in Process
               /\ Tracks([NoProcess EXCEPT !.at = step], answered)
    BY <1>1, NoProcessTracks DEF ChannelInv, ChannelTypeOK
  <1>2. NoProcess = [NoProcess EXCEPT !.at = "off"]
    BY DEF NoProcess
  <1>3. NoProcess \in Process /\ Tracks(NoProcess, answered)
    BY <1>1, <1>2
  <1>4. Leaving \in Process /\ Tracks(Leaving, answered)
    BY <1>1 DEF Leaving
  <1>5. Failing \in Process
    BY <1>3 DEF Failing, Process, Steps, Serving
  <1>6. /\ Failing.at = "end" /\ Failing.cur = NoProcess.cur
        /\ Failing.pend = NoProcess.pend /\ Failing.batch = NoProcess.batch
    BY DEF Failing, NoProcess
  <1>7. Tracks(Failing, answered)
    BY <1>3, <1>6, SameFields
  <1>8. /\ [NoProcess EXCEPT !.at = "exit"] \in Process
        /\ Tracks([NoProcess EXCEPT !.at = "exit"], answered)
    BY <1>1
  <1> QED BY <1>3, <1>4, <1>5, <1>7, <1>8

\* A step to a place where nothing is expected of the batch.
LEMMA MoveTracks ==
  ASSUME NEW a, NEW q \in Process, Tracks(q, a),
         NEW step \in Steps \ {"poll", "begin", "run", "ack", "complete"}
  PROVE  /\ Move(q, step) \in Process
         /\ Tracks(Move(q, step), a)
  BY DEF Move, Process, Tracks

LEMMA DoomedTracks ==
  ASSUME NEW a, NEW q \in Process, Tracks(q, a), NEW D \in SUBSET Processes,
         NEW step \in Starting
  PROVE  /\ [q EXCEPT !.at = step, !.doomed = D] \in Process
         /\ Tracks([q EXCEPT !.at = step, !.doomed = D], a)
  <1> DEFINE r == [q EXCEPT !.at = step, !.doomed = D]
  <1>1. r \in Process
    BY DEF Process, Steps
  <1>2. r.at = step /\ r.cur = q.cur /\ r.pend = q.pend /\ r.batch = q.batch
    BY DEF Process
  <1> HIDE DEF r
  <1>3. Tracks(r, a)
    BY <1>2, SameFields DEF Starting
  <1> QED BY <1>1, <1>3 DEF r

\* Most steps change one process and no answer.
LEMMA OneProcess ==
  ASSUME ChannelInv, NEW p \in Processes, NEW r \in Process, Tracks(r, answered),
         proc' = [proc EXCEPT ![p] = r], answered' = answered
  PROVE  /\ proc' \in [Processes -> Process]
         /\ \A s \in Processes : Tracks(proc'[s], answered')
         /\ answered' \in [Allowed -> 0..2]
  BY DEF ChannelInv, ChannelTypeOK

LEMMA ScanInv ==
  ASSUME ChannelInv, NEW p \in Processes, NEW step \in {"clear", "reclear"}, Scan(p, step)
  PROVE  ChannelInv'
  <1>1. PICK r \in Process : Tracks(r, answered) /\ proc' = [proc EXCEPT ![p] = r]
    <2>1. PICK D \in SUBSET Processes : proc' = [proc EXCEPT ![p].at = step, ![p].doomed = D]
      BY DEF Scan
    <2> DEFINE r == [proc[p] EXCEPT !.at = step, !.doomed = D]
    <2>2. r \in Process /\ Tracks(r, answered)
      BY DoomedTracks DEF ChannelInv, ChannelTypeOK, Starting
    <2>3. proc' = [proc EXCEPT ![p] = r]
      BY <2>1 DEF ChannelInv, ChannelTypeOK, Process
    <2> QED BY <2>2, <2>3
  <1>2. UNCHANGED <<updates, file, beat, history, faults>>
    BY DEF Scan
  <1> QED BY <1>1, <1>2, OneProcess DEF ChannelInv, ChannelTypeOK, updates, history

LEMMA ClearInv ==
  ASSUME ChannelInv, NEW p \in Processes, NEW step \in {"check", "create"}, Clear(p, step)
  PROVE  ChannelInv'
  <1> DEFINE r == [proc[p] EXCEPT !.at = step, !.doomed = {}]
  <1>1. r \in Process /\ Tracks(r, answered)
    BY DoomedTracks DEF ChannelInv, ChannelTypeOK, Starting
  <1>2. proc' = [proc EXCEPT ![p] = r]
    BY DEF Clear, ChannelInv, ChannelTypeOK, Process
  <1>3. file' \in [Processes -> FileStates] /\ UNCHANGED <<updates, beat, history, faults>>
    BY DEF Clear, ChannelInv, ChannelTypeOK, FileStates
  <1> HIDE DEF r
  <1> QED BY <1>1, <1>2, <1>3, OneProcess DEF ChannelInv, ChannelTypeOK, updates, history

LEMMA LaunchInv ==
  ASSUME ChannelInv, NEW p \in Processes, Launch(p) PROVE ChannelInv'
  <1>1. CASE Check(p)
    <2>1. PICK step \in {"off", "rescan"} : Goto(p, step)
      BY <1>1 DEF Check
    <2>2. proc[p] \in Process /\ Tracks(proc[p], answered)
      BY DEF ChannelInv, ChannelTypeOK
    <2>3. Move(proc[p], step) \in Process /\ Tracks(Move(proc[p], step), answered)
      BY <2>2, MoveTracks DEF Steps, Starting
    <2>4. UNCHANGED <<updates, file, beat, history, faults>>
      BY <1>1 DEF Check
    <2> QED BY <2>1, <2>3, <2>4, OneProcess DEF Goto, ChannelInv, ChannelTypeOK, updates, history
  <1> QED BY <1>1, ScanInv, ClearInv DEF Launch

-----------------------------------------------------------------------------
(* The steps of a process that serves                                      *)

\* The next round starts with no pending offset.
LEMMA NextRoundTracks ==
  ASSUME ChannelInv, NEW p \in Processes, NEW q \in Process, Tracks(q, answered),
         q.batch = {}
  PROVE  NextRound(p, q) \in Process /\ Tracks(NextRound(p, q), answered)
  <1>1. \A m \in Allowed : ~(m <= 0)
    BY Positive
  <1> DEFINE r == [q EXCEPT !.at = "poll", !.pend = 0]
  <1>2. 0 \in 0..NumUpdates /\ "poll" \in Steps
    BY UpdatesAssumption DEF Steps, Serving
  <1>3. /\ r \in Process
        /\ r.at = "poll" /\ r.cur = q.cur /\ r.pend = 0 /\ r.batch = q.batch
    BY <1>2 DEF Process
  <1> HIDE DEF r
  <1>4. Tracks(r, answered)
    BY <1>3, <1>1 DEF Tracks
  <1> QED BY <1>3, <1>4, LeavingTracks DEF NextRound, r

LEMMA WriteStateType ==
  ASSUME ChannelInv, NEW p \in Processes, WriteState(p)
  PROVE  file' \in [Processes -> FileStates]
  BY DEF WriteState, ChannelInv, ChannelTypeOK, FileStates, TrackerStates

LEMMA CreatedInv ==
  ASSUME ChannelInv, NEW p \in Processes, Created(p) PROVE ChannelInv'
  <1> DEFINE r == [NoProcess EXCEPT !.at = "poll", !.cur = offset]
  <1>1. r \in Process /\ Tracks(r, answered)
    <2>1. r = [[NoProcess EXCEPT !.at = "poll"] EXCEPT !.cur = offset]
      BY DEF NoProcess
    <2> QED BY <2>1, NoProcessTracks DEF ChannelInv, ChannelTypeOK
  <1>2. file' \in [Processes -> FileStates]
    BY WriteStateType DEF Created
  <1> HIDE DEF r
  <1>3. /\ proc' = [proc EXCEPT ![p] = r]
        /\ UNCHANGED <<updates, beat, answered, exposed, faults>>
        /\ shared' \in BOOLEAN
    BY DEF Created, r, ChannelInv, ChannelTypeOK
  <1> QED BY <1>1, <1>2, <1>3, OneProcess DEF ChannelInv, ChannelTypeOK, updates

\* The updates below the polled ones are answered, by the offset the platform
\* was told or by one that it was told before; the others are in the batch.
LEMMA PollInv ==
  ASSUME ChannelInv, NEW p \in Processes, Poll(p) PROVE ChannelInv'
  <1> DEFINE q == proc[p]
             lo == Larger(forgotten, q.cur) + 1
  <1>1. q \in Process /\ Tracks(q, answered) /\ q.at = "poll"
    BY DEF Poll, ChannelInv, ChannelTypeOK
  <1>2. lo - 1 \in 0..NumUpdates /\ lo \in Nat /\ Covered(lo - 1, answered)
    BY <1>1, UpdatesAssumption DEF ChannelInv, ChannelTypeOK, Larger, Tracks, Process, Covered
  <1>3. forgotten' \in 0..NumUpdates /\ Covered(forgotten', answered)
    BY <1>2 DEF Poll, ChannelInv, ChannelTypeOK
  <1>4. UNCHANGED <<platform, offset, file, beat, history, faults>>
    BY DEF Poll
  <1>5. PICK r \in Process : Tracks(r, answered) /\ proc' = [proc EXCEPT ![p] = r]
    <2> DEFINE Empty == proc' = [proc EXCEPT ![p] = NextRound(p, q)]
    <2>1. CASE Empty
      <3> HIDE DEF q
      <3>1. q.batch = {}
        BY <1>1 DEF Tracks
      <3>2. NextRound(p, q) \in Process /\ Tracks(NextRound(p, q), answered)
        BY <1>1, <3>1, NextRoundTracks
      <3> QED BY <2>1, <3>2 DEF q
    <2>2. CASE ~Empty
      <3> DEFINE Batch(upto) == Allowed \cap lo..upto
                 Polled(upto) == [q EXCEPT !.pend = upto, !.batch = Batch(upto)]
                 After(upto) == IF Polled(upto).batch = {} THEN Move(Polled(upto), "complete")
                                ELSE Move(Polled(upto), "begin")
      <3>1. PICK upto \in lo..NumUpdates : proc' = [proc EXCEPT ![p] = After(upto)]
        BY <2>2 DEF Poll, Parsed
      <3>2. upto \in 0..NumUpdates
        BY <1>2, UpdatesAssumption
      <3>3. \A m \in Allowed : m <= upto => m \in Batch(upto) \/ answered[m] > 0
        <4> SUFFICES ASSUME NEW m \in Allowed, m <= upto, m \notin Batch(upto)
                     PROVE  answered[m] > 0
          OBVIOUS
        <4>1. m \in Nat /\ m <= lo - 1
          BY <1>2, <3>2, UpdatesAssumption
        <4> QED BY <4>1, <1>2 DEF Covered
      <3>4. Batch(upto) \subseteq Allowed /\ \A m \in Batch(upto) : m <= upto
        BY <1>2, <3>2
      <3> HIDE DEF Batch, lo
      <3>5. After(upto) \in Process /\ Tracks(After(upto), answered)
        BY <1>1, <3>2, <3>3, <3>4 DEF Process, Tracks, Move, Steps, Serving
      <3> HIDE DEF After
      <3> QED BY <3>1, <3>5
    <2> QED BY <2>1, <2>2
  <1> HIDE DEF q, lo
  <1> QED BY <1>3, <1>4, <1>5, OneProcess DEF ChannelInv, ChannelTypeOK, history

LEMMA BegunInv ==
  ASSUME ChannelInv, NEW p \in Processes, Begun(p) PROVE ChannelInv'
  <1> DEFINE r == Move(proc[p], "run")
  <1>1. r \in Process /\ Tracks(r, answered)
    BY DEF Begun, ChannelInv, ChannelTypeOK, Process, Tracks, Move, Steps, Serving
  <1>2. file' \in [Processes -> FileStates]
    BY WriteStateType DEF Begun
  <1> HIDE DEF r
  <1>3. proc' = [proc EXCEPT ![p] = r] /\ UNCHANGED <<updates, beat, history, faults>>
    BY DEF Begun, Goto, r
  <1> QED BY <1>1, <1>2, <1>3, OneProcess DEF ChannelInv, ChannelTypeOK, updates, history

\* Answers only grow, so nobody loses what it relies on.
LEMMA AnswerInv ==
  ASSUME ChannelInv, NEW p \in Processes, Answer(p) PROVE ChannelInv'
  <1> DEFINE q == proc[p]
             m == First(q.batch)
  <1>1. q \in Process /\ Tracks(q, answered) /\ q.batch # {} /\ q.at = "run"
    BY DEF Answer, ChannelInv, ChannelTypeOK, Tracks
  <1>2. m \in Allowed /\ m \in q.batch
    <2> HIDE DEF q
    <2> QED BY <1>1, BatchFirst
  <1>3. /\ answered' \in [Allowed -> 0..2]
        /\ answered'[m] > 0
        /\ \A n \in Allowed : answered[n] > 0 => answered'[n] > 0
    BY <1>2 DEF Answer, ChannelInv, ChannelTypeOK
  <1>4. /\ UNCHANGED <<updates, file, beat, shared, exposed, faults>>
        /\ proc' = [proc EXCEPT ![p] = Move(q, "ack")]
    BY DEF Answer, Goto
  <1>5. Covered(offset', answered') /\ Covered(forgotten', answered')
    BY <1>3, <1>4 DEF ChannelInv, Covered, updates
  <1>6. \A s \in Processes : Tracks(proc[s], answered')
    <2> SUFFICES ASSUME NEW s \in Processes PROVE Tracks(proc[s], answered')
      OBVIOUS
    <2>1. proc[s] \in Process /\ Tracks(proc[s], answered)
      BY DEF ChannelInv, ChannelTypeOK
    <2>2. proc[s].at = "ack" => First(proc[s].batch) \in Allowed
      BY <2>1, BatchFirst DEF Tracks
    <2> QED BY <1>3, <2>1, <2>2 DEF Tracks, Covered
  <1>7. Move(q, "ack") \in Process /\ Tracks(Move(q, "ack"), answered')
    <2>1. Tracks(q, answered')
      BY <1>6
    <2> HIDE DEF q
    <2> QED BY <1>1, <1>3, <2>1 DEF Process, Tracks, Move, Steps, Serving
  <1> HIDE DEF q
  <1>8. proc' \in [Processes -> Process] /\ \A s \in Processes : Tracks(proc'[s], answered')
    BY <1>4, <1>6, <1>7 DEF ChannelInv, ChannelTypeOK
  <1> QED BY <1>3, <1>4, <1>5, <1>8 DEF ChannelInv, ChannelTypeOK, updates

\* The acknowledged message is the first of the batch: what is below it is
\* answered.
LEMMA AckInv ==
  ASSUME ChannelInv, NEW p \in Processes, Ack(p) PROVE ChannelInv'
  <1> DEFINE q == proc[p]
             m == First(q.batch)
             k == AckCursor(q)
             r == [Move(Persisted(q, k), "end") EXCEPT !.batch = @ \ {First(@)}]
  <1>1. q \in Process /\ Tracks(q, answered) /\ q.batch # {} /\ q.at = "ack"
    BY DEF Ack, ChannelInv, ChannelTypeOK, Tracks
  <1>2. m \in q.batch /\ m \in Allowed /\ m \in 1..NumUpdates /\ \A n \in q.batch : m <= n
    <2> HIDE DEF q
    <2> QED BY <1>1, BatchFirst
  <1>3. Covered(m, answered)
    <2> SUFFICES ASSUME NEW n \in Allowed, n <= m PROVE answered[n] > 0
      BY DEF Covered
    <2>1. n \in Nat /\ m <= q.pend /\ q.pend \in Nat
      BY <1>1, <1>2, UpdatesAssumption DEF Process, Tracks
    <2>2. n \in q.batch \/ answered[n] > 0
      BY <1>1, <1>2, <2>1, UpdatesAssumption DEF Tracks
    <2>3. CASE n \in q.batch
      <3>1. n = m
        BY <1>2, <2>1, <2>3
      <3> QED BY <3>1, <1>1 DEF Tracks
    <2> QED BY <2>2, <2>3
  <1>4. k \in 0..NumUpdates /\ Covered(k, answered)
    BY <1>2, <1>3, UpdatesAssumption DEF AckCursor, Covered
  <1> HIDE DEF k
  <1>5. /\ r \in Process
        /\ r.at = "end" /\ r.cur = Larger(q.cur, k) /\ r.pend = q.pend
        /\ r.batch = q.batch \ {m}
    <2>1. Move(Persisted(q, k), "end") \in Process
      BY <1>1, <1>4 DEF Move, Persisted, Larger, Process, Steps, Serving
    <2>2. Move(Persisted(q, k), "end").batch = q.batch
      BY <1>1 DEF Move, Persisted, Process
    <2> QED BY <1>1, <2>1, <2>2 DEF Move, Persisted, Process
  <1>6. \A n \in Allowed : n <= q.pend => n \in q.batch \ {m} \/ answered[n] > 0
    BY <1>1, <1>2 DEF Tracks
  <1> HIDE DEF q, m, r
  <1>7. Tracks(r, answered)
    BY <1>1, <1>4, <1>5, <1>6 DEF Larger, Tracks
  <1>8. offset' \in 0..NumUpdates /\ Covered(offset', answered)
    BY <1>4 DEF Ack, Saved, ChannelInv, ChannelTypeOK, k, q
  <1>9. /\ proc' = [proc EXCEPT ![p] = r]
        /\ UNCHANGED <<platform, forgotten, file, beat, history, faults>>
    BY DEF Ack, ChannelInv, ChannelTypeOK, r, k, q
  <1> QED BY <1>5, <1>7, <1>8, <1>9, OneProcess DEF ChannelInv, ChannelTypeOK, history

LEMMA EndedInv ==
  ASSUME ChannelInv, NEW p \in Processes, Ended(p) PROVE ChannelInv'
  <1> DEFINE r == AfterMessage(proc[p])
  <1>1. r \in Process /\ Tracks(r, answered)
    BY LeavingTracks
       DEF ChannelInv, ChannelTypeOK, AfterMessage, Process, Tracks, Move, Steps, Serving
  <1>2. file' \in [Processes -> FileStates]
    BY WriteStateType DEF Ended
  <1> HIDE DEF r
  <1>3. proc' = [proc EXCEPT ![p] = r] /\ UNCHANGED <<updates, beat, history, faults>>
    BY DEF Ended, ChannelInv, ChannelTypeOK, r
  <1> QED BY <1>1, <1>2, <1>3, OneProcess DEF ChannelInv, ChannelTypeOK, updates, history

LEMMA CompleteBatchInv ==
  ASSUME ChannelInv, NEW p \in Processes, CompleteBatch(p) PROVE ChannelInv'
  <1> DEFINE q == proc[p]
             t == Persisted(q, q.pend)
             r == NextRound(p, t)
  <1>1. q \in Process /\ Tracks(q, answered) /\ q.batch = {} /\ q.at = "complete"
    BY DEF CompleteBatch, ChannelInv, ChannelTypeOK, Tracks
  <1>2. q.pend \in 0..NumUpdates /\ Covered(q.pend, answered)
    BY <1>1 DEF Process, Tracks, Covered
  <1> HIDE DEF q
  <1>3. /\ t \in Process
        /\ t.at = "complete" /\ t.cur = Larger(q.cur, q.pend) /\ t.pend = q.pend
        /\ t.batch = {}
    BY <1>1, <1>2 DEF Persisted, Larger, Process
  <1> HIDE DEF t
  <1>4. Tracks(t, answered)
    BY <1>1, <1>2, <1>3 DEF Larger, Tracks
  <1>5. r \in Process /\ Tracks(r, answered)
    BY <1>3, <1>4, NextRoundTracks
  <1> HIDE DEF r
  <1>6. offset' \in 0..NumUpdates /\ Covered(offset', answered)
    BY <1>2 DEF CompleteBatch, Saved, ChannelInv, ChannelTypeOK, q
  <1>7. /\ proc' = [proc EXCEPT ![p] = r]
        /\ UNCHANGED <<platform, forgotten, file, beat, history, faults>>
    BY DEF CompleteBatch, r, t, q
  <1> QED BY <1>5, <1>6, <1>7, OneProcess DEF ChannelInv, ChannelTypeOK, history

LEMMA EndInv ==
  ASSUME ChannelInv, NEW p \in Processes, ShutDown(p) \/ Exit(p) PROVE ChannelInv'
  <1>1. CASE ShutDown(p)
    <2> DEFINE r == [NoProcess EXCEPT !.at = "exit"]
    <2>1. r \in Process /\ Tracks(r, answered)
      BY LeavingTracks
    <2>2. file' \in [Processes -> FileStates]
      BY <1>1, WriteStateType DEF ShutDown
    <2> HIDE DEF r
    <2>3. proc' = [proc EXCEPT ![p] = r] /\ UNCHANGED <<updates, beat, history, faults>>
      BY <1>1 DEF ShutDown, r
    <2> QED BY <2>1, <2>2, <2>3, OneProcess DEF ChannelInv, ChannelTypeOK, updates, history
  <1>2. CASE Exit(p)
    <2> DEFINE r == Move(proc[p], "off")
    <2>1. r \in Process /\ Tracks(r, answered)
      BY MoveTracks DEF ChannelInv, ChannelTypeOK, Steps
    <2> HIDE DEF r
    <2>2. /\ proc' = [proc EXCEPT ![p] = r]
          /\ beat' \in [Processes -> BOOLEAN]
          /\ UNCHANGED <<updates, file, history, faults>>
      BY <1>2 DEF Exit, Goto, ChannelInv, ChannelTypeOK, r
    <2> QED BY <2>1, <2>2, OneProcess DEF ChannelInv, ChannelTypeOK, updates, history
  <1> QED BY <1>1, <1>2

\* The heartbeat, and time.
LEMMA BeatInv ==
  ASSUME ChannelInv, NEW p \in Processes, Beat(p) \/ WriteBeat(p) \/ Age(p)
  PROVE  ChannelInv'
  <1>1. /\ file' \in [Processes -> FileStates]
        /\ beat' \in [Processes -> BOOLEAN]
        /\ UNCHANGED <<updates, proc, history, faults>>
    BY DEF Beat, WriteBeat, Age, ChannelInv, ChannelTypeOK, FileStates, TrackerStates
  <1> QED BY <1>1 DEF ChannelInv, ChannelTypeOK, updates, history

-----------------------------------------------------------------------------
(* Faults                                                                  *)

LEMMA FaultType == ASSUME ChannelInv, Fault PROVE faults' \in 0..MaxFaults
  BY MaxFaultsAssumption DEF Fault, ChannelInv, ChannelTypeOK

LEMMA ExposeType ==
  ASSUME ChannelInv, NEW p \in Processes, Expose(p) PROVE exposed' \subseteq Allowed
  BY DEF Expose, ChannelInv, ChannelTypeOK

LEMMA PollFailsInv ==
  ASSUME ChannelInv, NEW p \in Processes, PollFails(p) PROVE ChannelInv'
  <1>1. /\ proc' = [proc EXCEPT ![p] = Leaving]
        /\ faults' \in 0..MaxFaults
        /\ UNCHANGED <<updates, file, beat, history>>
    BY FaultType DEF PollFails
  <1> QED BY <1>1, LeavingTracks, OneProcess DEF ChannelInv, ChannelTypeOK, updates, history

LEMMA AnswerFailsInv ==
  ASSUME ChannelInv, NEW p \in Processes, AnswerFails(p) PROVE ChannelInv'
  <1>1. /\ proc' = [proc EXCEPT ![p] = Failing]
        /\ faults' \in 0..MaxFaults
        /\ exposed' \subseteq Allowed
        /\ UNCHANGED <<updates, file, beat, answered, shared>>
    BY FaultType, ExposeType DEF AnswerFails
  <1> QED BY <1>1, LeavingTracks, OneProcess DEF ChannelInv, ChannelTypeOK, updates

\* An offset file that has been emptied covers nothing.
LEMMA EmptiedOffset ==
  ASSUME ChannelInv, offset' \in {offset, 0}
  PROVE  offset' \in 0..NumUpdates /\ Covered(offset', answered)
  BY UpdatesAssumption DEF ChannelInv, ChannelTypeOK, Covered

LEMMA SaveFailsInv ==
  ASSUME ChannelInv, NEW p \in Processes, SaveFails(p) PROVE ChannelInv'
  <1>1. PICK r \in {Failing, Leaving} : proc' = [proc EXCEPT ![p] = r]
    BY DEF SaveFails
  <1>2. r \in Process /\ Tracks(r, answered)
    BY LeavingTracks
  <1>3. /\ faults' \in 0..MaxFaults
        /\ exposed' \subseteq Allowed
        /\ UNCHANGED <<platform, forgotten, file, beat, answered, shared>>
    BY FaultType, ExposeType DEF SaveFails
  <1>4. offset' \in 0..NumUpdates /\ Covered(offset', answered)
    BY EmptiedOffset DEF SaveFails
  <1> QED BY <1>1, <1>2, <1>3, <1>4, OneProcess DEF ChannelInv, ChannelTypeOK

LEMMA BeatFailsInv ==
  ASSUME ChannelInv, NEW p \in Processes, BeatFails(p) PROVE ChannelInv'
  <1>1. /\ file' \in [Processes -> FileStates]
        /\ faults' \in 0..MaxFaults
        /\ beat' \in [Processes -> BOOLEAN]
        /\ UNCHANGED <<updates, proc, history>>
    BY FaultType DEF BeatFails, ChannelInv, ChannelTypeOK, FileStates
  <1> QED BY <1>1 DEF ChannelInv, ChannelTypeOK, updates, history

LEMMA WriteFailsInv ==
  ASSUME ChannelInv, NEW p \in Processes, WriteFails(p) PROVE ChannelInv'
  <1>1. PICK r \in {NoProcess, [NoProcess EXCEPT !.at = "exit"], Leaving} :
           proc' = [proc EXCEPT ![p] = r]
    BY DEF WriteFails
  <1>2. r \in Process /\ Tracks(r, answered)
    BY LeavingTracks
  <1>3. /\ file' \in [Processes -> FileStates]
        /\ faults' \in 0..MaxFaults
        /\ exposed' \subseteq Allowed
        /\ UNCHANGED <<updates, beat, answered, shared>>
    BY FaultType, ExposeType DEF WriteFails, ChannelInv, ChannelTypeOK, FileStates
  <1> QED BY <1>1, <1>2, <1>3, OneProcess DEF ChannelInv, ChannelTypeOK, updates

LEMMA CrashInv ==
  ASSUME ChannelInv, NEW p \in Processes, Crash(p) PROVE ChannelInv'
  <1>1. offset' \in 0..NumUpdates /\ Covered(offset', answered)
    BY EmptiedOffset DEF Crash
  <1>2. /\ file' \in [Processes -> FileStates]
        /\ beat' \in [Processes -> BOOLEAN]
        /\ faults' \in 0..MaxFaults
        /\ exposed' \subseteq Allowed
        /\ proc' = [proc EXCEPT ![p] = NoProcess]
        /\ UNCHANGED <<platform, forgotten, answered, shared>>
    BY FaultType, ExposeType DEF Crash, ChannelInv, ChannelTypeOK, FileStates
  <1> QED BY <1>1, <1>2, LeavingTracks, OneProcess DEF ChannelInv, ChannelTypeOK

-----------------------------------------------------------------------------
(* Theorems                                                                *)

LEMMA ChannelInitInv == Init => ChannelInv
  <1> SUFFICES ASSUME Init PROVE ChannelInv
    OBVIOUS
  <1>1. \A m \in Allowed : ~(m <= 0)
    BY UpdatesAssumption
  <1>2. NoProcess \in Process /\ Tracks(NoProcess, answered)
    <2>1. NoProcess = [NoProcess EXCEPT !.at = "off"]
      BY DEF NoProcess
    <2>2. Covered(0, answered) /\ 0 \in 0..NumUpdates
      BY <1>1, UpdatesAssumption DEF Covered
    <2> QED BY <2>1, <2>2, NoProcessTracks
  <1>3. ChannelTypeOK
    <2>1. 0 \in 0..NumUpdates /\ 0 \in 0..MaxFaults /\ 0 \in 0..2 /\ "absent" \in FileStates
      BY UpdatesAssumption, MaxFaultsAssumption DEF FileStates
    <2> QED BY <1>2, <2>1 DEF Init, ChannelTypeOK
  <1> QED BY <1>1, <1>2, <1>3 DEF Init, ChannelInv, Covered

LEMMA ChannelNextInv == ChannelInv /\ [Next]_vars => ChannelInv'
  <1> SUFFICES ASSUME ChannelInv, [Next]_vars PROVE ChannelInv'
    OBVIOUS
  <1>1. CASE UNCHANGED vars
    BY <1>1 DEF vars, ChannelInv, ChannelTypeOK
  <1>2. CASE Next
    <2> SUFFICES ASSUME NEW p \in Processes,
                        \/ Launch(p) \/ Serve(p)
                        \/ Beat(p) \/ WriteBeat(p) \/ Age(p)
                        \/ PollFails(p) \/ AnswerFails(p) \/ SaveFails(p)
                        \/ BeatFails(p) \/ WriteFails(p) \/ Crash(p)
                 PROVE  ChannelInv'
      BY <1>2 DEF Next
    <2>1. CASE Serve(p)
      BY <2>1, CreatedInv, PollInv, BegunInv, AnswerInv, AckInv, EndedInv,
         CompleteBatchInv, EndInv DEF Serve
    <2> QED BY <2>1, LaunchInv, BeatInv, PollFailsInv, AnswerFailsInv, SaveFailsInv,
               BeatFailsInv, WriteFailsInv, CrashInv
  <1> QED BY <1>1, <1>2

\* Type correctness of the files, the processes and the platform.
THEOREM ChannelTypeCorrect == Spec => []ChannelTypeOK
  <1>1. ChannelInv => ChannelTypeOK
    BY DEF ChannelInv
  <1> QED BY <1>1, ChannelInitInv, ChannelNextInv, PTL DEF Spec

\* What the offset file covers (save_offset), or the platform has dropped
\* because it was told an offset (getUpdates), was answered: through errors in
\* the middle of a batch, torn files, crashes, and processes that share the
\* account.
THEOREM MessagesAreNotLost == Spec => []NoMessageLost
  <1>1. ChannelInv => NoMessageLost
    BY DEF ChannelInv, ChannelTypeOK, Covered, NoMessageLost
  <1> QED BY <1>1, ChannelInitInv, ChannelNextInv, PTL DEF Spec
-----------------------------------------------------------------------------
(* Repeated answers                                                        *)

\* What was answered, e aside, is covered by the offset n on disk.
Resting(a, e, n) == \A m \in Allowed \ e : a[m] > 0 => m <= n

\* What was answered, e aside, is behind a process q in the loop: covered by its
\* offset, which is the one on disk, or taken from its batch, or the message that
\* it is about to acknowledge; the batch is ahead of the offset.
Behind(q, a, e, n) ==
    /\ q.cur = n
    /\ q.at = "poll" => q.pend = 0
    /\ \A m \in q.batch : m > q.cur
    /\ \A m \in Allowed \ e : a[m] > 0 =>
          \/ m <= q.cur
          \/ m <= q.pend /\ m \notin q.batch
          \/ q.at = "ack" /\ m = First(q.batch)

InLoop(q) == q.at \in Serving /\ ~q.failed

\* As long as nobody has served beside another, the account has one history.
Alone ==
    /\ \A p, q \in Processes : proc[p].at \in Serving /\ proc[q].at \in Serving => p = q
    /\ \A p \in Processes : proc[p].failed => proc[p].at = "end"
    /\ \A p \in Processes : InLoop(proc[p]) => Behind(proc[p], answered, exposed, offset)
    /\ (\A p \in Processes : ~InLoop(proc[p])) => Resting(answered, exposed, offset)
    /\ \A m \in Allowed : answered[m] > 1 => m \in exposed

AloneInv == ~shared => Alone

\* A step of one process that answers nothing.  Outside the loop it leaves the
\* offset alone; inside, it stays behind what was answered, or leaves at rest.
LEMMA OneStep ==
  ASSUME Alone, ChannelInv, NEW p \in Processes, NEW r,
         proc' = [proc EXCEPT ![p] = r], answered' = answered,
         exposed \subseteq exposed', r.failed => r.at = "end",
         r.at \in Serving => proc[p].at \in Serving,
         proc[p].at \notin Serving => offset' = offset /\ exposed' = exposed,
         InLoop(r) => Behind(r, answered, exposed', offset'),
         proc[p].at \in Serving /\ ~InLoop(r) => Resting(answered, exposed', offset')
  PROVE  Alone'
  <1>1. proc'[p] = r /\ \A q \in Processes \ {p} : proc'[q] = proc[q]
    BY DEF ChannelInv, ChannelTypeOK
  <1>2. \A q \in Processes : proc'[q].at \in Serving => proc[q].at \in Serving
    BY <1>1
  <1>3. \A q \in Processes : proc'[q].failed => proc'[q].at = "end"
    BY <1>1 DEF Alone
  <1>4. \A m \in Allowed : answered'[m] > 1 => m \in exposed'
    BY DEF Alone
  <1>5. CASE proc[p].at \in Serving
    <2>1. \A q \in Processes \ {p} : proc'[q].at \notin Serving
      BY <1>1, <1>5 DEF Alone
    <2>2. \A q \in Processes : InLoop(proc'[q]) => Behind(proc'[q], answered', exposed', offset')
      BY <1>1, <2>1 DEF InLoop
    <2>3. ~InLoop(proc'[p]) => Resting(answered', exposed', offset')
      BY <1>1, <1>5
    <2> QED BY <1>2, <1>3, <1>4, <2>2, <2>3 DEF Alone
  <1>6. CASE proc[p].at \notin Serving
    <2>1. \A q \in Processes : InLoop(proc'[q]) => q # p /\ proc'[q] = proc[q]
      BY <1>1, <1>2, <1>6 DEF InLoop
    <2>2. \A q \in Processes : InLoop(proc'[q]) => Behind(proc'[q], answered', exposed', offset')
      BY <1>6, <2>1 DEF Alone
    <2>3. \A q \in Processes : InLoop(proc[q]) => InLoop(proc'[q])
      BY <1>1, <1>6 DEF InLoop
    <2>4. (\A q \in Processes : ~InLoop(proc'[q])) => Resting(answered', exposed', offset')
      BY <1>6, <2>3 DEF Alone
    <2> QED BY <1>2, <1>3, <1>4, <2>2, <2>4 DEF Alone
  <1> QED BY <1>5, <1>6

\* The three ways out of the loop leave no process in it.
LEMMA OutOfLoop ==
  /\ Leaving.at \notin Serving /\ ~Leaving.failed
  /\ Failing.at = "end" /\ Failing.failed
  /\ NoProcess.at \notin Serving /\ ~NoProcess.failed
  /\ [NoProcess EXCEPT !.at = "exit"].at \notin Serving
  /\ ~[NoProcess EXCEPT !.at = "exit"].failed
  BY DEF Leaving, Failing, NoProcess, Serving

LEMMA LaunchAlone ==
  ASSUME Alone, ChannelInv, NEW p \in Processes, Launch(p) PROVE Alone'
  <1>1. proc[p] \in Process /\ ~proc[p].failed /\ proc[p].at \notin Serving
    BY DEF Launch, Check, Alone, ChannelInv, ChannelTypeOK, Serving
  <1> DEFINE Outside(r) == /\ proc' = [proc EXCEPT ![p] = r]
                           /\ r.at \notin Serving
                           /\ r.failed = proc[p].failed
  <1>2. PICK r : Outside(r)
    <2>1. CASE Check(p)
      <3>1. PICK step \in {"off", "rescan"} : Goto(p, step)
        BY <2>1 DEF Check
      <3>2. Move(proc[p], step).at = step /\ Move(proc[p], step).failed = proc[p].failed
        BY <1>1 DEF Move, Process
      <3> QED BY <3>1, <3>2 DEF Goto, Serving
    <2>2. ASSUME NEW step \in {"clear", "reclear"}, Scan(p, step) PROVE \E r : Outside(r)
      <3>1. PICK D \in SUBSET Processes : proc' = [proc EXCEPT ![p].at = step, ![p].doomed = D]
        BY <2>2 DEF Scan
      <3> DEFINE r == [proc[p] EXCEPT !.at = step, !.doomed = D]
      <3>2. proc' = [proc EXCEPT ![p] = r] /\ r.at = step /\ r.failed = proc[p].failed
        BY <1>1, <3>1 DEF ChannelInv, ChannelTypeOK, Process
      <3> QED BY <3>2 DEF Serving
    <2>3. ASSUME NEW step \in {"check", "create"}, Clear(p, step) PROVE \E r : Outside(r)
      <3> DEFINE r == [proc[p] EXCEPT !.at = step, !.doomed = {}]
      <3>2. proc' = [proc EXCEPT ![p] = r] /\ r.at = step /\ r.failed = proc[p].failed
        BY <1>1, <2>3 DEF Clear, ChannelInv, ChannelTypeOK, Process
      <3> QED BY <3>2 DEF Serving
    <2> QED BY <2>1, <2>2, <2>3 DEF Launch
  <1>3. answered' = answered /\ offset' = offset /\ exposed' = exposed
    BY DEF Launch, Scan, Clear, Check, history, updates
  <1> QED BY <1>1, <1>2, <1>3, OneStep DEF InLoop

\* The second process to get here makes the account shared, unless the first one
\* has left: then everything answered is covered by the offset it reads.
LEMMA CreatedAlone ==
  ASSUME Alone, ChannelInv, NEW p \in Processes, Created(p), ~shared' PROVE Alone'
  <1> DEFINE r == [NoProcess EXCEPT !.at = "poll", !.cur = offset]
  <1>1. r.at = "poll" /\ r.cur = offset /\ r.pend = 0 /\ r.batch = {} /\ ~r.failed
    BY DEF NoProcess
  <1>2. /\ proc'[p] = r /\ \A q \in Processes \ {p} : proc'[q] = proc[q]
        /\ answered' = answered /\ offset' = offset /\ exposed' = exposed
    BY DEF Created, ChannelInv, ChannelTypeOK, updates
  <1> HIDE DEF r
  <1>3. \A q \in Processes : proc[q].at \notin Serving
    BY DEF Created, Serving
  <1>4. Resting(answered, exposed, offset)
    BY <1>3 DEF Alone, InLoop
  <1>5. Behind(r, answered, exposed, offset)
    BY <1>1, <1>4 DEF Behind, Resting
  <1>6. \A q \in Processes : proc'[q].failed => proc'[q].at = "end"
    BY <1>1, <1>2 DEF Alone
  <1>7. \A q \in Processes : proc'[q].at \in Serving => q = p
    BY <1>2, <1>3
  <1>8. InLoop(proc'[p])
    BY <1>1, <1>2 DEF Serving, InLoop
  <1>9. \A q \in Processes : InLoop(proc'[q]) => Behind(proc'[q], answered', exposed', offset')
    BY <1>2, <1>5, <1>7 DEF InLoop
  <1> QED BY <1>2, <1>6, <1>7, <1>8, <1>9 DEF Alone

\* At the end of a round everything that was answered is covered.
LEMMA NextRoundAlone ==
  ASSUME Alone, ChannelInv, NEW p \in Processes, NEW q \in Process,
         InLoop(proc[p]), ~q.failed, q.batch = {}, q.cur = offset',
         Resting(answered, exposed, offset'),
         proc' = [proc EXCEPT ![p] = NextRound(p, q)],
         answered' = answered, exposed' = exposed
  PROVE  Alone'
  <1>1. CASE p \in Once
    BY <1>1, OutOfLoop, OneStep DEF NextRound, InLoop
  <1>2. CASE p \notin Once
    <2> DEFINE r == [q EXCEPT !.at = "poll", !.pend = 0]
    <2>1. /\ r.at = "poll" /\ r.cur = offset' /\ r.pend = 0 /\ r.batch = {} /\ ~r.failed
      BY DEF Process
    <2> HIDE DEF r
    <2>2. Behind(r, answered, exposed, offset')
      BY <2>1 DEF Behind, Resting
    <2>3. proc' = [proc EXCEPT ![p] = r]
      BY <1>2 DEF NextRound, r
    <2> QED BY <2>1, <2>2, <2>3, OneStep DEF InLoop, Serving
  <1> QED BY <1>1, <1>2

\* What is polled lies ahead of the offset.
LEMMA PollAlone ==
  ASSUME Alone, ChannelInv, NEW p \in Processes, Poll(p) PROVE Alone'
  <1> DEFINE q == proc[p]
             lo == Larger(forgotten, q.cur) + 1
             Empty == proc' = [proc EXCEPT ![p] = NextRound(p, q)]
  <1>1. /\ q \in Process /\ q.at = "poll" /\ ~q.failed /\ InLoop(q) /\ q.batch = {}
        /\ Behind(q, answered, exposed, offset)
    BY DEF Poll, Alone, ChannelInv, ChannelTypeOK, Serving, InLoop, Tracks
  <1>2. answered' = answered /\ exposed' = exposed /\ offset' = offset
    BY DEF Poll, history
  <1>3. \A m \in Allowed : m \in Nat /\ ~(m <= 0)
    BY UpdatesAssumption
  <1>4. q.cur = offset /\ q.cur \in Nat /\ Resting(answered, exposed, offset)
    BY <1>1, <1>3 DEF Behind, Resting, Process
  <1>5. CASE Empty
    BY <1>1, <1>2, <1>4, <1>5, NextRoundAlone
  <1>6. CASE ~Empty
    <2> DEFINE Polled(upto) == [q EXCEPT !.pend = upto, !.batch = Parsed(lo, upto)]
               After(upto) == IF Polled(upto).batch = {} THEN Move(Polled(upto), "complete")
                              ELSE Move(Polled(upto), "begin")
    <2>1. PICK upto \in lo..NumUpdates : proc' = [proc EXCEPT ![p] = After(upto)]
      BY <1>6 DEF Poll
    <2>2. lo \in Nat /\ upto \in Nat /\ q.cur < lo
      BY <1>4, UpdatesAssumption DEF ChannelInv, ChannelTypeOK, Larger
    <2>3. /\ After(upto).at \in {"complete", "begin"} /\ ~After(upto).failed
          /\ After(upto).cur = q.cur /\ After(upto).pend = upto
          /\ After(upto).batch = Parsed(lo, upto)
      BY <1>1 DEF Process, Move
    <2>4. \A m \in Parsed(lo, upto) : m > q.cur
      BY <1>3, <1>4, <2>2 DEF Parsed
    <2> HIDE DEF After, lo, q
    <2>5. Behind(After(upto), answered, exposed, offset)
      BY <1>4, <2>3, <2>4 DEF Behind, Resting
    <2>6. InLoop(After(upto)) /\ proc[p].at \in Serving
      BY <1>1, <2>3 DEF InLoop, Serving, q
    <2> QED BY <1>2, <2>1, <2>3, <2>5, <2>6, OneStep DEF InLoop
  <1> QED BY <1>5, <1>6

LEMMA BegunAlone ==
  ASSUME Alone, ChannelInv, NEW p \in Processes, Begun(p) PROVE Alone'
  <1> DEFINE q == proc[p]
             r == Move(q, "run")
  <1>1. q \in Process /\ q.at = "begin" /\ ~q.failed /\ Behind(q, answered, exposed, offset)
    BY DEF Begun, Alone, ChannelInv, ChannelTypeOK, Serving, InLoop
  <1>2. /\ r.at = "run" /\ r.cur = q.cur /\ r.pend = q.pend /\ r.batch = q.batch
        /\ ~r.failed
    BY <1>1 DEF Move, Process
  <1>3. /\ proc' = [proc EXCEPT ![p] = r] /\ answered' = answered
        /\ exposed' = exposed /\ offset' = offset
    BY DEF Begun, Goto, history, updates
  <1> HIDE DEF r
  <1>4. Behind(r, answered, exposed, offset)
    BY <1>1, <1>2 DEF Behind
  <1>5. InLoop(r) /\ proc[p].at \in Serving
    BY <1>1, <1>2 DEF InLoop, Serving
  <1> QED BY <1>2, <1>3, <1>4, <1>5, OneStep

\* The message in hand is ahead of what was answered, so this is its first
\* answer, unless it was exposed.
LEMMA AnswerAlone ==
  ASSUME Alone, ChannelInv, NEW p \in Processes, Answer(p) PROVE Alone'
  <1> DEFINE q == proc[p]
             m == First(q.batch)
             r == Move(q, "ack")
  <1>1. /\ q \in Process /\ Tracks(q, answered) /\ q.batch # {} /\ q.at = "run"
        /\ ~q.failed /\ Behind(q, answered, exposed, offset)
    BY DEF Answer, Alone, ChannelInv, ChannelTypeOK, Tracks, Serving, InLoop
  <1>2. m \in Allowed /\ m \in q.batch /\ m \in Nat /\ q.cur \in Nat
    <2> HIDE DEF q
    <2> QED BY <1>1, BatchFirst, UpdatesAssumption DEF Process
  <1>3. m \notin exposed => ~(answered[m] > 0)
    BY <1>1, <1>2 DEF Behind
  <1>4. /\ m \notin exposed => ~(answered'[m] > 1)
        /\ \A n \in Allowed \ {m} : answered'[n] = answered[n]
    BY <1>2, <1>3 DEF Answer, ChannelInv, ChannelTypeOK
  <1>5. /\ r.at = "ack" /\ r.cur = q.cur /\ r.pend = q.pend /\ r.batch = q.batch
        /\ ~r.failed
    BY <1>1 DEF Move, Process
  <1>6. /\ proc'[p] = r /\ \A s \in Processes \ {p} : proc'[s] = proc[s]
        /\ offset' = offset /\ exposed' = exposed
    BY DEF Answer, Goto, ChannelInv, ChannelTypeOK, updates
  <1>7. \A s \in Processes : proc[s].at \in Serving => s = p
    BY <1>1 DEF Alone, Serving
  <1> HIDE DEF r
  <1>8. Behind(r, answered', exposed', offset')
    <2>1. r.cur = offset' /\ r.at # "poll" /\ \A n \in r.batch : n > r.cur
      BY <1>1, <1>5, <1>6 DEF Behind
    <2>2. ASSUME NEW n \in Allowed \ exposed', answered'[n] > 0
          PROVE  n <= r.cur \/ (n <= r.pend /\ n \notin r.batch) \/ n = First(r.batch)
      <3>1. CASE n = m
        BY <1>5, <3>1
      <3>2. CASE n # m
        BY <1>1, <1>4, <1>5, <1>6, <2>2, <3>2 DEF Behind
      <3> QED BY <3>1, <3>2
    <2> QED BY <1>5, <2>1, <2>2 DEF Behind
  <1>9. \A s \in Processes : proc'[s].failed => proc'[s].at = "end"
    BY <1>5, <1>6 DEF Alone
  <1>10. \A s \in Processes : proc'[s].at \in Serving <=> s = p
    BY <1>5, <1>6, <1>7 DEF Serving
  <1>11. \A n \in Allowed : answered'[n] > 1 => n \in exposed'
    BY <1>4, <1>6 DEF Alone
  <1>12. InLoop(proc'[p])
    BY <1>5, <1>6, <1>10 DEF InLoop
  <1>13. \A s \in Processes : InLoop(proc'[s]) => Behind(proc'[s], answered', exposed', offset')
    BY <1>6, <1>8, <1>10 DEF InLoop
  <1> HIDE DEF q, m
  <1> QED BY <1>9, <1>10, <1>11, <1>12, <1>13 DEF Alone

\* The rest of the batch is ahead of the acknowledged message.
LEMMA AckAlone ==
  ASSUME Alone, ChannelInv, NEW p \in Processes, Ack(p) PROVE Alone'
  <1> DEFINE q == proc[p]
             m == First(q.batch)
             k == AckCursor(q)
             r == [Move(Persisted(q, k), "end") EXCEPT !.batch = @ \ {First(@)}]
  <1>1. /\ q \in Process /\ q.at = "ack" /\ Tracks(q, answered) /\ q.batch # {}
        /\ ~q.failed /\ Behind(q, answered, exposed, offset)
    BY DEF Ack, Alone, ChannelInv, ChannelTypeOK, Tracks, Serving, InLoop
  <1>2. /\ m \in q.batch /\ m \in Nat /\ q.cur \in Nat /\ k \in Nat /\ k <= m
        /\ \A n \in q.batch : n \in Nat /\ m <= n
    <2>1. m \in q.batch /\ m \in 1..NumUpdates /\ \A n \in q.batch : m <= n
      <3> HIDE DEF q
      <3> QED BY <1>1, BatchFirst
    <2>2. q.cur \in Nat /\ q.batch \subseteq Allowed /\ \A n \in Allowed : n \in Nat
      BY <1>1, UpdatesAssumption DEF Process
    <2>3. m \in Nat
      BY <2>1, <2>2
    <2>4. k \in Nat /\ k <= m
      BY <2>3 DEF AckCursor
    <2> HIDE DEF q, m, k
    <2> QED BY <2>1, <2>2, <2>3, <2>4
  <1>3. /\ proc' = [proc EXCEPT ![p] = r] /\ answered' = answered /\ exposed' = exposed
        /\ offset' = Saved(q, k)
    BY DEF Ack, ChannelInv, ChannelTypeOK, history
  <1> HIDE DEF k
  <1>4. /\ r.at = "end" /\ r.cur = Larger(q.cur, k) /\ r.pend = q.pend
        /\ r.batch = q.batch \ {m} /\ ~r.failed
    BY <1>1 DEF Move, Persisted, Process
  <1> HIDE DEF r
  <1>5. r.cur = offset' /\ r.cur \in Nat /\ q.cur <= r.cur
    BY <1>1, <1>2, <1>3, <1>4 DEF Behind, Saved, Larger
  <1>6. \A n \in r.batch : n > r.cur
    <2> SUFFICES ASSUME NEW n \in r.batch PROVE n > r.cur
      OBVIOUS
    <2>1. n \in q.batch /\ n # m
      BY <1>4
    <2>2. n > q.cur /\ n \in Nat /\ m <= n
      BY <1>1, <1>2, <2>1 DEF Behind
    <2> HIDE DEF q, m
    <2> QED BY <1>2, <1>4, <2>1, <2>2 DEF Larger
  <1>7. m <= q.pend
    BY <1>1, <1>2 DEF Tracks
  <1>8. \A n \in Allowed : n \in Nat
    BY UpdatesAssumption
  <1>9. ASSUME NEW n \in Allowed \ exposed, answered[n] > 0
        PROVE  n <= r.cur \/ (n <= r.pend /\ n \notin r.batch)
    <2>1. n <= q.cur \/ (n <= q.pend /\ n \notin q.batch) \/ n = m
      BY <1>1, <1>9 DEF Behind
    <2> HIDE DEF q, m
    <2> QED BY <1>2, <1>4, <1>5, <1>7, <1>8, <2>1
  <1>10. Behind(r, answered, exposed, offset')
    BY <1>4, <1>5, <1>6, <1>9 DEF Behind
  <1>11. InLoop(r) /\ proc[p].at \in Serving
    BY <1>1, <1>4 DEF InLoop, Serving
  <1> QED BY <1>3, <1>4, <1>10, <1>11, OneStep

LEMMA EndedAlone ==
  ASSUME Alone, ChannelInv, NEW p \in Processes, Ended(p) PROVE Alone'
  <1> DEFINE q == proc[p]
             r == AfterMessage(q)
  <1>1. q \in Process /\ q.at = "end" /\ q.at \in Serving
    BY DEF Ended, ChannelInv, ChannelTypeOK, Serving
  <1>2. /\ proc' = [proc EXCEPT ![p] = r] /\ answered' = answered
        /\ exposed' = exposed /\ offset' = offset
    BY DEF Ended, ChannelInv, ChannelTypeOK, history, updates
  <1>3. CASE q.failed
    <2>1. \A s \in Processes : ~InLoop(proc[s])
      BY <1>1, <1>3 DEF Alone, InLoop
    <2>2. Resting(answered, exposed, offset)
      BY <2>1 DEF Alone
    <2>3. r = Leaving
      BY <1>3 DEF AfterMessage
    <2> HIDE DEF r
    <2> QED BY <1>2, <2>2, <2>3, OutOfLoop, OneStep DEF InLoop
  <1>4. CASE ~q.failed
    <2>1. Behind(q, answered, exposed, offset)
      BY <1>1, <1>4 DEF Alone, InLoop
    <2>2. /\ r.at \in {"begin", "complete"} /\ r.cur = q.cur /\ r.pend = q.pend
          /\ r.batch = q.batch /\ ~r.failed
      BY <1>1, <1>4 DEF AfterMessage, Move, Process
    <2> HIDE DEF r
    <2>3. Behind(r, answered, exposed, offset)
      BY <1>1, <2>1, <2>2 DEF Behind
    <2>4. InLoop(r)
      BY <2>2 DEF InLoop, Serving
    <2> QED BY <1>1, <1>2, <2>2, <2>3, <2>4, OneStep
  <1> QED BY <1>3, <1>4

\* The offset on disk catches up with the batch.
LEMMA CompleteBatchAlone ==
  ASSUME Alone, ChannelInv, NEW p \in Processes, CompleteBatch(p) PROVE Alone'
  <1> DEFINE q == proc[p]
             r == Persisted(q, q.pend)
  <1>1. /\ q \in Process /\ q.at = "complete" /\ q.batch = {}
        /\ ~q.failed /\ InLoop(q) /\ Behind(q, answered, exposed, offset)
    BY DEF CompleteBatch, Alone, ChannelInv, ChannelTypeOK, Tracks, Serving, InLoop
  <1>2. q.cur \in Nat /\ q.pend \in Nat /\ \A n \in Allowed : n \in Nat
    BY <1>1, UpdatesAssumption DEF Process
  <1>3. r \in Process /\ r.cur = Larger(q.cur, q.pend) /\ r.batch = {} /\ ~r.failed
    BY <1>1 DEF Persisted, Process, Larger
  <1>4. /\ proc' = [proc EXCEPT ![p] = NextRound(p, r)] /\ answered' = answered
        /\ exposed' = exposed /\ offset' = Saved(q, q.pend)
    BY DEF CompleteBatch, history
  <1> HIDE DEF r
  <1>5. /\ r.cur = offset' /\ offset' \in Nat
        /\ q.cur <= offset' /\ q.pend <= offset'
    BY <1>1, <1>2, <1>3, <1>4 DEF Behind, Saved, Larger
  <1>6. Resting(answered, exposed, offset')
    <2> SUFFICES ASSUME NEW n \in Allowed \ exposed, answered[n] > 0 PROVE n <= offset'
      BY DEF Resting
    <2>1. n <= q.cur \/ n <= q.pend
      BY <1>1 DEF Behind
    <2> HIDE DEF q
    <2> QED BY <1>2, <1>5, <2>1
  <1> QED BY <1>1, <1>3, <1>4, <1>5, <1>6, NextRoundAlone

LEMMA EndAlone ==
  ASSUME Alone, ChannelInv, NEW p \in Processes, ShutDown(p) \/ Exit(p) PROVE Alone'
  <1>1. /\ proc[p].at \in {"stop", "exit"} /\ proc[p].at \notin Serving
        /\ ~proc[p].failed /\ proc[p] \in Process
    BY DEF ShutDown, Exit, Serving, Alone, ChannelInv, ChannelTypeOK
  <1>2. answered' = answered /\ exposed' = exposed /\ offset' = offset
    BY DEF ShutDown, Exit, history, updates
  <1>3. CASE ShutDown(p)
    <2>1. proc' = [proc EXCEPT ![p] = [NoProcess EXCEPT !.at = "exit"]]
      BY <1>3 DEF ShutDown
    <2> QED BY <1>1, <1>2, <2>1, OutOfLoop, OneStep DEF InLoop
  <1>4. CASE Exit(p)
    <2>1. proc' = [proc EXCEPT ![p] = Move(proc[p], "off")]
      BY <1>4 DEF Exit, Goto
    <2>2. Move(proc[p], "off").at \notin Serving /\ ~Move(proc[p], "off").failed
      BY <1>1 DEF Move, Process, Serving
    <2> QED BY <1>1, <1>2, <2>1, <2>2, OneStep DEF InLoop
  <1> QED BY <1>3, <1>4

\* A failed poll leaves nothing answered ahead of the offset.
LEMMA PollFailsAlone ==
  ASSUME Alone, ChannelInv, NEW p \in Processes, PollFails(p) PROVE Alone'
  <1> DEFINE q == proc[p]
  <1>1. q.at = "poll" /\ q.at \in Serving /\ Behind(q, answered, exposed, offset)
    BY DEF PollFails, Alone, Serving, InLoop
  <1>2. \A m \in Allowed : ~(m <= 0)
    BY UpdatesAssumption
  <1>3. Resting(answered, exposed, offset)
    BY <1>1, <1>2 DEF Behind, Resting
  <1>4. /\ proc' = [proc EXCEPT ![p] = Leaving] /\ answered' = answered
        /\ exposed' = exposed /\ offset' = offset
    BY DEF PollFails, history, updates
  <1> QED BY <1>1, <1>3, <1>4, OutOfLoop, OneStep DEF InLoop

\* The other failures expose what is answered ahead of the offset they leave.
LEMMA ExposeRests ==
  ASSUME ChannelInv, NEW p \in Processes, Expose(p)
  PROVE  /\ exposed \subseteq exposed'
         /\ proc[p].at \notin Serving => exposed' = exposed
         /\ proc[p].at \in Serving /\ offset' \in Nat => Resting(answered, exposed', offset')
  <1>1. ASSUME proc[p].at \in Serving, offset' \in Nat,
               NEW m \in Allowed \ exposed', answered[m] > 0
        PROVE  m <= offset'
    <2>1. ~(m > offset')
      BY <1>1 DEF Expose
    <2>2. m \in Nat
      BY UpdatesAssumption
    <2> QED BY <1>1, <2>1, <2>2
  <1> QED BY <1>1 DEF Expose, Resting

LEMMA FailsAlone ==
  ASSUME Alone, ChannelInv, ChannelInv', NEW p \in Processes,
         AnswerFails(p) \/ SaveFails(p) \/ WriteFails(p) \/ Crash(p)
  PROVE  Alone'
  <1>1. PICK r : /\ proc' = [proc EXCEPT ![p] = r]
                 /\ \/ r = Failing /\ proc[p].at \in Serving
                    \/ r \in {Leaving, NoProcess, [NoProcess EXCEPT !.at = "exit"]}
    BY DEF AnswerFails, SaveFails, WriteFails, Crash, Serving
  <1>2. /\ r.failed => r.at = "end"
        /\ r.at \in Serving => proc[p].at \in Serving
        /\ ~InLoop(r)
    BY <1>1, OutOfLoop DEF InLoop
  <1>3. answered' = answered /\ Expose(p)
    BY DEF AnswerFails, SaveFails, WriteFails, Crash
  <1>4. proc[p].at \notin Serving => offset' = offset
    BY DEF AnswerFails, SaveFails, WriteFails, Crash, Serving, updates
  <1>5. offset' \in Nat
    BY UpdatesAssumption DEF ChannelInv, ChannelTypeOK
  <1> QED BY <1>1, <1>2, <1>3, <1>4, <1>5, ExposeRests, OneStep

LEMMA AloneNextInv ==
  ASSUME AloneInv, ChannelInv, ChannelInv', [Next]_vars PROVE AloneInv'
  <1> SUFFICES ASSUME ~shared' PROVE Alone'
    BY DEF AloneInv
  <1>1. CASE UNCHANGED vars
    BY <1>1 DEF vars, AloneInv, Alone
  <1>2. CASE Next
    <2>1. PICK p \in Processes :
             \/ Launch(p) \/ Serve(p)
             \/ Beat(p) \/ WriteBeat(p) \/ Age(p)
             \/ PollFails(p) \/ AnswerFails(p) \/ SaveFails(p)
             \/ BeatFails(p) \/ WriteFails(p) \/ Crash(p)
      BY <1>2 DEF Next
    <2>2. CASE Launch(p)
      <3>1. Alone
        BY <2>2 DEF Launch, Scan, Clear, Check, history, AloneInv
      <3> QED BY <2>2, <3>1, LaunchAlone
    <2>3. CASE Beat(p) \/ WriteBeat(p) \/ Age(p) \/ BeatFails(p)
      BY <2>3 DEF Beat, WriteBeat, Age, BeatFails, history, updates, AloneInv, Alone
    <2>4. CASE Serve(p)
      <3>1. Alone
        BY <2>4 DEF Serve, Created, Poll, Begun, Answer, Ack, Ended, CompleteBatch,
                    ShutDown, Exit, history, AloneInv
      <3> QED BY <2>4, <3>1, CreatedAlone, PollAlone, BegunAlone, AnswerAlone,
                 AckAlone, EndedAlone, CompleteBatchAlone, EndAlone DEF Serve
    <2>5. CASE PollFails(p) \/ AnswerFails(p) \/ SaveFails(p) \/ WriteFails(p) \/ Crash(p)
      <3>1. Alone
        BY <2>5 DEF PollFails, AnswerFails, SaveFails, WriteFails, Crash, history, AloneInv
      <3> QED BY <2>5, <3>1, PollFailsAlone, FailsAlone
    <2> QED BY <2>1, <2>2, <2>3, <2>4, <2>5
  <1> QED BY <1>1, <1>2

\* A process of the account begins after everything its predecessors have
\* answered (load_offset, persist_if_newer): whatever ended them, a message is
\* answered again only if a failure in the loop came between its answer and the
\* offset that covers it, or if a second process got past the gate while another
\* one served.  For any number of processes, updates and faults and on both
\* platforms, although Matrix acknowledges nothing before the batch is complete.
THEOREM RepeatedAnswersHaveCause == Spec => []RepeatsHaveCause
  <1>1. Init => AloneInv
    BY DEF Init, AloneInv, Alone, NoProcess, Serving, InLoop, Resting
  <1>2. AloneInv => RepeatsHaveCause
    BY DEF AloneInv, Alone, RepeatsHaveCause
  <1>3. ChannelInv /\ AloneInv /\ [Next]_vars => ChannelInv' /\ AloneInv'
    BY ChannelNextInv, AloneNextInv
  <1> QED BY <1>1, <1>2, <1>3, ChannelInitInv, PTL DEF Spec
=============================================================================
