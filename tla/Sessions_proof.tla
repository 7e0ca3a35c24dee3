--------------------------- MODULE Sessions_proof ---------------------------
(***************************************************************************)
(* The sampler, the index, the answers and the records, for every cap,     *)
(* every length of a transcript and any number of processes.               *)
(*                                                                         *)
(* The sampler.  What was kept after n prompts is 0, s, 2s, ... below n,   *)
(* for a stride s that doubled each time the buffer was full.  The step    *)
(* that needs the arithmetic: a prompt is a candidate when its ordinal is  *)
(* a multiple of the stride, and it then is the very next multiple,        *)
(* because the last one kept lies less than a stride behind.               *)
(*                                                                         *)
(* The index.  A fold over a text is shown to be the account kept line by  *)
(* line, so that the account of a process, and the record it makes of it,  *)
(* is said of a prefix of the text.                                        *)
(*                                                                         *)
(* The answers.  What a process holds is stated of a moment: the files and *)
(* the writers of each tick of the clock.  Entries are said of a file at   *)
(* some time, times of different files differ, and so the order exists.    *)
(*                                                                         *)
(* The records.  The account of a text is stated by counting its lines: a  *)
(* message is known by how many came before it, so that the last trouble   *)
(* is near the end exactly if any trouble is; and of an even sample less   *)
(* what the ring has, what is left rises and lies before the ring.         *)
(***************************************************************************)
EXTENDS Sessions, TLAPS, WellFoundedInduction, FiniteSetTheorems

----------------------------------------------------------------------------
(* Arithmetic.                                                             *)

\* A multiple of s is s times a natural number.
LEMMA Division ==
  ASSUME NEW a \in Nat, NEW s \in Nat \ {0}, a % s = 0
  PROVE  \E q \in Nat : a = s * q
<1>1. a \div s \in Nat
  <2>1. a \div s \in Int /\ a \div s >= 0
    BY SMT
  <2> QED
    BY <2>1, SMT
<1>2. a = s * (a \div s) + (a % s)
  BY SMT
<1>3. a = s * (a \div s)
  BY <1>2, SMT
<1> QED
  BY <1>1, <1>3

\* A multiple that lies after n - 1 strides and not after n is n strides.
LEMMA NextMultiple ==
  ASSUME NEW s \in Nat \ {0}, NEW n \in Nat, NEW q \in Nat,
         (n - 1) * s < s * q, s * q <= n * s
  PROVE  q = n
<1>1. CASE q < n
  <2>1. q <= n - 1
    BY <1>1, SMT
  <2>2. s * q <= (n - 1) * s
    BY <2>1, SMT
  <2> QED
    BY <2>2, SMT
<1>2. CASE q > n
  <2>1. q >= n + 1
    BY <1>2, SMT
  <2>2. s * q >= (n + 1) * s
    BY <2>1, SMT
  <2>3. (n + 1) * s = n * s + s
    BY SMT
  <2> QED
    BY <2>2, <2>3, SMT
<1> QED
  BY <1>1, <1>2, SMT

\* n strides leave no rest.
LEMMA NoRest ==
  ASSUME NEW s \in Nat \ {0}, NEW n \in Nat
  PROVE  (n * s) % s = 0
BY SMT

----------------------------------------------------------------------------
(* One push.                                                               *)

Sampler == [items : Seq(Nat), stride : Nat \ {0}, seen : Nat]

\* The half that is kept of a sequence.
LEMMA EveryOtherIs ==
  ASSUME NEW q \in Seq(Nat)
  PROVE  /\ EveryOther(q) \in Seq(Nat) /\ Len(EveryOther(q)) = (Len(q) + 1) \div 2
         /\ \A i \in 1..((Len(q) + 1) \div 2) :
              2 * i - 1 \in 1..Len(q) /\ EveryOther(q)[i] = q[2 * i - 1]
<1> DEFINE m == (Len(q) + 1) \div 2
<1>1. Len(q) \in Nat /\ m \in Nat /\ 2 * m <= Len(q) + 1
  BY SMT
<1>2. \A i \in 1..m : 2 * i - 1 \in 1..Len(q) /\ q[2 * i - 1] \in Nat
  BY <1>1, SMT
<1>3. EveryOther(q) = [i \in 1..m |-> q[2 * i - 1]]
  BY DEF EveryOther
<1> HIDE DEF m
<1>4. EveryOther(q) \in [1..m -> Nat]
  BY <1>2, <1>3
<1>5. EveryOther(q) \in Seq(Nat) /\ Len(EveryOther(q)) = m
  BY <1>1, <1>4, SMT
<1> QED
  BY <1>2, <1>3, <1>5 DEF m

\* Between two candidates the buffer stays as it is.
LEMMA SkipIsEven ==
  ASSUME NEW s \in Sampler, Even(s), NEW x, s.seen % s.stride # 0
  PROVE  SamplerPush(s, x) \in Sampler /\ Even(SamplerPush(s, x))
<1> DEFINE n == Len(s.items)
<1>1. n \in Nat /\ s.stride \in Nat \ {0} /\ s.seen \in Nat
  BY DEF Sampler
<1>2. s.seen <= n * s.stride /\ n <= ArcCap /\ (n - 1) * s.stride < s.seen
  BY DEF Even
<1>3. SamplerPush(s, x) = [items |-> s.items, stride |-> s.stride, seen |-> s.seen + 1]
  BY <1>1, <1>2, CapsAssumption, SMT DEF SamplerPush
<1>4. (n * s.stride) % s.stride = 0
  BY <1>1, NoRest
<1>5. s.seen # n * s.stride
  BY <1>4
<1>6. n * s.stride \in Nat /\ (n - 1) * s.stride \in Int
  BY <1>1, SMT
<1>7. s.seen + 1 <= n * s.stride
  BY <1>1, <1>2, <1>5, <1>6, SMT
<1>8. (n - 1) * s.stride < s.seen + 1
  BY <1>1, <1>2, <1>6, SMT
<1> QED
  BY <1>1, <1>3, <1>7, <1>8 DEF Even, Sampler

\* A candidate is the next multiple of the stride.
LEMMA CandidateIsNext ==
  ASSUME NEW s \in Sampler, Even(s), s.seen % s.stride = 0
  PROVE  s.seen = Len(s.items) * s.stride
<1> DEFINE n == Len(s.items)
<1>1. n \in Nat /\ s.stride \in Nat \ {0} /\ s.seen \in Nat
  BY DEF Sampler
<1>2. PICK q \in Nat : s.seen = s.stride * q
  BY <1>1, Division
<1>3. (n - 1) * s.stride < s.stride * q /\ s.stride * q <= n * s.stride
  BY <1>2 DEF Even
<1>4. q = n
  BY <1>1, <1>3, NextMultiple
<1> QED
  BY <1>1, <1>2, <1>4, SMT

\* The buffer with the candidate, before it is looked at whether it is full.
LEMMA TakenIsEven ==
  ASSUME NEW s \in Sampler, Even(s), s.seen % s.stride = 0
  PROVE  LET q == Append(s.items, s.seen)
         IN /\ q \in Seq(Nat) /\ Len(q) = Len(s.items) + 1
            /\ \A i \in 1..Len(q) : q[i] = (i - 1) * s.stride
<1> DEFINE n == Len(s.items)
           q == Append(s.items, s.seen)
<1>1. s.items \in Seq(Nat) /\ n \in Nat /\ s.stride \in Nat \ {0} /\ s.seen \in Nat
  BY DEF Sampler
<1>2. q \in Seq(Nat) /\ Len(q) = n + 1 /\ q[n + 1] = s.seen
      /\ \A i \in 1..n : q[i] = s.items[i]
  BY <1>1
<1>3. \A i \in 1..n : s.items[i] = (i - 1) * s.stride
  BY DEF Even
<1>4. s.seen = n * s.stride
  BY CandidateIsNext
<1>5. q[n + 1] = ((n + 1) - 1) * s.stride
  BY <1>1, <1>2, <1>4, SMT
<1> HIDE DEF q, n
<1>6. ASSUME NEW i \in 1..Len(q)
      PROVE  q[i] = (i - 1) * s.stride
  <2>1. i \in 1..n \/ i = n + 1
    BY <1>1, <1>2, SMT
  <2> QED
    BY <2>1, <1>2, <1>3, <1>5
<1> QED
  BY <1>2, <1>6 DEF q, n

\* A candidate that fits.
LEMMA AppendIsEven ==
  ASSUME NEW s \in Sampler, Even(s), s.seen % s.stride = 0, Len(s.items) < ArcCap
  PROVE  SamplerPush(s, s.seen) \in Sampler /\ Even(SamplerPush(s, s.seen))
<1> DEFINE n == Len(s.items)
           q == Append(s.items, s.seen)
<1>1. n \in Nat /\ s.stride \in Nat \ {0} /\ s.seen \in Nat
  BY DEF Sampler
<1>2. q \in Seq(Nat) /\ Len(q) = n + 1 /\ \A i \in 1..Len(q) : q[i] = (i - 1) * s.stride
  BY TakenIsEven
<1>3. SamplerPush(s, s.seen) = [items |-> q, stride |-> s.stride, seen |-> s.seen + 1]
  <2>1. ~(Len(q) > ArcCap)
    BY <1>1, <1>2, CapsAssumption
  <2> QED
    BY <2>1 DEF SamplerPush
<1>4. s.seen = n * s.stride
  BY CandidateIsNext
<1>5. (n + 1) * s.stride = n * s.stride + s.stride /\ n * s.stride \in Nat
  BY <1>1, SMT
<1>6. ((n + 1) - 1) * s.stride < s.seen + 1
  BY <1>1, <1>4, SMT
<1>7. s.seen + 1 <= (n + 1) * s.stride
  BY <1>1, <1>4, <1>5, SMT
<1>8. n + 1 <= ArcCap /\ (s.stride > 1 => 2 * (n + 1) > ArcCap)
  BY <1>1, CapsAssumption DEF Even
<1> HIDE DEF q
<1> DEFINE t == [items |-> q, stride |-> s.stride, seen |-> s.seen + 1]
<1>9. t \in Sampler
  BY <1>1, <1>2 DEF Sampler
<1>10. t.items = q /\ t.stride = s.stride /\ t.seen = s.seen + 1
  OBVIOUS
<1> HIDE DEF t, n
<1>11. Even(t)
  BY <1>2, <1>6, <1>7, <1>8, <1>10 DEF Even
<1> QED
  BY <1>3, <1>9, <1>11 DEF t

\* A candidate that does not fit: every other one is dropped, and the first stays.
LEMMA HalveIsEven ==
  ASSUME NEW s \in Sampler, Even(s), s.seen % s.stride = 0, Len(s.items) >= ArcCap
  PROVE  SamplerPush(s, s.seen) \in Sampler /\ Even(SamplerPush(s, s.seen))
<1> DEFINE n == Len(s.items)
           q == Append(s.items, s.seen)
           h == EveryOther(q)
           m == (n + 2) \div 2
<1>1. n \in Nat /\ s.stride \in Nat \ {0} /\ s.seen \in Nat
  BY DEF Sampler
<1>2. q \in Seq(Nat) /\ Len(q) = n + 1 /\ \A i \in 1..Len(q) : q[i] = (i - 1) * s.stride
  BY TakenIsEven
<1>3. n = ArcCap
  BY <1>1, CapsAssumption DEF Even
<1>4. SamplerPush(s, s.seen) = [items |-> h, stride |-> 2 * s.stride, seen |-> s.seen + 1]
  BY <1>1, <1>2, <1>3, CapsAssumption, SMT DEF SamplerPush
<1>5. (Len(q) + 1) \div 2 = m
  BY <1>1, <1>2, SMT
<1>6. /\ h \in Seq(Nat) /\ Len(h) = m
      /\ \A i \in 1..m : 2 * i - 1 \in 1..Len(q) /\ h[i] = q[2 * i - 1]
  <2> HIDE DEF q
  <2>1. h \in Seq(Nat) /\ Len(h) = (Len(q) + 1) \div 2
        /\ \A i \in 1..((Len(q) + 1) \div 2) : 2 * i - 1 \in 1..Len(q) /\ h[i] = q[2 * i - 1]
    BY <1>2, EveryOtherIs
  <2> HIDE DEF h, m
  <2> QED
    BY <2>1, <1>5
<1>7. s.seen = n * s.stride
  BY CandidateIsNext
<1>8. m \in Nat /\ 2 * m >= n + 1 /\ 2 * m <= n + 2 /\ n >= 1
  BY <1>1, <1>3, CapsAssumption, SMT
<1> HIDE DEF q, n, h, m
<1>9. \A i \in 1..m : h[i] = (i - 1) * (2 * s.stride)
  <2> SUFFICES ASSUME NEW i \in 1..m PROVE h[i] = (i - 1) * (2 * s.stride)
    OBVIOUS
  <2>1. h[i] = ((2 * i - 1) - 1) * s.stride
    BY <1>2, <1>6
  <2>2. ((2 * i - 1) - 1) * s.stride = (i - 1) * (2 * s.stride)
    BY <1>1, <1>8, SMT
  <2> QED
    BY <2>1, <2>2
<1>10. s.seen + 1 <= m * (2 * s.stride)
  <2>1. (n + 1) * s.stride <= (2 * m) * s.stride
    BY <1>1, <1>8, SMT
  <2>2. (n + 1) * s.stride = n * s.stride + s.stride /\ (2 * m) * s.stride = m * (2 * s.stride)
    BY <1>1, <1>8, SMT
  <2>3. n * s.stride \in Nat /\ m * (2 * s.stride) \in Nat
    BY <1>1, <1>8, SMT
  <2> QED
    BY <1>1, <1>7, <2>1, <2>2, <2>3, SMT
<1>11. (m - 1) * (2 * s.stride) < s.seen + 1
  <2>1. (2 * m - 2) * s.stride <= n * s.stride
    BY <1>1, <1>8, SMT
  <2>2. (2 * m - 2) * s.stride = (m - 1) * (2 * s.stride)
    BY <1>1, <1>8, SMT
  <2>3. n * s.stride \in Nat /\ (m - 1) * (2 * s.stride) \in Int
    BY <1>1, <1>8, SMT
  <2> QED
    BY <1>1, <1>7, <2>1, <2>2, <2>3, SMT
<1>12. m <= ArcCap /\ 2 * m > ArcCap
  BY <1>1, <1>3, <1>8, SMT
<1>13. 2 * s.stride \in Nat \ {0} /\ s.seen + 1 \in Nat
  BY <1>1, SMT
<1> DEFINE t == [items |-> h, stride |-> 2 * s.stride, seen |-> s.seen + 1]
<1>14. t \in Sampler
  BY <1>6, <1>13 DEF Sampler
<1>15. t.items = h /\ t.stride = 2 * s.stride /\ t.seen = s.seen + 1
  OBVIOUS
<1> HIDE DEF t
<1>16. Even(t)
  BY <1>6, <1>9, <1>10, <1>11, <1>12, <1>15 DEF Even
<1> QED
  BY <1>4, <1>14, <1>16 DEF t

\* The sampler is even, whatever was pushed before.
LEMMA PushIsEven ==
  ASSUME NEW s \in Sampler, Even(s)
  PROVE  SamplerPush(s, s.seen) \in Sampler /\ Even(SamplerPush(s, s.seen))
         /\ SamplerPush(s, s.seen).seen = s.seen + 1
<1>1. SamplerPush(s, s.seen).seen = s.seen + 1
  BY DEF SamplerPush
<1>2. Len(s.items) \in Nat /\ ArcCap \in Nat
  BY CapsAssumption DEF Sampler
<1>3. CASE s.seen % s.stride # 0
  BY <1>1, <1>3, SkipIsEven
<1>4. CASE s.seen % s.stride = 0 /\ Len(s.items) < ArcCap
  BY <1>1, <1>4, AppendIsEven
<1>5. CASE s.seen % s.stride = 0 /\ ~(Len(s.items) < ArcCap)
  <2>1. Len(s.items) >= ArcCap
    BY <1>2, <1>5
  <2> QED
    BY <1>1, <1>5, <2>1, HalveIsEven
<1> QED
  BY <1>3, <1>4, <1>5

----------------------------------------------------------------------------
(* One line.                                                               *)

Account(a) ==
  /\ {"prompts", "arc"} \subseteq DOMAIN a
  /\ a.arc \in Sampler /\ Even(a.arc) /\ a.prompts = a.arc.seen

\* What an account keeps when no prompt is read.
SameArc(a, b) == DOMAIN b = DOMAIN a /\ b.prompts = a.prompts /\ b.arc = a.arc

\* The empty account.
LEMMA NoAccountIs == Account(NoAccount)
<1>1. NewSampler \in Sampler /\ Even(NewSampler)
  BY CapsAssumption DEF NewSampler, Sampler, Even
<1>2. {"prompts", "arc"} \subseteq DOMAIN NoAccount /\ NoAccount.arc = NewSampler /\ NoAccount.prompts = 0
  BY DEF NoAccount
<1>3. NewSampler.seen = 0
  BY DEF NewSampler
<1> QED
  BY <1>1, <1>2, <1>3 DEF Account

LEMMA SameIsAccount ==
  ASSUME NEW a, NEW b, Account(a), SameArc(a, b)
  PROVE  Account(b)
BY DEF Account, SameArc

\* A prompt is pushed with its ordinal.
LEMMA PromptedIs ==
  ASSUME NEW a, Account(a)
  PROVE  Account(Prompted(a))
<1> DEFINE b == Prompted(a)
<1>1. DOMAIN b = DOMAIN a /\ b.prompts = a.prompts + 1 /\ b.arc = SamplerPush(a.arc, a.prompts)
  BY DEF Prompted, Account
<1>2. /\ SamplerPush(a.arc, a.arc.seen) \in Sampler /\ Even(SamplerPush(a.arc, a.arc.seen))
      /\ SamplerPush(a.arc, a.arc.seen).seen = a.arc.seen + 1
  BY PushIsEven DEF Account
<1> QED
  BY <1>1, <1>2 DEF Account

LEMMA DatedIsSame ==
  ASSUME NEW a, Account(a), NEW line, NEW time
  PROVE  SameArc(a, Dated(a, line, time))
BY DEF SameArc, Dated, Account

LEMMA InDirIsSame ==
  ASSUME NEW a, Account(a), NEW line
  PROVE  SameArc(a, InDir(a, line))
BY DEF SameArc, InDir, Account

LEMMA MessageIsSame ==
  ASSUME NEW a, Account(a), NEW line, NEW time
  PROVE  SameArc(a, Message(a, line, time))
<1> DEFINE d == Dated(a, line, time)
           m == InDir(d, line)
<1>1. Account(d) /\ SameArc(a, d)
  BY DatedIsSame, SameIsAccount
<1>2. Account(m) /\ SameArc(a, m)
  BY <1>1, InDirIsSame, SameIsAccount DEF SameArc
<1> HIDE DEF m
<1>3. SameArc(m, [m EXCEPT !.messages = @ + 1,
                           !.side = @ \/ "sub" \in line.marks, !.auto = @ \/ "auto" \in line.marks,
                           !.cutAt = IF "cut" \in line.marks THEN a.messages + 1 ELSE @])
  BY <1>2 DEF SameArc, Account
<1>4. SameArc(m, Message(a, line, time))
  BY <1>3 DEF Message, m
<1> QED
  BY <1>2, <1>4 DEF SameArc

\* A line of Claude Code, whatever its kind and its marks.
LEMMA ClaudeIsAccount ==
  ASSUME NEW a, Account(a), NEW line, NEW time
  PROVE  Account(ReadClaude(a, line, time))
<1> DEFINE m == Message(a, line, time)
<1>1. Account(m)
  BY MessageIsSame, SameIsAccount
<1> HIDE DEF m
<1>2. Account(Prompted(m))
  BY <1>1, PromptedIs
<1>3. SameArc(a, [a EXCEPT !.lines = @ + 1, !.last = a.lines + 1])
      /\ SameArc(a, [a EXCEPT !.lines = @ + 1, !.prs = 1]) /\ SameArc(a, [a EXCEPT !.lines = @ + 1])
  BY DEF SameArc, Account
<1>4. SameArc(m, [m EXCEPT !.failedAt = m.messages, !.failure = m.lines])
      /\ SameArc(m, [m EXCEPT !.reply = m.lines])
  BY <1>1 DEF SameArc, Account
<1>5. Account([a EXCEPT !.lines = @ + 1, !.last = a.lines + 1])
      /\ Account([a EXCEPT !.lines = @ + 1, !.prs = 1]) /\ Account([a EXCEPT !.lines = @ + 1])
  BY <1>3, SameIsAccount
<1>6. Account([m EXCEPT !.failedAt = m.messages, !.failure = m.lines])
      /\ Account([m EXCEPT !.reply = m.lines])
  BY <1>1, <1>4, SameIsAccount
<1>7. CASE line.kind = "lastPrompt"
  BY <1>5, <1>7 DEF ReadClaude
<1>8. CASE line.kind = "prLink"
  BY <1>5, <1>8 DEF ReadClaude
<1>9. CASE line.kind = "prompt"
  BY <1>1, <1>2, <1>9 DEF ReadClaude, m
<1>10. CASE line.kind = "failed"
  BY <1>1, <1>6, <1>10 DEF ReadClaude, m
<1>11. CASE line.kind = "machinery"
  BY <1>1, <1>11 DEF ReadClaude, m
<1>12. CASE line.kind = "reply"
  BY <1>6, <1>12 DEF ReadClaude, m
<1>13. CASE line.kind \notin {"lastPrompt", "prLink", "prompt", "failed", "machinery", "reply"}
  BY <1>5, <1>13 DEF ReadClaude
<1> QED
  BY <1>7, <1>8, <1>9, <1>10, <1>11, <1>12, <1>13

\* A line of Codex.
LEMMA CodexIsAccount ==
  ASSUME NEW a, Account(a), NEW line, NEW time
  PROVE  Account(ReadCodex(a, line, time))
<1> DEFINE d == Dated(a, line, time)
           e == InDir(d, line)
           k == [d EXCEPT !.messages = @ + 1]
<1>1. Account(d)
  BY DatedIsSame, SameIsAccount
<1> HIDE DEF d
<1>2. Account(e)
  BY <1>1, InDirIsSame, SameIsAccount
<1> HIDE DEF e
<1>3. SameArc(d, k) /\ SameArc(e, [e EXCEPT !.auto = @ \/ "auto" \in line.marks])
      /\ SameArc(d, [d EXCEPT !.messages = @ + 1, !.reply = d.lines])
      /\ SameArc(d, [d EXCEPT !.started = @ + 1])
      /\ SameArc(d, [d EXCEPT !.completed = @ + 1, !.reply = d.lines])
      /\ SameArc(d, [d EXCEPT !.failure = d.lines]) /\ SameArc(a, [a EXCEPT !.lines = @ + 1])
  BY <1>1, <1>2 DEF SameArc, Account
<1>4. /\ Account(k) /\ Account([e EXCEPT !.auto = @ \/ "auto" \in line.marks])
      /\ Account([d EXCEPT !.messages = @ + 1, !.reply = d.lines])
      /\ Account([d EXCEPT !.started = @ + 1])
      /\ Account([d EXCEPT !.completed = @ + 1, !.reply = d.lines])
      /\ Account([d EXCEPT !.failure = d.lines]) /\ Account([a EXCEPT !.lines = @ + 1])
  BY <1>1, <1>2, <1>3, SameIsAccount
<1>5. Account(Prompted(k))
  BY <1>4, PromptedIs
<1>6. CASE line.kind = "context"
  BY <1>4, <1>6 DEF ReadCodex, d, e
<1>7. CASE line.kind = "user"
  BY <1>5, <1>7 DEF ReadCodex, d
<1>8. CASE line.kind = "agent"
  BY <1>4, <1>8 DEF ReadCodex, d
<1>9. CASE line.kind = "started"
  BY <1>4, <1>9 DEF ReadCodex, d
<1>10. CASE line.kind = "complete"
  BY <1>4, <1>10 DEF ReadCodex, d
<1>11. CASE line.kind = "exitFailed"
  BY <1>4, <1>11 DEF ReadCodex, d
<1>12. CASE line.kind = "torn"
  BY <1>4, <1>12 DEF ReadCodex
<1>13. CASE line.kind \notin {"context", "user", "agent", "started", "complete", "exitFailed", "torn"}
  BY <1>1, <1>13 DEF ReadCodex, d
<1> QED
  BY <1>6, <1>7, <1>8, <1>9, <1>10, <1>11, <1>12, <1>13

----------------------------------------------------------------------------
(* The invariant: every process keeps an account.                          *)

Keeps(r) == "account" \in DOMAIN r /\ Account(r.account)
Inv      == DOMAIN proc = Users /\ \A u \in Users : Keeps(proc[u])

LEMMA PutKeeps ==
  ASSUME Inv, NEW u \in Users, NEW r, Keeps(r), Put(u, r)
  PROVE  Inv'
BY DEF Inv, Put

LEMMA SameKeeps ==
  ASSUME NEW r, NEW s, Keeps(r), DOMAIN s = DOMAIN r, s.account = r.account
  PROVE  Keeps(s)
BY DEF Keeps

LEMMA IdleKeeps == Keeps(Idle) /\ \A job, began :
  Keeps([Idle EXCEPT !.at = "loading", !.job = job, !.began = began])
<1>1. "account" \in DOMAIN Idle /\ Idle.account = NoAccount
  BY DEF Idle
<1>2. Keeps(Idle)
  BY <1>1, NoAccountIs DEF Keeps
<1>3. ASSUME NEW job, NEW began
      PROVE  Keeps([Idle EXCEPT !.at = "loading", !.job = job, !.began = began])
  <2> DEFINE s == [Idle EXCEPT !.at = "loading", !.job = job, !.began = began]
  <2> HIDE DEF Idle
  <2>1. DOMAIN s = DOMAIN Idle /\ s.account = Idle.account
    BY <1>1
  <2> QED
    BY <1>2, <2>1, SameKeeps
<1> QED
  BY <1>2, <1>3

----------------------------------------------------------------------------
(* One step of a process.                                                  *)

\* What a process does besides reading leaves its account as it is, or begins anew.
LEMMA StartKeeps ==
  ASSUME Inv, NEW u \in Users, NEW job \in Jobs, Start(u, job)
  PROVE  Inv'
<1> DEFINE r == [Idle EXCEPT !.at = "loading", !.job = job, !.began = [f \in linked |-> mtime[f]]]
<1>1. Put(u, r)
  BY DEF Start
<1>2. Keeps(r)
  BY IdleKeeps
<1> HIDE DEF r
<1> QED
  BY <1>1, <1>2, PutKeeps

LEMMA KillKeeps ==
  ASSUME Inv, NEW u \in Users, Kill(u)
  PROVE  Inv'
BY IdleKeeps, PutKeeps DEF Kill

LEMMA LoadKeeps ==
  ASSUME Inv, NEW u \in Users, Load(u)
  PROVE  Inv'
<1>1. Keeps(proc[u])
  BY DEF Inv
<1>2. ASSUME NEW c
      PROVE  /\ Keeps([proc[u] EXCEPT !.at = "answering", !.next = c])
             /\ Keeps([proc[u] EXCEPT !.at = "finding", !.cache = c])
  <2> DEFINE r == [proc[u] EXCEPT !.at = "answering", !.next = c]
             s == [proc[u] EXCEPT !.at = "finding", !.cache = c]
  <2>1. DOMAIN r = DOMAIN proc[u] /\ r.account = proc[u].account
    BY <1>1 DEF Keeps
  <2>2. DOMAIN s = DOMAIN proc[u] /\ s.account = proc[u].account
    BY <1>1 DEF Keeps
  <2> HIDE DEF r, s
  <2>3. Keeps(r) /\ Keeps(s)
    BY <1>1, <2>1, <2>2, SameKeeps
  <2> QED
    BY <2>3 DEF r, s
<1>3. PICK r : Keeps(r) /\ Put(u, r)
  BY <1>2 DEF Load
<1> QED
  BY <1>3, PutKeeps

LEMMA FindKeeps ==
  ASSUME Inv, NEW u \in Users, Find(u)
  PROVE  Inv'
<1> DEFINE r == [proc[u] EXCEPT !.at = "looking", !.refs = [f \in ClaudeFiles \cup CodexFiles |-> mtime[f]],
                            !.todo = ClaudeFiles \cup CodexFiles]
<1>1. Put(u, r)
  BY DEF Find
<1>2. DOMAIN r = DOMAIN proc[u] /\ r.account = proc[u].account
  OBVIOUS
<1> HIDE DEF r
<1> QED
  BY <1>1, <1>2, SameKeeps, PutKeeps DEF Inv

LEMMA WithKeeps ==
  ASSUME NEW r, Keeps(r), NEW f, NEW entry
  PROVE  Keeps(With(r, f, entry))
<1>1. DOMAIN With(r, f, entry) = DOMAIN r /\ With(r, f, entry).account = r.account
  BY DEF With, Keeps
<1> QED
  BY <1>1, SameKeeps

LEMMA LookKeeps ==
  ASSUME Inv, NEW u \in Users, NEW f \in Files, Look(u, f)
  PROVE  Inv'
<1> DEFINE r == [proc[u] EXCEPT !.todo = @ \ {f}]
           g == [r EXCEPT !.at = "reading", !.file = f]
<1>1. DOMAIN r = DOMAIN proc[u] /\ r.account = proc[u].account
  BY DEF Inv, Keeps
<1>2. Put(u, IF Hit(r, f) THEN With(r, f, r.cache[f]) ELSE IF f \in linked THEN g ELSE r)
  BY DEF Look
<1> HIDE DEF r
<1>3. Keeps(r)
  BY <1>1, SameKeeps DEF Inv
<1>4. DOMAIN g = DOMAIN r /\ g.account = r.account
  BY <1>3 DEF Keeps
<1> HIDE DEF g
<1>5. Keeps(g) /\ Keeps(With(r, f, r.cache[f]))
  BY <1>3, <1>4, SameKeeps, WithKeeps
<1> QED
  BY <1>2, <1>3, <1>5, PutKeeps

LEMMA ReadKeeps ==
  ASSUME Inv, NEW u \in Users, Read(u)
  PROVE  Inv'
<1> DEFINE r == proc[u]
           a == ReadLine(r.file \in Codex, r.account, text[r.file][r.account.lines + 1])
           s == [r EXCEPT !.account = a]
<1>1. Keeps(r)
  BY DEF Inv
<1>2. Account(a)
  BY <1>1, ClaudeIsAccount, CodexIsAccount DEF ReadLine, Keeps
<1>3. Put(u, s)
  BY DEF Read
<1> HIDE DEF a
<1>4. DOMAIN s = DOMAIN r /\ s.account = a
  BY <1>1 DEF Keeps
<1>5. Keeps(s)
  BY <1>1, <1>2, <1>4 DEF Keeps
<1> QED
  BY <1>3, <1>5, PutKeeps

LEMMA ParsedKeeps ==
  ASSUME Inv, NEW u \in Users, Parsed(u)
  PROVE  Inv'
<1> DEFINE r == With(proc[u], proc[u].file, EntryOf(proc[u]))
           s == [r EXCEPT !.at = "looking", !.file = NoFile, !.account = NoAccount]
<1>1. Keeps(r)
  BY WithKeeps DEF Inv
<1>2. Put(u, s)
  BY DEF Parsed
<1> HIDE DEF r
<1>3. DOMAIN s = DOMAIN r /\ s.account = NoAccount
  BY <1>1 DEF Keeps
<1>4. Keeps(s)
  BY <1>1, <1>3, NoAccountIs DEF Keeps
<1> QED
  BY <1>2, <1>4, PutKeeps

LEMMA SaveKeeps ==
  ASSUME Inv, NEW u \in Users, Save(u)
  PROVE  Inv'
<1> DEFINE r == [proc[u] EXCEPT !.at = "answering", !.cache = Empty, !.refs = Empty]
<1>1. Put(u, r)
  BY DEF Save
<1>2. DOMAIN r = DOMAIN proc[u] /\ r.account = proc[u].account
  OBVIOUS
<1> HIDE DEF r
<1> QED
  BY <1>1, <1>2, SameKeeps, PutKeeps DEF Inv

LEMMA DoneKeeps ==
  ASSUME NEW r, Keeps(r), NEW answer
  PROVE  Keeps(Done(r, answer))
<1>1. DOMAIN Done(r, answer) = DOMAIN r /\ Done(r, answer).account = r.account
  BY DEF Done, Keeps
<1> QED
  BY <1>1, SameKeeps

\* List, Name, Rebuilt and Found end the command.
LEMMA AnswerKeeps ==
  ASSUME Inv, NEW u \in Users, List(u) \/ Name(u) \/ Rebuilt(u) \/ Found(u)
  PROVE  Inv'
<1>1. PICK answer : Put(u, Done(proc[u], answer))
  BY DEF List, Name, Rebuilt, Found
<1> QED
  BY <1>1, DoneKeeps, PutKeeps DEF Inv

LEMMA SearchKeeps ==
  ASSUME Inv, NEW u \in Users, Search(u)
  PROVE  Inv'
<1> DEFINE r == [proc[u] EXCEPT !.at = "searching", !.batches = BatchPaths(Newest(proc[u], Admitted(proc[u])))]
<1>1. Put(u, r)
  BY DEF Search
<1>2. DOMAIN r = DOMAIN proc[u] /\ r.account = proc[u].account
  OBVIOUS
<1> HIDE DEF r
<1> QED
  BY <1>1, <1>2, SameKeeps, PutKeeps DEF Inv

LEMMA ScanKeeps ==
  ASSUME Inv, NEW u \in Users, Scan(u)
  PROVE  Inv'
<1> DEFINE r == proc[u]
           batch == Range(Head(r.batches))
           s == [r EXCEPT !.batches = Tail(@), !.hits = @ \cup {f \in batch : Mentions(f)}]
           d == Done(r, <<>>)
           e == [d EXCEPT !.at = "failed"]
<1>1. Keeps(r)
  BY DEF Inv
<1>2. Keeps(d)
  BY <1>1, DoneKeeps
<1>3. Put(u, IF batch \subseteq linked THEN s ELSE e)
  BY DEF Scan
<1> HIDE DEF d, batch
<1>4. DOMAIN s = DOMAIN r /\ s.account = r.account /\ DOMAIN e = DOMAIN d /\ e.account = d.account
  BY <1>1, <1>2 DEF Keeps
<1> HIDE DEF s, e
<1>5. Keeps(s) /\ Keeps(e)
  BY <1>1, <1>2, <1>4, SameKeeps
<1> QED
  BY <1>3, <1>5, PutKeeps

LEMMA GatherKeeps ==
  ASSUME Inv, NEW u \in Users, Gather(u)
  PROVE  Inv'
<1> DEFINE window == Limited(Newest(proc[u], Admitted(proc[u])), proc[u].job.limit)
           r == [proc[u] EXCEPT !.at = "asking", !.answer = window,
                                !.focus = FocusOf(proc[u], window)]
<1>1. Put(u, r)
  BY DEF Gather
<1> HIDE DEF window
<1>2. DOMAIN r = DOMAIN proc[u] /\ r.account = proc[u].account
  OBVIOUS
<1> HIDE DEF r
<1> QED
  BY <1>1, <1>2, SameKeeps, PutKeeps DEF Inv

LEMMA QuestionKeeps ==
  ASSUME Inv, NEW u \in Users, NEW answered \in BOOLEAN, Question(u, answered)
  PROVE  Inv'
<1> DEFINE asked == Append(proc[u].asked, answered)
           turns == IF answered THEN Append(proc[u].turns, Len(proc[u].asked) + 1)
                    ELSE proc[u].turns
           r == [proc[u] EXCEPT !.asked = asked, !.turns = turns]
<1>1. Put(u, r)
  BY DEF Question
<1> HIDE DEF asked, turns
<1>2. DOMAIN r = DOMAIN proc[u] /\ r.account = proc[u].account
  OBVIOUS
<1> HIDE DEF r
<1> QED
  BY <1>1, <1>2, SameKeeps, PutKeeps DEF Inv

LEMMA LeaveKeeps ==
  ASSUME Inv, NEW u \in Users, Leave(u)
  PROVE  Inv'
<1>1. PICK at : Put(u, [proc[u] EXCEPT !.at = at])
  BY DEF Leave
<1> DEFINE r == [proc[u] EXCEPT !.at = at]
<1>2. DOMAIN r = DOMAIN proc[u] /\ r.account = proc[u].account
  OBVIOUS
<1> HIDE DEF r
<1> QED
  BY <1>1, <1>2, SameKeeps, PutKeeps DEF Inv, r

----------------------------------------------------------------------------
(* The theorem.                                                            *)

LEMMA NextKeeps ==
  ASSUME Inv, [Next]_vars
  PROVE  Inv'
<1>1. CASE \E f \in Files : Write(f) \/ Vanish(f)
  BY <1>1 DEF Write, Vanish, Inv
<1>2. ASSUME NEW u \in Users, NEW job \in Jobs, Start(u, job)
      PROVE  Inv'
  BY <1>2, StartKeeps
<1>3. ASSUME NEW u \in Users, Step(u)
      PROVE  Inv'
  BY <1>3, LoadKeeps, FindKeeps, LookKeeps, ReadKeeps, ParsedKeeps, SaveKeeps, AnswerKeeps,
     SearchKeeps, ScanKeeps, GatherKeeps, QuestionKeeps, LeaveKeeps DEF Step
<1>4. ASSUME NEW u \in Users, Kill(u)
      PROVE  Inv'
  BY <1>4, KillKeeps
<1>5. CASE UNCHANGED vars
  BY <1>5 DEF Inv, vars
<1> QED
  BY <1>1, <1>2, <1>3, <1>4, <1>5 DEF Next

\* However long a transcript is and whatever its lines are, what the sampler kept of it
\* is even: the arc of a session shows its whole length, from the first prompt on.
THEOREM ArcsAreEven == Spec => []ArcIsEven
<1>1. Init => Inv
  BY IdleKeeps DEF Init, Inv
<1>2. Inv /\ [Next]_vars => Inv'
  BY NextKeeps
<1>3. Inv => ArcIsEven
  BY DEF Inv, Keeps, Account, ArcIsEven
<1> QED
  BY <1>1, <1>2, <1>3, PTL DEF Spec
----------------------------------------------------------------------------
(* Induction.                                                              *)

\* What holds of zero, and of the next of each it holds of, holds of all.
LEMMA Induction ==
  ASSUME NEW S \in SUBSET Nat, 0 \in S, \A n \in S : n + 1 \in S
  PROVE  S = Nat
<1> SUFFICES ASSUME S # Nat PROVE FALSE
  OBVIOUS
<1> DEFINE R == OpToRel(<, Nat)
<1>1. IsWellFoundedOn(R, Nat)
  BY NatLessThanWellFounded
<1>2. \A m, n \in Nat : m < n => <<m, n>> \in R
  BY DEF OpToRel
<1> HIDE DEF R
<1>3. Nat \ S \subseteq Nat /\ Nat \ S # {}
  OBVIOUS
<1>4. PICK n \in Nat \ S : \A m \in Nat \ S : ~(<<m, n>> \in R)
  BY <1>1, <1>3, WFMin
<1>5. n # 0 /\ n - 1 \in Nat /\ n - 1 < n
  OBVIOUS
<1>6. n - 1 \in S
  BY <1>2, <1>4, <1>5
<1> QED
  BY <1>5, <1>6

----------------------------------------------------------------------------
(* The fold of a whole transcript, which Parse makes, line by line.  The   *)
(* library folds over the set of all positions, taking its largest last.   *)

\* What is folded: the lines of an adapter's transcript, paths into batches, or prompts,
\* without those of kind.told.
NoBatches == [full |-> <<>>, last |-> <<>>, bytes |-> 0]

Batched(b, f) ==
  IF b.last # <<>> /\ b.bytes + Size[f] > ArgvCap
  THEN [full |-> Append(b.full, b.last), last |-> <<f>>, bytes |-> Size[f]]
  ELSE [b EXCEPT !.last = Append(@, f), !.bytes = @ + Size[f]]

Kept(x, q, p) == IF p \in ToSet(x) THEN q ELSE Append(q, p)

Paths         == [of |-> "path", told |-> <<>>]
Prompts(x)    == [of |-> "prompt", told |-> x]
KindOf(codex) == [of |-> IF codex THEN "codex" ELSE "claude", told |-> <<>>]

First(kind) ==
  CASE kind.of = "path" -> NoBatches [] kind.of = "prompt" -> <<>> [] OTHER -> NoAccount
Taken(kind, a, e) ==
  CASE kind.of = "path"   -> Batched(a, e)
    [] kind.of = "prompt" -> Kept(kind.told, a, e)
    [] OTHER              -> ReadLine(kind.of = "codex", a, e)

FoldOn(kind, t, n, h) ==
  h = [s \in SUBSET (1..n) |-> IF s = {} THEN First(kind)
                               ELSE Taken(kind, h[s \ {Max(s)}], t[Max(s)])]

LEMMA LastIsMax ==
  ASSUME NEW n \in Nat, NEW s \in SUBSET (1..n), n \in s
  PROVE  Max(s) = n
<1>1. \A x \in s : (\A y \in s : x >= y) => x = n
  OBVIOUS
<1>2. \A y \in s : n >= y
  OBVIOUS
<1> QED
  BY <1>1, <1>2 DEF Max

LEMMA FoldExists ==
  ASSUME NEW kind, NEW t, NEW n \in Nat
  PROVE  \E h : FoldOn(kind, t, n, h)
<1> DEFINE S == {m \in Nat : \E h : FoldOn(kind, t, m, h)}
<1>1. 0 \in S
  <2> DEFINE h == [s \in SUBSET (1..0) |-> First(kind)]
  <2>1. SUBSET (1..0) = {{}}
    OBVIOUS
  <2>2. h = [s \in SUBSET (1..0) |-> IF s = {} THEN First(kind)
                               ELSE Taken(kind, h[s \ {Max(s)}], t[Max(s)])]
    BY <2>1
  <2> HIDE DEF h
  <2>3. FoldOn(kind, t, 0, h)
    BY <2>2 DEF FoldOn
  <2> QED
    BY <2>3
<1>2. ASSUME NEW m \in S
      PROVE  m + 1 \in S
  <2>1. m \in Nat /\ m + 1 \in Nat /\ 1..m \subseteq 1..(m + 1) /\ m + 1 \notin 1..m
    OBVIOUS
  <2>2. PICK h : FoldOn(kind, t, m, h)
    OBVIOUS
  <2> DEFINE g == [s \in SUBSET (1..(m + 1)) |->
                     IF m + 1 \in s THEN Taken(kind, h[s \ {m + 1}], t[m + 1]) ELSE h[s]]
  <2>3. ASSUME NEW s \in SUBSET (1..(m + 1)), m + 1 \in s
        PROVE  g[s] = Taken(kind, g[s \ {Max(s)}], t[Max(s)])
    <3>1. Max(s) = m + 1
      BY <2>1, <2>3, LastIsMax
    <3>2. g[s \ {m + 1}] = h[s \ {m + 1}]
      BY <2>3
    <3> QED
      BY <2>3, <3>1, <3>2
  <2>4. ASSUME NEW s \in SUBSET (1..(m + 1)), m + 1 \notin s
        PROVE  g[s] = IF s = {} THEN First(kind)
                      ELSE Taken(kind, g[s \ {Max(s)}], t[Max(s)])
    <3>1. s \in SUBSET (1..m)
      <4>1. \A i \in 1..(m + 1) : i # m + 1 => i \in 1..m
        BY <2>1
      <4> QED
        BY <2>4, <4>1
    <3>2. g[s] = h[s]
      BY <2>4
    <3>4. m + 1 \notin s \ {Max(s)} /\ s \ {Max(s)} \in SUBSET (1..(m + 1))
      BY <2>1, <2>4, <3>1
    <3>5. g[s \ {Max(s)}] = h[s \ {Max(s)}]
      BY <3>4
    <3>3. h[s] = IF s = {} THEN First(kind) ELSE Taken(kind, h[s \ {Max(s)}], t[Max(s)])
      BY <2>2, <3>1 DEF FoldOn
    <3> QED
      BY <3>2, <3>3, <3>5
  <2>5. g = [s \in SUBSET (1..(m + 1)) |->
               IF s = {} THEN First(kind) ELSE Taken(kind, g[s \ {Max(s)}], t[Max(s)])]
    BY <2>3, <2>4
  <2> HIDE DEF g
  <2>6. FoldOn(kind, t, m + 1, g)
    BY <2>5 DEF FoldOn
  <2> QED
    BY <2>1, <2>6
<1> HIDE DEF S
<1>3. S = Nat
  <2>1. S \in SUBSET Nat
    BY DEF S
  <2> QED
    BY <1>1, <1>2, <2>1, Induction
<1> QED
  BY <1>3 DEF S

Same(t, v, n) == \A i \in 1..n : t[i] = v[i]

LEMMA FoldAgrees ==
  ASSUME NEW kind, NEW t, NEW v, NEW n \in Nat, Same(t, v, n),
         NEW g, FoldOn(kind, t, n + 1, g), NEW h, FoldOn(kind, v, n, h)
  PROVE  \A s \in SUBSET (1..n) : g[s] = h[s]
<1> DEFINE S == {m \in Nat : \A s \in SUBSET (1..n) : s \subseteq 1..m => g[s] = h[s]}
<1>1. \A s \in SUBSET (1..n) :
        /\ g[s] = IF s = {} THEN First(kind) ELSE Taken(kind, g[s \ {Max(s)}], t[Max(s)])
        /\ h[s] = IF s = {} THEN First(kind) ELSE Taken(kind, h[s \ {Max(s)}], v[Max(s)])
  <2>1. 1..n \subseteq 1..(n + 1)
    OBVIOUS
  <2> QED
    BY <2>1 DEF FoldOn
<1>2. 0 \in S
  <2>1. \A s : s \subseteq 1..0 => s = {}
    OBVIOUS
  <2>2. {} \in SUBSET (1..n)
    OBVIOUS
  <2> QED
    BY <1>1, <2>1, <2>2
<1>3. ASSUME NEW m \in S
      PROVE  m + 1 \in S
  <2>1. ASSUME NEW s \in SUBSET (1..n), s \subseteq 1..(m + 1), m + 1 \in s
        PROVE  g[s] = h[s]
    <3>1. Max(s) = m + 1 /\ m + 1 \in 1..n
      BY <2>1, LastIsMax
    <3>2. s \ {m + 1} \in SUBSET (1..n) /\ s \ {m + 1} \subseteq 1..m
      BY <2>1
    <3>3. g[s \ {m + 1}] = h[s \ {m + 1}]
      BY <3>2
    <3> QED
      BY <1>1, <2>1, <3>1, <3>3 DEF Same
  <2>2. ASSUME NEW s \in SUBSET (1..n), s \subseteq 1..(m + 1), m + 1 \notin s
        PROVE  g[s] = h[s]
    <3>1. s \subseteq 1..m
      BY <2>2
    <3> QED
      BY <3>1
  <2> QED
    BY <2>1, <2>2
<1> HIDE DEF S
<1>4. S = Nat
  <2>1. S \in SUBSET Nat
    BY DEF S
  <2> QED
    BY <1>2, <1>3, <2>1, Induction
<1>5. n \in S
  BY <1>4
<1> QED
  BY <1>5 DEF S

LEMMA FoldGrows ==
  ASSUME NEW kind, NEW t, NEW v, NEW n \in Nat, Same(t, v, n),
         NEW g, FoldOn(kind, t, n + 1, g), NEW h, FoldOn(kind, v, n, h)
  PROVE  g[1..(n + 1)] = Taken(kind, h[1..n], t[n + 1])
<1>1. \A s \in SUBSET (1..n) : g[s] = h[s]
  BY FoldAgrees
<1>2. \A s \in SUBSET (1..(n + 1)) :
        s # {} => g[s] = Taken(kind, g[s \ {Max(s)}], t[Max(s)])
  BY DEF FoldOn
<1>3. n + 1 \in 1..(n + 1) /\ n + 1 \in Nat
  OBVIOUS
<1>4. Max(1..(n + 1)) = n + 1
  BY <1>3, LastIsMax
<1>5. g[1..(n + 1)] = Taken(kind, g[(1..(n + 1)) \ {n + 1}], t[n + 1])
  BY <1>2, <1>3, <1>4
<1>6. (1..(n + 1)) \ {n + 1} = 1..n
  OBVIOUS
<1> QED
  BY <1>1, <1>5, <1>6


----------------------------------------------------------------------------
(* The two folds of the model.                                             *)

AccountOf(codex, t) ==
  LET Line(a, e) == ReadLine(codex, a, e) IN FoldLeft(Line, NoAccount, t)

LEMMA AccountIsChosen ==
  ASSUME NEW codex, NEW t
  PROVE  AccountOf(codex, t) =
           (CHOOSE h : h = [s \in SUBSET DOMAIN t |->
                              IF s = {} THEN NoAccount
                              ELSE ReadLine(codex, h[s \ {Max(s)}], t[Max(s)])])[DOMAIN t]
BY DEF AccountOf, FoldLeft, MapThenFoldSet

LEMMA AccountIsFold ==
  ASSUME NEW codex \in BOOLEAN, NEW n \in Nat, NEW t, DOMAIN t = 1..n
  PROVE  \E h : FoldOn(KindOf(codex), t, n, h) /\ AccountOf(codex, t) = h[1..n]
<1> DEFINE P(h) == h = [s \in SUBSET DOMAIN t |->
                              IF s = {} THEN NoAccount
                              ELSE ReadLine(codex, h[s \ {Max(s)}], t[Max(s)])]
<1>1. \A h : FoldOn(KindOf(codex), t, n, h) <=> P(h)
  <2>1. KindOf(codex).of \notin {"path", "prompt"} /\ (KindOf(codex).of = "codex" <=> codex)
    BY DEF KindOf
  <2>2. \A a, e : Taken(KindOf(codex), a, e) = ReadLine(codex, a, e)
    BY <2>1 DEF Taken, ReadLine
  <2>3. First(KindOf(codex)) = NoAccount
    BY <2>1 DEF First
  <2> QED
    BY <2>2, <2>3 DEF FoldOn
<1>2. \E h : P(h)
  BY <1>1, FoldExists
<1>3. AccountOf(codex, t) = (CHOOSE h : P(h))[1..n]
  BY AccountIsChosen
<1>4. P(CHOOSE h : P(h))
  BY <1>2
<1> HIDE DEF P
<1> QED
  BY <1>1, <1>3, <1>4

\* The account of one line more is the account so far, and that line.
LEMMA AccountGrows ==
  ASSUME NEW codex \in BOOLEAN, NEW n \in Nat, NEW t, DOMAIN t = 1..(n + 1),
         NEW v, DOMAIN v = 1..n, Same(t, v, n)
  PROVE  AccountOf(codex, t) = ReadLine(codex, AccountOf(codex, v), t[n + 1])
<1>1. n + 1 \in Nat
  OBVIOUS
<1>2. PICK g : FoldOn(KindOf(codex), t, n + 1, g) /\ AccountOf(codex, t) = g[1..(n + 1)]
  BY <1>1, AccountIsFold
<1>3. PICK h : FoldOn(KindOf(codex), v, n, h) /\ AccountOf(codex, v) = h[1..n]
  BY AccountIsFold
<1>4. g[1..(n + 1)] = Taken(KindOf(codex), h[1..n], t[n + 1])
  BY <1>2, <1>3, FoldGrows
<1>5. KindOf(codex).of \notin {"path", "prompt"} /\ (KindOf(codex).of = "codex" <=> codex)
  BY DEF KindOf
<1> QED
  BY <1>2, <1>3, <1>4, <1>5 DEF Taken, ReadLine

LEMMA AccountOfNothing ==
  ASSUME NEW codex \in BOOLEAN, NEW t, DOMAIN t = {}
  PROVE  AccountOf(codex, t) = NoAccount
<1>1. 1..0 = {}
  OBVIOUS
<1>2. PICK h : FoldOn(KindOf(codex), t, 0, h) /\ AccountOf(codex, t) = h[1..0]
  BY <1>1, AccountIsFold
<1>3. h[{}] = First(KindOf(codex))
  BY <1>2 DEF FoldOn
<1> QED
  BY <1>1, <1>2, <1>3 DEF First, KindOf

\* All batches of a list of paths.
BatchesOf(q) ==
  LET Path(b, f) == Batched(b, f) IN FoldLeft(Path, NoBatches, q)

LEMMA BatchesAreChosen ==
  ASSUME NEW q
  PROVE  BatchesOf(q) =
           (CHOOSE h : h = [s \in SUBSET DOMAIN q |->
                              IF s = {} THEN NoBatches
                              ELSE Batched(h[s \ {Max(s)}], q[Max(s)])])[DOMAIN q]
BY DEF BatchesOf, FoldLeft, MapThenFoldSet

LEMMA BatchPathsAre ==
  ASSUME NEW q
  PROVE  BatchPaths(q) = LET all == BatchesOf(q)
                         IN IF all.last = <<>> THEN all.full ELSE Append(all.full, all.last)
BY DEF BatchPaths, BatchesOf, Batched, NoBatches

LEMMA BatchesAreFold ==
  ASSUME NEW n \in Nat, NEW q, DOMAIN q = 1..n
  PROVE  \E h : FoldOn(Paths, q, n, h) /\ BatchesOf(q) = h[1..n]
<1> DEFINE P(h) == h = [s \in SUBSET DOMAIN q |->
                              IF s = {} THEN NoBatches
                              ELSE Batched(h[s \ {Max(s)}], q[Max(s)])]
<1>1. \A h : FoldOn(Paths, q, n, h) <=> P(h)
  BY DEF FoldOn, First, Taken, Paths
<1>2. \E h : P(h)
  BY <1>1, FoldExists
<1>3. BatchesOf(q) = (CHOOSE h : P(h))[1..n]
  BY BatchesAreChosen
<1>4. P(CHOOSE h : P(h))
  BY <1>2
<1> HIDE DEF P
<1> QED
  BY <1>1, <1>3, <1>4

LEMMA BatchesGrow ==
  ASSUME NEW n \in Nat, NEW q, DOMAIN q = 1..(n + 1), NEW v, DOMAIN v = 1..n, Same(q, v, n)
  PROVE  BatchesOf(q) = Batched(BatchesOf(v), q[n + 1])
<1>1. n + 1 \in Nat
  OBVIOUS
<1>2. PICK g : FoldOn(Paths, q, n + 1, g) /\ BatchesOf(q) = g[1..(n + 1)]
  BY <1>1, BatchesAreFold
<1>3. PICK h : FoldOn(Paths, v, n, h) /\ BatchesOf(v) = h[1..n]
  BY BatchesAreFold
<1>4. g[1..(n + 1)] = Taken(Paths, h[1..n], q[n + 1])
  BY <1>2, <1>3, FoldGrows
<1> QED
  BY <1>2, <1>3, <1>4 DEF Taken, Paths

LEMMA BatchesOfNothing ==
  ASSUME NEW q, DOMAIN q = {}
  PROVE  BatchesOf(q) = NoBatches
<1>1. 1..0 = {}
  OBVIOUS
<1>2. PICK h : FoldOn(Paths, q, 0, h) /\ BatchesOf(q) = h[1..0]
  BY <1>1, BatchesAreFold
<1>3. h[{}] = NoBatches
  BY <1>2 DEF FoldOn, First, Paths
<1> QED
  BY <1>1, <1>2, <1>3

----------------------------------------------------------------------------
(* The files.  They are passed as arguments: m their mtimes, t their texts *)
(* and l those that are not removed.                                       *)

IsSeq(q) == \E S : q \in Seq(S)

LEMMA AppendIsSeq ==
  ASSUME NEW q, IsSeq(q), NEW x
  PROVE  /\ IsSeq(Append(q, x)) /\ Len(q) \in Nat
         /\ DOMAIN q = 1..Len(q) /\ DOMAIN Append(q, x) = 1..(Len(q) + 1)
         /\ Len(Append(q, x)) = Len(q) + 1
         /\ \A i \in 1..Len(q) : Append(q, x)[i] = q[i]
         /\ Append(q, x)[Len(q) + 1] = x
<1>1. PICK S : q \in Seq(S)
  BY DEF IsSeq
<1>2. q \in Seq(S \cup {x}) /\ x \in S \cup {x}
  BY <1>1
<1>3. Append(q, x) \in Seq(S \cup {x})
  BY <1>2
<1> QED
  BY <1>2, <1>3 DEF IsSeq

\* Every line was written at a time of its own, at the latest with the last write.
FilesIn(c, m, t, l) ==
  /\ c \in Nat /\ m \in [Files -> Nat] /\ DOMAIN t = Files /\ l \subseteq Files
  /\ \A f \in Files :
       /\ IsSeq(t[f]) /\ m[f] <= c /\ (f \in l => m[f] > 0)
       /\ \A i \in DOMAIN t[f] : t[f][i].at \in 1..m[f]

\* From one state of the files to a later one.
Grown(m, t, l, m2, t2, l2) ==
  \A f \in Files :
    /\ m2[f] >= m[f] /\ Len(t2[f]) >= Len(t[f])
    /\ \A i \in 1..Len(t[f]) : t2[f][i] = t[f][i]
    /\ \A i \in DOMAIN t2[f] : i > Len(t[f]) => t2[f][i].at > m[f]
    /\ m2[f] = m[f] => t2[f] = t[f]
    /\ f \in l2 /\ m[f] > 0 => f \in l

\* A write appends at most a line, at a time that is later than all before.
LEMMA WriteGrows ==
  ASSUME FilesIn(clock, mtime, text, linked), NEW f \in Files, Write(f)
  PROVE  /\ FilesIn(clock', mtime', text', linked')
         /\ Grown(mtime, text, linked, mtime', text', linked')
         /\ clock' = clock + 1 /\ mtime' = [mtime EXCEPT ![f] = clock']
         /\ \A g \in Files : g # f => text'[g] = text[g]
         /\ \A i \in DOMAIN text'[f] :
              (i \in DOMAIN text[f] /\ text'[f][i] = text[f][i]) \/ text'[f][i].at = clock'
<1>1. /\ clock \in Nat /\ mtime \in [Files -> Nat] /\ DOMAIN text = Files /\ linked \subseteq Files
      /\ \A g \in Files : /\ IsSeq(text[g]) /\ mtime[g] <= clock /\ (g \in linked => mtime[g] > 0)
                          /\ \A i \in DOMAIN text[g] : text[g][i].at \in 1..mtime[g]
  BY DEF FilesIn
<1>2. clock' = clock + 1 /\ mtime' = [mtime EXCEPT ![f] = clock + 1] /\ linked' = linked \cup {f}
      /\ (mtime[f] > 0 => f \in linked)
  BY DEF Write
<1>3. \A g \in Files : Len(text[g]) \in Nat /\ DOMAIN text[g] = 1..Len(text[g])
  BY <1>1, AppendIsSeq
<1>4. text' = text \/ \E line : text' = [text EXCEPT ![f] = Append(@, [line |-> line, at |-> clock + 1])]
  BY DEF Write
<1>5. /\ DOMAIN text' = Files /\ \A g \in Files : g # f => text'[g] = text[g]
      /\ IsSeq(text'[f]) /\ Len(text'[f]) \in {Len(text[f]), Len(text[f]) + 1}
      /\ DOMAIN text'[f] = 1..Len(text'[f])
      /\ \A i \in 1..Len(text[f]) : text'[f][i] = text[f][i]
      /\ \A i \in DOMAIN text'[f] : i \notin 1..Len(text[f]) => text'[f][i].at = clock + 1
  <2>1. CASE text' = text
    BY <1>1, <1>3, <2>1
  <2>2. ASSUME NEW line, text' = [text EXCEPT ![f] = Append(@, [line |-> line, at |-> clock + 1])]
        PROVE  /\ DOMAIN text' = Files /\ \A g \in Files : g # f => text'[g] = text[g]
               /\ IsSeq(text'[f]) /\ Len(text'[f]) \in {Len(text[f]), Len(text[f]) + 1}
               /\ DOMAIN text'[f] = 1..Len(text'[f])
               /\ \A i \in 1..Len(text[f]) : text'[f][i] = text[f][i]
               /\ \A i \in DOMAIN text'[f] : i \notin 1..Len(text[f]) => text'[f][i].at = clock + 1
    <3> DEFINE e == [line |-> line, at |-> clock + 1]
    <3>1. text'[f] = Append(text[f], e) /\ e.at = clock + 1
      BY <1>1, <2>2
    <3> HIDE DEF e
    <3>2. /\ IsSeq(text'[f]) /\ Len(text'[f]) = Len(text[f]) + 1
          /\ DOMAIN text'[f] = 1..(Len(text[f]) + 1)
          /\ \A i \in 1..Len(text[f]) : text'[f][i] = text[f][i]
          /\ text'[f][Len(text[f]) + 1] = e
      BY <1>1, <3>1, AppendIsSeq
    <3>3. \A i \in 1..(Len(text[f]) + 1) : i \notin 1..Len(text[f]) => i = Len(text[f]) + 1
      BY <1>3
    <3> QED
      BY <1>1, <2>2, <3>1, <3>2, <3>3
  <2> QED
    BY <1>4, <2>1, <2>2
<1>6. \A g \in Files : /\ mtime'[g] \in Nat /\ mtime'[g] <= clock + 1 /\ mtime'[g] >= mtime[g]
                       /\ (g # f => mtime'[g] = mtime[g])
  BY <1>1, <1>2
<1>7. mtime'[f] = clock + 1 /\ mtime[f] < clock + 1
  BY <1>1, <1>2
<1>8. FilesIn(clock', mtime', text', linked')
  <2>1. ASSUME NEW i \in DOMAIN text'[f]
        PROVE  text'[f][i].at \in 1..mtime'[f]
    <3>1. CASE i \in 1..Len(text[f])
      <4>1. text'[f][i].at \in 1..mtime[f] /\ mtime[f] \in Nat
        BY <1>1, <1>3, <1>5, <3>1
      <4> QED
        BY <1>1, <1>7, <4>1
    <3>2. CASE i \notin 1..Len(text[f])
      <4>1. text'[f][i].at = clock + 1
        BY <1>5, <3>2
      <4> QED
        BY <1>1, <1>7, <4>1
    <3> QED
      BY <3>1, <3>2
  <2> QED
    BY <1>1, <1>2, <1>5, <1>6, <1>7, <2>1 DEF FilesIn
<1>9. Grown(mtime, text, linked, mtime', text', linked')
  <2>1. ASSUME NEW g \in Files, g # f
        PROVE  /\ mtime'[g] >= mtime[g] /\ text'[g] = text[g]
               /\ \A i \in DOMAIN text'[g] : ~(i > Len(text[g]))
               /\ (g \in linked' => g \in linked)
    BY <1>1, <1>2, <1>3, <1>5, <1>6, <2>1
  <2>2. /\ mtime'[f] >= mtime[f] /\ mtime'[f] # mtime[f] /\ clock + 1 > mtime[f]
        /\ Len(text'[f]) >= Len(text[f])
    <3>1. mtime[f] \in Nat /\ clock \in Nat /\ Len(text[f]) \in Nat
      BY <1>1, <1>3
    <3>2. Len(text'[f]) \in {Len(text[f]), Len(text[f]) + 1}
      BY <1>5
    <3>3. Len(text'[f]) >= Len(text[f])
      BY <3>1, <3>2
    <3>4. mtime'[f] >= mtime[f] /\ mtime'[f] # mtime[f] /\ clock + 1 > mtime[f]
      BY <1>7, <3>1
    <3> QED
      BY <3>3, <3>4
  <2>3. \A i \in DOMAIN text'[f] : i > Len(text[f]) => text'[f][i].at > mtime[f]
    <3>1. \A i \in DOMAIN text'[f] : i > Len(text[f]) => i \notin 1..Len(text[f])
      <4>1. \A i \in 1..Len(text'[f]) : i > Len(text[f]) => i \notin 1..Len(text[f])
        OBVIOUS
      <4> QED
        BY <1>5, <4>1
    <3> QED
      BY <1>5, <2>2, <3>1
  <2>4. ASSUME NEW g \in Files
        PROVE  /\ mtime'[g] >= mtime[g] /\ Len(text'[g]) >= Len(text[g])
               /\ \A i \in 1..Len(text[g]) : text'[g][i] = text[g][i]
               /\ \A i \in DOMAIN text'[g] : i > Len(text[g]) => text'[g][i].at > mtime[g]
               /\ mtime'[g] = mtime[g] => text'[g] = text[g]
               /\ g \in linked' /\ mtime[g] > 0 => g \in linked
    <3>1. CASE g = f
      BY <1>2, <1>5, <2>2, <2>3, <3>1
    <3>2. CASE g # f
      BY <1>3, <2>1, <3>2
    <3> QED
      BY <3>1, <3>2
  <2> QED
    BY <2>4 DEF Grown
<1> QED
  BY <1>2, <1>3, <1>5, <1>8, <1>9

\* A step of anything else leaves the files, but for one that may be removed.
LEMMA FilesStay ==
  ASSUME FilesIn(clock, mtime, text, linked), linked' \subseteq linked,
         UNCHANGED <<clock, text, mtime>>
  PROVE  /\ FilesIn(clock', mtime', text', linked')
         /\ Grown(mtime, text, linked, mtime', text', linked')
<1>1. \A f \in Files : Len(text[f]) \in Nat /\ DOMAIN text[f] = 1..Len(text[f]) /\ mtime[f] \in Nat
  BY AppendIsSeq DEF FilesIn
<1>2. FilesIn(clock', mtime', text', linked')
  BY DEF FilesIn
<1> QED
  BY <1>1, <1>2 DEF Grown

----------------------------------------------------------------------------
(* Accounts of prefixes.                                                   *)

\* An account has all its fields; the rest follows for each line read.
Full(a) == DOMAIN a = DOMAIN NoAccount

LEMMA NoAccountIsFull == Full(NoAccount) /\ NoAccount.lines = 0 /\ NoAccount.dated = 0
BY DEF Full, NoAccount

LEMMA DatedFields ==
  ASSUME NEW a, Full(a), NEW line, NEW time
  PROVE  /\ Full(Dated(a, line, time)) /\ Dated(a, line, time).lines = a.lines + 1
         /\ Dated(a, line, time).dated \in {a.dated, time}
BY DEF Full, Dated, NoAccount

LEMMA InDirFields ==
  ASSUME NEW a, Full(a), NEW line
  PROVE  Full(InDir(a, line)) /\ InDir(a, line).lines = a.lines /\ InDir(a, line).dated = a.dated
BY DEF Full, InDir, NoAccount

LEMMA PromptedFields ==
  ASSUME NEW a, Full(a)
  PROVE  Full(Prompted(a)) /\ Prompted(a).lines = a.lines /\ Prompted(a).dated = a.dated
BY DEF Full, Prompted, NoAccount

LEMMA MessageFields ==
  ASSUME NEW a, Full(a), NEW line, NEW time
  PROVE  /\ Full(Message(a, line, time)) /\ Message(a, line, time).lines = a.lines + 1
         /\ Message(a, line, time).dated \in {a.dated, time}
<1> DEFINE d == Dated(a, line, time)
           m == InDir(d, line)
           k == [m EXCEPT !.messages = @ + 1,
                          !.side = @ \/ "sub" \in line.marks, !.auto = @ \/ "auto" \in line.marks,
                          !.cutAt = IF "cut" \in line.marks THEN a.messages + 1 ELSE @]
<1>1. Full(d) /\ d.lines = a.lines + 1 /\ d.dated \in {a.dated, time}
  BY DatedFields
<1> HIDE DEF d
<1>2. Full(m) /\ m.lines = d.lines /\ m.dated = d.dated
  BY <1>1, InDirFields
<1> HIDE DEF m
<1>3. Full(k) /\ k.lines = m.lines /\ k.dated = m.dated
  BY <1>2 DEF Full, NoAccount
<1>4. Message(a, line, time) = k
  BY DEF Message, m, d
<1> HIDE DEF k
<1> QED
  BY <1>1, <1>2, <1>3, <1>4

LEMMA ClaudeFields ==
  ASSUME NEW a, Full(a), NEW line, NEW time
  PROVE  /\ Full(ReadClaude(a, line, time)) /\ ReadClaude(a, line, time).lines = a.lines + 1
         /\ ReadClaude(a, line, time).dated \in {a.dated, time}
<1> DEFINE m == Message(a, line, time)
           Fine(b) == Full(b) /\ b.lines = a.lines + 1 /\ b.dated \in {a.dated, time}
<1>1. Fine(m)
  BY MessageFields
<1> HIDE DEF m
<1>2. Fine(Prompted(m))
  BY <1>1, PromptedFields
<1>3. Fine([m EXCEPT !.failedAt = m.messages, !.failure = m.lines]) /\ Fine([m EXCEPT !.reply = m.lines])
  BY <1>1 DEF Full, NoAccount
<1>4. /\ Fine([a EXCEPT !.lines = @ + 1, !.last = a.lines + 1])
      /\ Fine([a EXCEPT !.lines = @ + 1, !.prs = 1]) /\ Fine([a EXCEPT !.lines = @ + 1])
  BY DEF Full, NoAccount
<1> HIDE DEF Fine
<1>5. CASE line.kind = "lastPrompt"
  BY <1>4, <1>5 DEF ReadClaude, Fine
<1>6. CASE line.kind = "prLink"
  BY <1>4, <1>6 DEF ReadClaude, Fine
<1>7. CASE line.kind = "prompt"
  BY <1>1, <1>2, <1>7 DEF ReadClaude, m, Fine
<1>8. CASE line.kind = "failed"
  BY <1>1, <1>3, <1>8 DEF ReadClaude, m, Fine
<1>9. CASE line.kind = "machinery"
  BY <1>1, <1>9 DEF ReadClaude, m, Fine
<1>10. CASE line.kind = "reply"
  BY <1>3, <1>10 DEF ReadClaude, m, Fine
<1>11. CASE line.kind \notin {"lastPrompt", "prLink", "prompt", "failed", "machinery", "reply"}
  BY <1>4, <1>11 DEF ReadClaude, Fine
<1> QED
  BY <1>5, <1>6, <1>7, <1>8, <1>9, <1>10, <1>11

LEMMA CodexFields ==
  ASSUME NEW a, Full(a), NEW line, NEW time
  PROVE  /\ Full(ReadCodex(a, line, time)) /\ ReadCodex(a, line, time).lines = a.lines + 1
         /\ ReadCodex(a, line, time).dated \in {a.dated, time}
<1> DEFINE d == Dated(a, line, time)
           e == InDir(d, line)
           k == [d EXCEPT !.messages = @ + 1]
           Fine(b) == Full(b) /\ b.lines = a.lines + 1 /\ b.dated \in {a.dated, time}
<1>1. Fine(d)
  BY DatedFields
<1> HIDE DEF d
<1>2. Fine(e)
  BY <1>1, InDirFields
<1> HIDE DEF e
<1>3. /\ Fine(k) /\ Fine([e EXCEPT !.auto = @ \/ "auto" \in line.marks])
      /\ Fine([d EXCEPT !.messages = @ + 1, !.reply = d.lines])
      /\ Fine([d EXCEPT !.started = @ + 1])
      /\ Fine([d EXCEPT !.completed = @ + 1, !.reply = d.lines])
      /\ Fine([d EXCEPT !.failure = d.lines]) /\ Fine([a EXCEPT !.lines = @ + 1])
  BY <1>1, <1>2 DEF Full, NoAccount
<1>4. Fine(Prompted(k))
  BY <1>3, PromptedFields
<1> HIDE DEF Fine
<1>5. CASE line.kind = "context"
  BY <1>3, <1>5 DEF ReadCodex, d, e, Fine
<1>6. CASE line.kind = "user"
  BY <1>4, <1>6 DEF ReadCodex, d, Fine
<1>7. CASE line.kind = "agent"
  BY <1>3, <1>7 DEF ReadCodex, d, Fine
<1>8. CASE line.kind = "started"
  BY <1>3, <1>8 DEF ReadCodex, d, Fine
<1>9. CASE line.kind = "complete"
  BY <1>3, <1>9 DEF ReadCodex, d, Fine
<1>10. CASE line.kind = "exitFailed"
  BY <1>3, <1>10 DEF ReadCodex, d, Fine
<1>11. CASE line.kind = "torn"
  BY <1>3, <1>11 DEF ReadCodex, Fine
<1>12. CASE line.kind \notin {"context", "user", "agent", "started", "complete", "exitFailed", "torn"}
  BY <1>1, <1>12 DEF ReadCodex, d, Fine
<1> QED
  BY <1>5, <1>6, <1>7, <1>8, <1>9, <1>10, <1>11, <1>12

\* A line is counted, and its time may be taken.
LEMMA LineFields ==
  ASSUME NEW codex, NEW a, Full(a), NEW e
  PROVE  /\ Full(ReadLine(codex, a, e)) /\ ReadLine(codex, a, e).lines = a.lines + 1
         /\ ReadLine(codex, a, e).dated \in {a.dated, e.at}
BY ClaudeFields, CodexFields DEF ReadLine

Prefix(t, n) == SubSeq(t, 1, n)

LEMMA PrefixIs ==
  ASSUME NEW t, IsSeq(t), NEW n \in 0..Len(t)
  PROVE  /\ IsSeq(Prefix(t, n)) /\ DOMAIN Prefix(t, n) = 1..n /\ Len(Prefix(t, n)) = n
         /\ \A i \in 1..n : Prefix(t, n)[i] = t[i]
<1>1. PICK S : t \in Seq(S)
  BY DEF IsSeq
<1>2. n \in Nat /\ Len(t) \in Nat
  BY <1>1
<1> QED
  BY <1>1, <1>2 DEF Prefix, IsSeq

LEMMA SameSeq ==
  ASSUME NEW p, IsSeq(p), NEW q, IsSeq(q), Len(p) = Len(q), \A i \in 1..Len(p) : p[i] = q[i]
  PROVE  p = q
<1>1. PICK S : p \in Seq(S)
  BY DEF IsSeq
<1>2. PICK T : q \in Seq(T)
  BY DEF IsSeq
<1>3. p \in Seq(S \cup T) /\ q \in Seq(S \cup T)
  BY <1>1, <1>2
<1> QED
  BY <1>3

LEMMA PrefixGrows ==
  ASSUME NEW codex \in BOOLEAN, NEW t, IsSeq(t), NEW n \in Nat, n < Len(t)
  PROVE  AccountOf(codex, Prefix(t, n + 1)) = ReadLine(codex, AccountOf(codex, Prefix(t, n)), t[n + 1])
<1>1. Len(t) \in Nat /\ n \in 0..Len(t) /\ n + 1 \in 0..Len(t)
  BY AppendIsSeq
<1>2. /\ DOMAIN Prefix(t, n) = 1..n /\ \A i \in 1..n : Prefix(t, n)[i] = t[i]
      /\ DOMAIN Prefix(t, n + 1) = 1..(n + 1) /\ \A i \in 1..(n + 1) : Prefix(t, n + 1)[i] = t[i]
  BY <1>1, PrefixIs
<1>3. Same(Prefix(t, n + 1), Prefix(t, n), n) /\ Prefix(t, n + 1)[n + 1] = t[n + 1]
  <2>1. \A i \in 1..n : i \in 1..(n + 1)
    OBVIOUS
  <2>2. n + 1 \in 1..(n + 1)
    OBVIOUS
  <2> QED
    BY <1>2, <2>1, <2>2 DEF Same
<1> QED
  BY <1>2, <1>3, AccountGrows

\* The account of n lines says so, and carries the time of one of them, or none.
LEMMA PrefixFields ==
  ASSUME NEW codex \in BOOLEAN, NEW t, IsSeq(t), NEW n \in 0..Len(t)
  PROVE  /\ Full(AccountOf(codex, Prefix(t, n))) /\ AccountOf(codex, Prefix(t, n)).lines = n
         /\ \/ AccountOf(codex, Prefix(t, n)).dated = 0
            \/ \E i \in 1..n : AccountOf(codex, Prefix(t, n)).dated = t[i].at
<1> DEFINE A(k) == AccountOf(codex, Prefix(t, k))
           P(k) == /\ Full(A(k)) /\ A(k).lines = k
                   /\ A(k).dated = 0 \/ \E i \in 1..k : A(k).dated = t[i].at
           S == {k \in Nat : k <= Len(t) => P(k)}
<1>1. Len(t) \in Nat
  BY AppendIsSeq
<1>2. 0 \in S
  <2>1. 0 \in 0..Len(t) /\ 1..0 = {}
    BY <1>1
  <2>2. A(0) = NoAccount
    BY <2>1, PrefixIs, AccountOfNothing
  <2> QED
    BY <2>2, NoAccountIsFull
<1>3. ASSUME NEW k \in S
      PROVE  k + 1 \in S
  <2> SUFFICES ASSUME k + 1 <= Len(t) PROVE P(k + 1)
    OBVIOUS
  <2>1. k \in Nat /\ k < Len(t) /\ k <= Len(t)
    BY <1>1
  <2>2. P(k)
    BY <2>1
  <2>3. A(k + 1) = ReadLine(codex, A(k), t[k + 1])
    BY <2>1, PrefixGrows
  <2>4. Full(A(k + 1)) /\ A(k + 1).lines = k + 1 /\ A(k + 1).dated \in {A(k).dated, t[k + 1].at}
    BY <2>2, <2>3, LineFields
  <2>5. k + 1 \in 1..(k + 1) /\ \A i \in 1..k : i \in 1..(k + 1)
    BY <2>1
  <2> HIDE DEF A
  <2> QED
    BY <2>2, <2>4, <2>5
<1> HIDE DEF P
<1>4. S = Nat
  <2> HIDE DEF S
  <2>1. S \in SUBSET Nat
    BY DEF S
  <2> QED
    BY <1>2, <1>3, <2>1, Induction
<1>5. n \in S /\ n <= Len(t)
  BY <1>1, <1>4
<1> QED
  BY <1>5 DEF P

----------------------------------------------------------------------------
(* An entry of an index was said of its file when it had the entry's mtime, *)
(* or has been read since.                                                  *)

LenIn(q, time)      == Cardinality({i \in DOMAIN q : q[i].at <= time})
ParseOf(f, time, q) == Parse(f \in Codex, f \in Subagents, time, q)

EntryIn(m, t, f, e) ==
  /\ e.mtime \in 1..m[f]
  /\ \E n \in LenIn(t[f], e.mtime)..Len(t[f]) : e.record = ParseOf(f, e.mtime, Prefix(t[f], n))

LEMMA ParseIs ==
  ASSUME NEW f, NEW time, NEW q
  PROVE  ParseOf(f, time, q) = RecordIn(f, time, AccountOf(f \in Codex, q))
BY DEF ParseOf, Parse, RecordIn, AccountOf

LEMMA LenInIs ==
  ASSUME NEW q, IsSeq(q), NEW time
  PROVE  /\ LenIn(q, time) \in Nat /\ LenIn(q, time) <= Len(q)
         /\ (\A i \in DOMAIN q : q[i].at <= time) => LenIn(q, time) = Len(q)
<1> DEFINE I == {i \in DOMAIN q : q[i].at <= time}
<1>1. Len(q) \in Nat /\ DOMAIN q = 1..Len(q)
  BY AppendIsSeq
<1>2. IsFiniteSet(1..Len(q)) /\ Cardinality(1..Len(q)) = Len(q)
  <2>1. 1 \in Int /\ Len(q) \in Int
    BY <1>1
  <2>2. Cardinality(1..Len(q)) = IF 1 > Len(q) THEN 0 ELSE Len(q) - 1 + 1
    BY <2>1, FS_Interval
  <2> QED
    BY <1>1, <2>1, <2>2, FS_Interval
<1>3. I \in SUBSET (1..Len(q)) /\ LenIn(q, time) = Cardinality(I)
  BY <1>1 DEF LenIn
<1>4. IsFiniteSet(I) /\ Cardinality(I) <= Len(q)
  BY <1>2, <1>3, FS_Subset
<1>5. Cardinality(I) \in Nat
  BY <1>4, FS_CardinalityType
<1>6. (\A i \in DOMAIN q : q[i].at <= time) => I = 1..Len(q)
  BY <1>1
<1> HIDE DEF I
<1> QED
  BY <1>2, <1>3, <1>4, <1>5, <1>6

\* What was said of a file stays said of it.
LEMMA EntryGrows ==
  ASSUME NEW c, NEW m, NEW t, NEW l, FilesIn(c, m, t, l),
         NEW d, NEW m2, NEW t2, NEW l2, FilesIn(d, m2, t2, l2), Grown(m, t, l, m2, t2, l2),
         NEW f \in Files, NEW e, EntryIn(m, t, f, e)
  PROVE  EntryIn(m2, t2, f, e)
<1>1. /\ m[f] \in Nat /\ m2[f] \in Nat /\ m2[f] >= m[f] /\ IsSeq(t[f]) /\ IsSeq(t2[f])
      /\ \A i \in DOMAIN t[f] : t[f][i].at \in 1..m[f]
      /\ \A i \in DOMAIN t2[f] : t2[f][i].at \in 1..m2[f]
  BY DEF FilesIn, Grown
<1>2. /\ Len(t[f]) \in Nat /\ DOMAIN t[f] = 1..Len(t[f])
      /\ Len(t2[f]) \in Nat /\ DOMAIN t2[f] = 1..Len(t2[f])
  BY <1>1, AppendIsSeq
<1>3. /\ Len(t2[f]) >= Len(t[f]) /\ \A i \in 1..Len(t[f]) : t2[f][i] = t[f][i]
      /\ \A i \in DOMAIN t2[f] : i > Len(t[f]) => t2[f][i].at > m[f]
  BY DEF Grown
<1>4. e.mtime \in 1..m[f] /\ e.mtime \in 1..m2[f]
  BY <1>1 DEF EntryIn
<1>5. LenIn(t2[f], e.mtime) = LenIn(t[f], e.mtime)
  <2>1. ASSUME NEW i \in DOMAIN t2[f], t2[f][i].at <= e.mtime
        PROVE  i \in DOMAIN t[f] /\ t[f][i].at <= e.mtime
    <3>1. t2[f][i].at \in Nat /\ t2[f][i].at <= m[f]
      <4>1. t2[f][i].at \in 1..m2[f]
        BY <1>1
      <4> QED
        BY <1>1, <1>4, <2>1, <4>1
    <3>2. ~(i > Len(t[f]))
      BY <1>1, <1>3, <3>1
    <3>3. i \in 1..Len(t[f])
      BY <1>2, <3>2
    <3> QED
      BY <1>2, <1>3, <2>1, <3>3
  <2>2. ASSUME NEW i \in DOMAIN t[f], t[f][i].at <= e.mtime
        PROVE  i \in DOMAIN t2[f] /\ t2[f][i].at <= e.mtime
    <3>1. i \in 1..Len(t2[f])
      BY <1>2, <1>3
    <3> QED
      BY <1>2, <1>3, <2>2, <3>1
  <2>3. {i \in DOMAIN t2[f] : t2[f][i].at <= e.mtime} = {i \in DOMAIN t[f] : t[f][i].at <= e.mtime}
    BY <2>1, <2>2
  <2> QED
    BY <2>3 DEF LenIn
<1>6. PICK n \in LenIn(t[f], e.mtime)..Len(t[f]) : e.record = ParseOf(f, e.mtime, Prefix(t[f], n))
  BY DEF EntryIn
<1>7. LenIn(t[f], e.mtime) \in Nat /\ n \in 0..Len(t[f]) /\ n \in 0..Len(t2[f])
  <2>1. LenIn(t[f], e.mtime) \in Nat
    BY <1>1, LenInIs
  <2> QED
    BY <1>2, <1>3, <2>1
<1>8. Prefix(t2[f], n) = Prefix(t[f], n)
  <2>1. \A i \in 1..n : i \in 1..Len(t[f]) /\ t2[f][i] = t[f][i]
    BY <1>2, <1>3, <1>7
  <2> QED
    <3>1. /\ IsSeq(Prefix(t[f], n)) /\ Len(Prefix(t[f], n)) = n
          /\ \A i \in 1..n : Prefix(t[f], n)[i] = t[f][i]
      BY <1>1, <1>7, PrefixIs
    <3>2. /\ IsSeq(Prefix(t2[f], n)) /\ Len(Prefix(t2[f], n)) = n
          /\ \A i \in 1..n : Prefix(t2[f], n)[i] = t2[f][i]
      BY <1>1, <1>7, PrefixIs
    <3> QED
      BY <2>1, <3>1, <3>2, SameSeq
<1>9. n \in LenIn(t2[f], e.mtime)..Len(t2[f])
  BY <1>2, <1>3, <1>5, <1>7
<1> QED
  BY <1>4, <1>6, <1>8, <1>9 DEF EntryIn

\* One that has the mtime of its file is its present record.
LEMMA EntryIsPresent ==
  ASSUME NEW c, NEW m, NEW t, NEW l, FilesIn(c, m, t, l),
         NEW f \in Files, NEW e, EntryIn(m, t, f, e), e.mtime = m[f]
  PROVE  e.record = ParseOf(f, m[f], t[f])
<1>1. IsSeq(t[f]) /\ m[f] \in Nat /\ \A i \in DOMAIN t[f] : t[f][i].at \in 1..m[f]
  BY DEF FilesIn
<1>2. Len(t[f]) \in Nat /\ LenIn(t[f], m[f]) = Len(t[f])
  BY <1>1, LenInIs, AppendIsSeq
<1>3. PICK n \in LenIn(t[f], m[f])..Len(t[f]) : e.record = ParseOf(f, m[f], Prefix(t[f], n))
  BY DEF EntryIn
<1>4. n = Len(t[f])
  BY <1>2, <1>3
<1>5. Prefix(t[f], Len(t[f])) = t[f]
  <2>1. PICK S : t[f] \in Seq(S)
    BY <1>1 DEF IsSeq
  <2> QED
    BY <2>1 DEF Prefix
<1> QED
  BY <1>3, <1>4, <1>5

\* It carries the time of a line of its file, or else its mtime.
LEMMA EntryUpdated ==
  ASSUME NEW c, NEW m, NEW t, NEW l, FilesIn(c, m, t, l),
         NEW f \in Files, NEW e, EntryIn(m, t, f, e)
  PROVE  /\ e.record.updated \in 1..m[f]
         /\ e.record.updated = e.mtime \/ \E i \in DOMAIN t[f] : e.record.updated = t[f][i].at
<1>1. IsSeq(t[f]) /\ m[f] \in Nat /\ \A i \in DOMAIN t[f] : t[f][i].at \in 1..m[f]
  BY DEF FilesIn
<1>2. Len(t[f]) \in Nat /\ DOMAIN t[f] = 1..Len(t[f]) /\ LenIn(t[f], e.mtime) \in Nat
  BY <1>1, LenInIs, AppendIsSeq
<1>3. PICK n \in LenIn(t[f], e.mtime)..Len(t[f]) : e.record = ParseOf(f, e.mtime, Prefix(t[f], n))
  BY DEF EntryIn
<1>4. n \in 0..Len(t[f]) /\ 1..n \subseteq DOMAIN t[f]
  BY <1>2
<1>10. PICK codex \in BOOLEAN : codex <=> f \in Codex
  OBVIOUS
<1> DEFINE a == AccountOf(codex, Prefix(t[f], n))
<1>5. a.dated = 0 \/ \E i \in 1..n : a.dated = t[f][i].at
  BY <1>1, <1>4, PrefixFields
<1>6. e.record.updated = IF a.dated > 0 THEN a.dated ELSE e.mtime
  BY <1>3, <1>10, ParseIs DEF RecordIn, RecordOf
<1> HIDE DEF a
<1>7. e.mtime \in 1..m[f]
  BY DEF EntryIn
<1>8. CASE a.dated = 0
  BY <1>6, <1>7, <1>8
<1>9. CASE \E i \in 1..n : a.dated = t[f][i].at
  <2>1. PICK i \in 1..n : a.dated = t[f][i].at
    BY <1>9
  <2>2. i \in DOMAIN t[f] /\ a.dated \in 1..m[f]
    BY <1>1, <1>4, <2>1
  <2> QED
    BY <1>1, <1>6, <2>1, <2>2
<1> QED
  BY <1>5, <1>8, <1>9

----------------------------------------------------------------------------
(* Sorting.                                                                *)

LEMMA Least ==
  ASSUME NEW T, T \subseteq Nat, T # {}
  PROVE  \E n \in T : \A m \in T : n <= m
<1> DEFINE R == OpToRel(<, Nat)
<1>1. IsWellFoundedOn(R, Nat)
  BY NatLessThanWellFounded
<1>2. \A m, n \in Nat : m < n => <<m, n>> \in R
  BY DEF OpToRel
<1> HIDE DEF R
<1>3. PICK n \in T : \A m \in T : ~(<<m, n>> \in R)
  BY <1>1, WFMin
<1>4. ASSUME NEW m \in T
      PROVE  n <= m
  <2>1. m \in Nat /\ n \in Nat
    OBVIOUS
  <2>2. ~(m < n)
    BY <1>2, <1>3, <2>1
  <2> QED
    BY <2>1, <2>2
<1> QED
  BY <1>4

\* q lists S by falling keys.
Falls(q, S, K) ==
  /\ q \in [1..Cardinality(S) -> S]
  /\ \A i, j \in DOMAIN q : i < j => K[q[i]] > K[q[j]]

Distinct(U, K) == K \in [U -> Nat] /\ \A x, y \in U : K[x] = K[y] => x = y

LEMMA SortExists ==
  ASSUME NEW U, NEW K, Distinct(U, K), NEW S \in SUBSET U, IsFiniteSet(S)
  PROVE  \E q : Falls(q, S, K)
<1> DEFINE N == {n \in Nat : \A T \in SUBSET U : IsFiniteSet(T) /\ Cardinality(T) = n => \E q : Falls(q, T, K)}
<1>1. 0 \in N
  <2>1. ASSUME NEW T \in SUBSET U, IsFiniteSet(T), Cardinality(T) = 0
        PROVE  Falls([i \in {} |-> 0], T, K)
    <3>1. 1..0 = {}
      OBVIOUS
    <3> QED
      BY <2>1, <3>1 DEF Falls
  <2> QED
    BY <2>1
<1>2. ASSUME NEW n \in N
      PROVE  n + 1 \in N
  <2>1. ASSUME NEW T \in SUBSET U, IsFiniteSet(T), Cardinality(T) = n + 1
        PROVE  \E q : Falls(q, T, K)
    <3>1. T # {}
      BY <2>1, FS_EmptySet
    <3>2. PICK k \in {K[x] : x \in T} : \A m \in {K[x] : x \in T} : k <= m
      <4>1. {K[x] : x \in T} \subseteq Nat /\ {K[x] : x \in T} # {}
        BY <3>1 DEF Distinct
      <4> QED
        BY <4>1, Least
    <3>3. PICK x \in T : K[x] = k
      OBVIOUS
    <3>4. ASSUME NEW y \in T \ {x}
          PROVE  K[y] > K[x]
      <4>1. K[y] \in Nat /\ K[x] \in Nat /\ K[y] # K[x]
        BY DEF Distinct
      <4>2. K[x] <= K[y]
        BY <3>2, <3>3
      <4> QED
        BY <4>1, <4>2
    <3>5. IsFiniteSet(T \ {x}) /\ Cardinality(T \ {x}) = n
      <4>1. IsFiniteSet(T \ {x}) /\ Cardinality(T \ {x}) = Cardinality(T) - 1
        BY <2>1, FS_RemoveElement
      <4>2. n \in Nat
        OBVIOUS
      <4> HIDE DEF N
      <4> QED
        BY <2>1, <4>1, <4>2
    <3>6. PICK p : Falls(p, T \ {x}, K)
      BY <3>5
    <3> DEFINE q == [i \in 1..(n + 1) |-> IF i = n + 1 THEN x ELSE p[i]]
    <3>7. p \in [1..n -> T \ {x}] /\ \A i, j \in 1..n : i < j => K[p[i]] > K[p[j]]
      BY <3>5, <3>6 DEF Falls
    <3>8. \A i \in 1..(n + 1) : i = n + 1 \/ i \in 1..n
      OBVIOUS
    <3>9. q \in [1..(n + 1) -> T]
      BY <3>7, <3>8
    <3>10. ASSUME NEW i \in 1..(n + 1), NEW j \in 1..(n + 1), i < j
           PROVE  K[q[i]] > K[q[j]]
      <4>1. i \in 1..n /\ q[i] = p[i]
        BY <3>10
      <4>2. CASE j = n + 1
        BY <3>4, <3>7, <4>1, <4>2
      <4>3. CASE j \in 1..n
        <5>1. q[j] = p[j]
          BY <4>3
        <5> QED
          BY <3>7, <3>10, <4>1, <4>3, <5>1
      <4> QED
        BY <3>8, <4>2, <4>3
    <3> HIDE DEF q
    <3>11. Falls(q, T, K)
      BY <2>1, <3>9, <3>10 DEF Falls
    <3> QED
      BY <3>11
  <2> QED
    BY <2>1
<1> HIDE DEF N
<1>3. N = Nat
  <2>1. N \in SUBSET Nat
    BY DEF N
  <2> QED
    BY <1>1, <1>2, <2>1, Induction
<1>4. Cardinality(S) \in N
  BY <1>3, FS_CardinalityType
<1> QED
  BY <1>4 DEF N

LEMMA SortIsAll ==
  ASSUME NEW U, NEW K, Distinct(U, K), NEW S \in SUBSET U, IsFiniteSet(S), NEW q, Falls(q, S, K)
  PROVE  Cardinality(S) \in Nat /\ q \in Seq(S) /\ Len(q) = Cardinality(S) /\ Range(q) = S
<1> DEFINE n == Cardinality(S)
<1>1. n \in Nat /\ q \in [1..n -> S]
  BY FS_CardinalityType DEF Falls
<1>2. \A i, j \in 1..n : i # j => q[i] # q[j]
  <2>1. ASSUME NEW i \in 1..n, NEW j \in 1..n, i < j
        PROVE  q[i] # q[j]
    <3>1. K[q[i]] > K[q[j]] /\ K[q[i]] \in Nat
      BY <1>1, <2>1 DEF Falls, Distinct
    <3> QED
      BY <3>1
  <2>2. \A i, j \in 1..n : i # j => i < j \/ j < i
    OBVIOUS
  <2> QED
    BY <2>1, <2>2
<1>3. IsFiniteSet(1..n) /\ Cardinality(1..n) = n
  <2>1. 1 \in Int /\ n \in Int
    BY <1>1
  <2>2. Cardinality(1..n) = IF 1 > n THEN 0 ELSE n - 1 + 1
    BY <2>1, FS_Interval
  <2> HIDE DEF n
  <2> QED
    BY <1>1, <2>1, <2>2, FS_Interval
<1>4. ASSUME NEW y \in S, y \notin Range(q)
      PROVE  FALSE
  <2>1. IsFiniteSet(S \ {y}) /\ Cardinality(S \ {y}) = n - 1
    BY FS_RemoveElement
  <2>2. q \in [1..n -> S \ {y}]
    BY <1>1, <1>4 DEF Range
  <2> HIDE DEF n
  <2>3. Cardinality(S \ {y}) < Cardinality(1..n)
    BY <1>1, <1>3, <2>1
  <2> DEFINE B == 1..n
             A == S \ {y}
  <2>5. IsFiniteSet(B) /\ IsFiniteSet(A) /\ Cardinality(A) < Cardinality(B) /\ q \in [B -> A]
    BY <1>3, <2>1, <2>2, <2>3
  <2> HIDE DEF A, B
  <2>6. \E i, j \in B : i # j /\ q[i] = q[j]
    BY <2>5, FS_PigeonHole
  <2>4. \E i, j \in 1..n : i # j /\ q[i] = q[j]
    BY <2>6 DEF B
  <2> QED
    BY <1>2, <2>4
<1>5. Range(q) = S
  BY <1>1, <1>4 DEF Range
<1> HIDE DEF n
<1>6. q \in Seq(S) /\ Len(q) = n
  BY <1>1
<1> QED
  BY <1>1, <1>5, <1>6 DEF n

\* The records of an index, newest first: all of them, when no two are of the same time.
KeysOf(r) == [f \in DOMAIN r.next |-> r.next[f].record.updated]

LEMMA NewestIs ==
  ASSUME NEW r, Distinct(DOMAIN r.next, KeysOf(r)), NEW S \in SUBSET DOMAIN r.next, IsFiniteSet(S)
  PROVE  /\ Newest(r, S) \in Seq(S) /\ Range(Newest(r, S)) = S
         /\ \A i, j \in 1..Len(Newest(r, S)) :
              i < j => r.next[Newest(r, S)[i]].record.updated > r.next[Newest(r, S)[j]].record.updated
<1> DEFINE P(q) == q \in [1..Cardinality(S) -> S]
                   /\ \A i, j \in DOMAIN q :
                        i < j => r.next[q[i]].record.updated > r.next[q[j]].record.updated
<1>1. \A q : P(q) <=> Falls(q, S, KeysOf(r))
  <2>1. ASSUME NEW q, q \in [1..Cardinality(S) -> S]
        PROVE  \A i \in DOMAIN q : KeysOf(r)[q[i]] = r.next[q[i]].record.updated
    BY <2>1 DEF KeysOf
  <2> QED
    BY <2>1 DEF Falls
<1>2. \E q : P(q)
  BY <1>1, SortExists
<1>3. Newest(r, S) = CHOOSE q \in [1..Cardinality(S) -> S] :
                       \A i, j \in DOMAIN q :
                         i < j => r.next[q[i]].record.updated > r.next[q[j]].record.updated
  BY DEF Newest
<1>4. P(Newest(r, S))
  BY <1>2, <1>3
<1>5. /\ Newest(r, S) \in Seq(S) /\ Range(Newest(r, S)) = S
  BY <1>1, <1>4, SortIsAll
<1>6. DOMAIN Newest(r, S) = 1..Len(Newest(r, S))
  BY <1>5
<1> QED
  BY <1>4, <1>5, <1>6

----------------------------------------------------------------------------
(* A moment: the files, and who made the write of each tick of the clock.  *)
(* What the processes hold is stated of a moment, so that it can be        *)
(* carried from one to the next.                                           *)

Moment(w, c, m, t, l) == [own |-> w, clock |-> c, mtime |-> m, text |-> t, linked |-> l]

Sound(W) ==
  /\ FilesIn(W.clock, W.mtime, W.text, W.linked) /\ W.own \in [1..W.clock -> Files]
  /\ \A f \in Files : /\ W.mtime[f] > 0 => W.own[W.mtime[f]] = f
                      /\ \A i \in DOMAIN W.text[f] : W.own[W.text[f][i].at] = f

Later(W, V) ==
  /\ Sound(W) /\ Sound(V) /\ Grown(W.mtime, W.text, W.linked, V.mtime, V.text, V.linked)
  /\ W.clock <= V.clock /\ \A i \in 1..W.clock : V.own[i] = W.own[i]

\* An index, or the part of one that a process has made.
Table(W, x) ==
  /\ DOMAIN x \subseteq Files
  /\ \A f \in DOMAIN x : EntryIn(W.mtime, W.text, f, x[f]) /\ W.own[x[f].mtime] = f

LEMMA NothingIsTable ==
  ASSUME NEW W
  PROVE  Table(W, Empty)
BY DEF Table, Empty

LEMMA LaterFiles ==
  ASSUME NEW W, NEW V, Later(W, V), NEW f \in Files
  PROVE  /\ W.mtime[f] \in Nat /\ V.mtime[f] \in Nat /\ W.mtime[f] <= V.mtime[f]
         /\ W.mtime[f] <= W.clock /\ W.clock \in Nat
         /\ f \in V.linked /\ W.mtime[f] > 0 => f \in W.linked
         /\ V.mtime[f] = W.mtime[f] => V.text[f] = W.text[f]
BY DEF Later, Sound, FilesIn, Grown

LEMMA TableStays ==
  ASSUME NEW W, NEW V, Later(W, V), NEW x, Table(W, x)
  PROVE  Table(V, x)
<1> SUFFICES ASSUME NEW f \in DOMAIN x
             PROVE  f \in Files /\ EntryIn(V.mtime, V.text, f, x[f]) /\ V.own[x[f].mtime] = f
  BY DEF Table
<1>1. f \in Files /\ EntryIn(W.mtime, W.text, f, x[f]) /\ W.own[x[f].mtime] = f
  BY DEF Table
<1>2. EntryIn(V.mtime, V.text, f, x[f])
  BY <1>1, EntryGrows DEF Later, Sound
<1>3. x[f].mtime \in 1..W.clock
  <2>1. x[f].mtime \in 1..W.mtime[f]
    BY <1>1 DEF EntryIn
  <2> QED
    BY <1>1, <2>1, LaterFiles
<1> QED
  BY <1>1, <1>2, <1>3 DEF Later

\* No two records of an index are of the same time: that of each was written to its file.
LEMMA TimesDiffer ==
  ASSUME NEW W, Sound(W), NEW r, Table(W, r.next)
  PROVE  Distinct(DOMAIN r.next, KeysOf(r))
<1>1. ASSUME NEW f \in DOMAIN r.next
      PROVE  KeysOf(r)[f] \in Nat /\ W.own[KeysOf(r)[f]] = f
  <2> DEFINE e == r.next[f]
  <2>1. f \in Files /\ EntryIn(W.mtime, W.text, f, e) /\ W.own[e.mtime] = f
    BY DEF Table
  <2>2. /\ e.record.updated \in 1..W.mtime[f]
        /\ e.record.updated = e.mtime \/ \E i \in DOMAIN W.text[f] : e.record.updated = W.text[f][i].at
    BY <2>1, EntryUpdated DEF Sound
  <2>3. W.own[e.record.updated] = f
    BY <2>1, <2>2 DEF Sound
  <2>4. KeysOf(r)[f] = e.record.updated
    BY DEF KeysOf
  <2>5. W.mtime[f] \in Nat
    BY <2>1 DEF Sound, FilesIn
  <2> QED
    BY <2>2, <2>3, <2>4, <2>5
<1>2. KeysOf(r) \in [DOMAIN r.next -> Nat]
  <2>1. DOMAIN KeysOf(r) = DOMAIN r.next /\ KeysOf(r) = [f \in DOMAIN r.next |-> KeysOf(r)[f]]
    BY DEF KeysOf
  <2> QED
    BY <1>1, <2>1
<1> QED
  BY <1>1, <1>2 DEF Distinct

----------------------------------------------------------------------------
(* What a process holds.                                                   *)

Fields(r) == DOMAIN r = DOMAIN Idle

\* It was found at some time, with the mtime of that time.
Looked(W, r) ==
  /\ r.todo \subseteq DOMAIN r.refs /\ DOMAIN r.refs \subseteq Files
  /\ \A f \in DOMAIN r.refs : r.refs[f] \in 1..W.mtime[f] /\ W.own[r.refs[f]] = f

\* It is read from its first line.
Reading(W, r) ==
  IF r.at = "reading"
  THEN /\ r.file \in DOMAIN r.refs
       /\ \E n \in 0..Len(W.text[r.file]) :
            r.account = AccountOf(r.file \in Codex, Prefix(W.text[r.file], n))
  ELSE r.account = NoAccount

Answering == {"answering", "searching", "asking", "done"}
Told(r)   == r.at \in Answering /\ r.job.what # "paint"

\* What there was when the command began is in what it answers from, at least as late.
Covers(W, r) ==
  /\ DOMAIN r.began \subseteq Files
  /\ \A f \in DOMAIN r.began : r.began[f] \in 1..W.mtime[f]
  /\ r.at \in {"loading", "finding"} => r.next = Empty
  /\ r.at \in {"looking", "reading"} =>
       /\ DOMAIN r.next \subseteq DOMAIN r.refs
       /\ \A f \in DOMAIN r.next : r.next[f].mtime = r.refs[f]
       /\ \A f \in DOMAIN r.began : /\ f \in W.linked => f \in DOMAIN r.refs
                                    /\ f \in DOMAIN r.refs => r.began[f] <= r.refs[f]
       /\ \A f \in DOMAIN r.refs \cap W.linked :
            f \in r.todo \/ f \in DOMAIN r.next \/ (r.at = "reading" /\ r.file = f)
  /\ Told(r) =>
       \A f \in DOMAIN r.began : /\ f \in W.linked => f \in DOMAIN r.next
                                 /\ f \in DOMAIN r.next => r.began[f] <= r.next[f].mtime

PresentIn(W, f)  == ParseOf(f, W.mtime[f], W.text[f])
MentionsIn(W, f) == \E i \in DOMAIN W.text[f] : W.text[f][i].line \in Matching
RestedIn(W, r)   == {f \in DOMAIN r.began : f \in W.linked /\ r.began[f] = W.mtime[f]}

\* Of those that did not change since: where it is found, and still to be sought.
Searches(W, r) ==
  r.at = "searching" =>
    /\ r.job.what = "grep" /\ IsSeq(r.batches)
    /\ \A i \in DOMAIN r.batches : Range(r.batches[i]) \subseteq Admitted(r)
    /\ r.hits \subseteq Admitted(r) /\ \A f \in r.hits : MentionsIn(W, f)
    /\ \A f \in RestedIn(W, r) :
         Admits(r.job, PresentIn(W, f)) /\ MentionsIn(W, f) =>
           f \in r.hits \/ \E i \in DOMAIN r.batches : f \in Range(r.batches[i])

CrowdedIn(W, r, f) ==
  /\ r.job.limit > 0 /\ Len(r.answer) = r.job.limit
  /\ \A g \in Shown(r) : r.next[g].record.updated > PresentIn(W, f).updated

AnswersIn(W, r) ==
  /\ \A f \in Shown(r) : /\ f \in DOMAIN r.next /\ Admits(r.job, r.next[f].record)
                         /\ r.job.what = "grep" => MentionsIn(W, f)
  /\ \A i, j \in DOMAIN r.answer :
       i < j => r.next[r.answer[i]].record.updated > r.next[r.answer[j]].record.updated
  /\ r.job.what \in {"ls", "grep", "ask"} =>
       \A f \in RestedIn(W, r) :
         Admits(r.job, PresentIn(W, f)) /\ (r.job.what = "grep" => MentionsIn(W, f)) =>
           f \in Shown(r) \/ CrowdedIn(W, r, f)

ResumesIn(W, r) ==
  /\ \A f \in Shown(r) :
       /\ IsPrefix(r.job.needle, IdOf[f])
       /\ \/ IdOf[f] = r.job.needle
          \/ \A g \in RestedIn(W, r) : IsPrefix(r.job.needle, IdOf[g]) => g = f
  /\ \A f \in RestedIn(W, r) : IdOf[f] = r.job.needle => r.answer = <<f>>

AsksIn(r) == Asks(r) /\ IsSeq(r.asked) /\ IsSeq(r.turns)

Answered(W, r) ==
  r.at \in {"asking", "done"} /\ r.job.what # "paint" =>
    /\ AnswersIn(W, r)
    /\ r.job.what = "resume" => ResumesIn(W, r)
    /\ r.job.what = "ask" => AsksIn(r)

\* Questions and hits come with the part of a command that makes them.
Quiet(r) ==
  /\ r.at \notin {"asking", "done", "failed"} => r.asked = <<>> /\ r.turns = <<>>
  /\ r.at \notin {"searching", "asking", "done", "failed"} => r.hits = {}

Asked(r) == (r.at # "idle" => r.job \in Jobs) /\ (r.at = "asking" => r.job.what = "ask") /\ Quiet(r)

Reader(W, r) ==
  /\ Fields(r) /\ Table(W, r.cache) /\ Table(W, r.next) /\ Looked(W, r) /\ Reading(W, r)
  /\ Covers(W, r) /\ Searches(W, r) /\ Answered(W, r) /\ Asked(r)

\* A file that did not change since a command began did not change since it was there.
LEMMA RestedStays ==
  ASSUME NEW W, NEW V, Later(W, V), NEW r, Covers(W, r), NEW f \in RestedIn(V, r)
  PROVE  /\ f \in RestedIn(W, r) /\ f \in Files
         /\ V.mtime[f] = W.mtime[f] /\ V.text[f] = W.text[f]
         /\ PresentIn(V, f) = PresentIn(W, f) /\ (MentionsIn(V, f) <=> MentionsIn(W, f))
<1>1. f \in DOMAIN r.began /\ f \in V.linked /\ r.began[f] = V.mtime[f]
  BY DEF RestedIn
<1>2. f \in Files /\ r.began[f] \in 1..W.mtime[f]
  BY <1>1 DEF Covers
<1>3. V.mtime[f] = W.mtime[f] /\ W.mtime[f] > 0
  BY <1>1, <1>2, LaterFiles
<1>4. V.text[f] = W.text[f] /\ f \in W.linked
  BY <1>1, <1>2, <1>3, LaterFiles
<1> QED
  BY <1>1, <1>2, <1>3, <1>4 DEF RestedIn, PresentIn, MentionsIn

LEMMA MentionsStay ==
  ASSUME NEW W, NEW V, Later(W, V), NEW f \in Files, MentionsIn(W, f)
  PROVE  MentionsIn(V, f)
<1>1. /\ IsSeq(W.text[f]) /\ IsSeq(V.text[f]) /\ Len(V.text[f]) >= Len(W.text[f])
      /\ \A i \in 1..Len(W.text[f]) : V.text[f][i] = W.text[f][i]
  BY DEF Later, Sound, FilesIn, Grown
<1>2. /\ DOMAIN W.text[f] = 1..Len(W.text[f]) /\ DOMAIN V.text[f] = 1..Len(V.text[f])
      /\ Len(W.text[f]) \in Nat /\ Len(V.text[f]) \in Nat
  BY <1>1, AppendIsSeq
<1>3. PICK i \in 1..Len(W.text[f]) : W.text[f][i].line \in Matching
  BY <1>2 DEF MentionsIn
<1>4. i \in DOMAIN V.text[f]
  BY <1>1, <1>2
<1> QED
  BY <1>1, <1>3, <1>4 DEF MentionsIn

LEMMA LookedStays ==
  ASSUME NEW W, NEW V, Later(W, V), NEW r, Looked(W, r)
  PROVE  Looked(V, r)
<1> SUFFICES ASSUME NEW f \in DOMAIN r.refs
             PROVE  r.refs[f] \in 1..V.mtime[f] /\ V.own[r.refs[f]] = f
  BY DEF Looked
<1>1. f \in Files /\ r.refs[f] \in 1..W.mtime[f] /\ W.own[r.refs[f]] = f
  BY DEF Looked
<1>2. r.refs[f] \in 1..W.clock /\ r.refs[f] \in 1..V.mtime[f]
  BY <1>1, LaterFiles
<1> QED
  BY <1>1, <1>2 DEF Later

LEMMA ReadingStays ==
  ASSUME NEW W, NEW V, Later(W, V), NEW r, Looked(W, r), Reading(W, r)
  PROVE  Reading(V, r)
<1>1. CASE r.at = "reading"
  <2> DEFINE f == r.file
  <2>1. PICK n \in 0..Len(W.text[f]) : r.account = AccountOf(f \in Codex, Prefix(W.text[f], n))
    BY <1>1 DEF Reading
  <2>2. f \in DOMAIN r.refs /\ f \in Files
    BY <1>1 DEF Reading, Looked
  <2> HIDE DEF f
  <2>3. /\ IsSeq(W.text[f]) /\ IsSeq(V.text[f]) /\ Len(V.text[f]) >= Len(W.text[f])
        /\ \A i \in 1..Len(W.text[f]) : V.text[f][i] = W.text[f][i]
    BY <2>2 DEF Later, Sound, FilesIn, Grown
  <2>4. Len(W.text[f]) \in Nat /\ Len(V.text[f]) \in Nat
    BY <2>3, AppendIsSeq
  <2>5. n \in 0..Len(V.text[f]) /\ \A i \in 1..n : i \in 1..Len(W.text[f])
    BY <2>3, <2>4
  <2>6. Prefix(V.text[f], n) = Prefix(W.text[f], n)
    <3>1. /\ IsSeq(Prefix(W.text[f], n)) /\ Len(Prefix(W.text[f], n)) = n
          /\ \A i \in 1..n : Prefix(W.text[f], n)[i] = W.text[f][i]
      BY <2>3, PrefixIs
    <3>2. /\ IsSeq(Prefix(V.text[f], n)) /\ Len(Prefix(V.text[f], n)) = n
          /\ \A i \in 1..n : Prefix(V.text[f], n)[i] = V.text[f][i]
      BY <2>3, <2>5, PrefixIs
    <3> QED
      BY <2>3, <2>5, <3>1, <3>2, SameSeq
  <2> QED
    BY <1>1, <2>1, <2>2, <2>5, <2>6 DEF Reading, f
<1> QED
  BY <1>1 DEF Reading

LEMMA CoversStays ==
  ASSUME NEW W, NEW V, Later(W, V), NEW r, Looked(W, r), Covers(W, r)
  PROVE  Covers(V, r)
<1>1. ASSUME NEW f \in DOMAIN r.began
      PROVE  r.began[f] \in 1..V.mtime[f] /\ (f \in V.linked => f \in W.linked)
  <2>1. f \in Files /\ r.began[f] \in 1..W.mtime[f]
    BY DEF Covers
  <2> QED
    BY <2>1, LaterFiles
<1>2. ASSUME NEW f \in DOMAIN r.refs, f \in V.linked
      PROVE  f \in W.linked
  <2>1. f \in Files /\ r.refs[f] \in 1..W.mtime[f]
    BY DEF Looked
  <2> QED
    BY <1>2, <2>1, LaterFiles
<1> QED
  BY <1>1, <1>2 DEF Covers

LEMMA SearchesStays ==
  ASSUME NEW W, NEW V, Later(W, V), NEW r, Table(W, r.next), Covers(W, r), Searches(W, r)
  PROVE  Searches(V, r)
<1> SUFFICES ASSUME r.at = "searching" PROVE Searches(V, r)
  BY DEF Searches
<1>1. /\ r.job.what = "grep" /\ IsSeq(r.batches)
      /\ \A i \in DOMAIN r.batches : Range(r.batches[i]) \subseteq Admitted(r)
      /\ r.hits \subseteq Admitted(r) /\ \A f \in r.hits : MentionsIn(W, f)
      /\ \A f \in RestedIn(W, r) :
           Admits(r.job, PresentIn(W, f)) /\ MentionsIn(W, f) =>
             f \in r.hits \/ \E i \in DOMAIN r.batches : f \in Range(r.batches[i])
  BY DEF Searches
<1>2. ASSUME NEW f \in r.hits
      PROVE  MentionsIn(V, f)
  <2>1. f \in Files
    BY <1>1 DEF Admitted, Table
  <2> QED
    BY <1>1, <2>1, MentionsStay
<1>3. ASSUME NEW f \in RestedIn(V, r), Admits(r.job, PresentIn(V, f)), MentionsIn(V, f)
      PROVE  f \in r.hits \/ \E i \in DOMAIN r.batches : f \in Range(r.batches[i])
  <2>1. f \in RestedIn(W, r) /\ Admits(r.job, PresentIn(W, f)) /\ MentionsIn(W, f)
    BY <1>3, RestedStays
  <2> QED
    BY <1>1, <2>1
<1> QED
  BY <1>1, <1>2, <1>3 DEF Searches

LEMMA AnswersStay ==
  ASSUME NEW W, NEW V, Later(W, V), NEW r, Table(W, r.next), Covers(W, r), AnswersIn(W, r)
  PROVE  AnswersIn(V, r)
<1>1. ASSUME NEW f \in Shown(r)
      PROVE  /\ f \in DOMAIN r.next /\ Admits(r.job, r.next[f].record)
             /\ r.job.what = "grep" => MentionsIn(V, f)
  <2>1. /\ f \in DOMAIN r.next /\ Admits(r.job, r.next[f].record)
        /\ r.job.what = "grep" => MentionsIn(W, f)
    BY DEF AnswersIn
  <2>2. f \in Files
    BY <2>1 DEF Table
  <2> QED
    BY <2>1, <2>2, MentionsStay
<1>2. ASSUME r.job.what \in {"ls", "grep", "ask"}, NEW f \in RestedIn(V, r),
             Admits(r.job, PresentIn(V, f)), r.job.what = "grep" => MentionsIn(V, f)
      PROVE  f \in Shown(r) \/ CrowdedIn(V, r, f)
  <2>1. f \in RestedIn(W, r) /\ PresentIn(V, f) = PresentIn(W, f) /\ (MentionsIn(V, f) <=> MentionsIn(W, f))
    BY RestedStays
  <2>2. f \in Shown(r) \/ CrowdedIn(W, r, f)
    BY <1>2, <2>1 DEF AnswersIn
  <2> QED
    BY <2>1, <2>2 DEF CrowdedIn
<1>3. \A i, j \in DOMAIN r.answer :
        i < j => r.next[r.answer[i]].record.updated > r.next[r.answer[j]].record.updated
  BY DEF AnswersIn
<1> QED
  BY <1>1, <1>2, <1>3 DEF AnswersIn

LEMMA ResumesStay ==
  ASSUME NEW W, NEW V, Later(W, V), NEW r, Covers(W, r), ResumesIn(W, r)
  PROVE  ResumesIn(V, r)
<1>1. \A f \in RestedIn(V, r) : f \in RestedIn(W, r)
  BY RestedStays
<1> QED
  BY <1>1 DEF ResumesIn

\* What a process holds, it holds at any later moment.
LEMMA ReaderStays ==
  ASSUME NEW W, NEW V, Later(W, V), NEW r, Reader(W, r)
  PROVE  Reader(V, r)
<1>1. Answered(V, r)
  BY AnswersStay, ResumesStay DEF Reader, Answered
<1>2. Table(V, r.cache) /\ Table(V, r.next) /\ Looked(V, r) /\ Reading(V, r) /\ Covers(V, r) /\ Searches(V, r)
  BY TableStays, LookedStays, ReadingStays, CoversStays, SearchesStays DEF Reader
<1> QED
  BY <1>1, <1>2 DEF Reader

----------------------------------------------------------------------------
(* One step of a process, at one moment.                                   *)

LEMMA FieldsAre ==
  ASSUME NEW r
  PROVE  Fields(r) <=> DOMAIN r = {"at", "job", "cache", "refs", "todo", "next", "file", "account",
                                   "batches", "hits", "answer", "focus", "turns", "asked", "began"}
BY DEF Fields, Idle

LEMMA NothingIsSeq == IsSeq(<<>>)
<1>1. <<>> \in Seq(Nat)
  OBVIOUS
<1> QED
  BY <1>1 DEF IsSeq

\* A process that has not looked yet, when what it remembers of the beginning is so.
LEMMA FreshReads ==
  ASSUME NEW W, NEW r, Fields(r), r.at \in {"idle", "loading"}, r.at = "loading" => r.job \in Jobs,
         r.cache = Empty, r.refs = Empty, r.todo = {}, r.next = Empty, r.account = NoAccount,
         r.asked = <<>>, r.turns = <<>>, r.hits = {}, DOMAIN r.began \subseteq Files,
         \A f \in DOMAIN r.began : r.began[f] \in 1..W.mtime[f]
  PROVE  Reader(W, r)
<1>1. Table(W, r.cache) /\ Table(W, r.next)
  BY NothingIsTable
<1>2. Looked(W, r)
  BY DEF Looked, Empty
<1>3. Reading(W, r) /\ Searches(W, r) /\ Answered(W, r) /\ Asked(r)
  BY DEF Reading, Searches, Answered, Asked, Quiet
<1>4. Covers(W, r)
  BY DEF Covers, Told, Answering
<1> QED
  BY <1>1, <1>2, <1>3, <1>4 DEF Reader

LEMMA IdleReads ==
  ASSUME NEW W
  PROVE  Reader(W, Idle)
<1>1. /\ Fields(Idle) /\ Idle.at = "idle" /\ Idle.cache = Empty /\ Idle.refs = Empty /\ Idle.todo = {}
      /\ Idle.next = Empty /\ Idle.account = NoAccount /\ Idle.asked = <<>> /\ Idle.turns = <<>> /\ Idle.hits = {}
      /\ Idle.began = Empty
  BY DEF Fields, Idle
<1>2. DOMAIN Idle.began = {}
  BY <1>1 DEF Empty
<1> QED
  BY <1>1, <1>2, FreshReads

LEMMA StartReads ==
  ASSUME NEW W, Sound(W), NEW job \in Jobs, NEW began, began = [f \in W.linked |-> W.mtime[f]]
  PROVE  Reader(W, [Idle EXCEPT !.at = "loading", !.job = job, !.began = began])
<1> DEFINE r == [Idle EXCEPT !.at = "loading", !.job = job, !.began = began]
<1>1. /\ Fields(Idle) /\ Idle.cache = Empty /\ Idle.refs = Empty /\ Idle.todo = {}
      /\ Idle.next = Empty /\ Idle.account = NoAccount /\ Idle.asked = <<>> /\ Idle.turns = <<>> /\ Idle.hits = {}
  BY DEF Fields, Idle
<1>2. /\ Fields(r) /\ r.at = "loading" /\ r.job = job /\ r.began = began
      /\ r.cache = Idle.cache /\ r.refs = Idle.refs /\ r.todo = Idle.todo
      /\ r.next = Idle.next /\ r.account = Idle.account /\ r.asked = Idle.asked /\ r.turns = Idle.turns /\ r.hits = Idle.hits
  BY <1>1, FieldsAre
<1>3. DOMAIN began \subseteq Files /\ \A f \in DOMAIN began : began[f] \in 1..W.mtime[f]
  BY DEF Sound, FilesIn
<1> HIDE DEF r
<1>4. Reader(W, r)
  BY <1>1, <1>2, <1>3, FreshReads
<1> QED
  BY <1>4 DEF r

\* The index it loads is one.
LEMMA LoadReads ==
  ASSUME NEW W, NEW r, Reader(W, r), r.at = "loading", NEW x, Table(W, x)
  PROVE  /\ r.job.what = "paint" => Reader(W, [r EXCEPT !.at = "answering", !.next = x])
         /\ Reader(W, [r EXCEPT !.at = "finding", !.cache = x])
<1> DEFINE p == [r EXCEPT !.at = "answering", !.next = x]
           s == [r EXCEPT !.at = "finding", !.cache = x]
<1>0. /\ Fields(r) /\ Table(W, r.cache) /\ Table(W, r.next) /\ Looked(W, r) /\ Covers(W, r)
      /\ r.account = NoAccount /\ r.job \in Jobs /\ r.asked = <<>> /\ r.turns = <<>> /\ r.hits = {} /\ r.next = Empty
  BY DEF Reader, Reading, Asked, Quiet, Covers
<1>1. /\ Fields(p) /\ p.at = "answering" /\ p.next = x /\ p.job = r.job /\ p.cache = r.cache
      /\ p.refs = r.refs /\ p.todo = r.todo /\ p.account = r.account /\ p.began = r.began
      /\ p.asked = r.asked /\ p.turns = r.turns /\ p.hits = r.hits
  BY <1>0, FieldsAre
<1>2. /\ Fields(s) /\ s.at = "finding" /\ s.next = r.next /\ s.job = r.job /\ s.cache = x
      /\ s.refs = r.refs /\ s.todo = r.todo /\ s.account = r.account /\ s.began = r.began
      /\ s.asked = r.asked /\ s.turns = r.turns /\ s.hits = r.hits
  BY <1>0, FieldsAre
<1> HIDE DEF p, s
<1>3. ASSUME r.job.what = "paint"
      PROVE  Reader(W, p)
  <2>1. Looked(W, p) /\ Reading(W, p) /\ Searches(W, p) /\ Answered(W, p) /\ Asked(p)
    BY <1>0, <1>1 DEF Looked, Reading, Searches, Answered, Asked, Quiet
  <2>2. Covers(W, p)
    BY <1>0, <1>1, <1>3 DEF Covers, Told
  <2> QED
    BY <1>0, <1>1, <2>1, <2>2 DEF Reader
<1>4. Reader(W, s)
  <2>1. Looked(W, s) /\ Reading(W, s) /\ Searches(W, s) /\ Answered(W, s) /\ Asked(s)
    BY <1>0, <1>2 DEF Looked, Reading, Searches, Answered, Asked, Quiet
  <2>2. Covers(W, s)
    BY <1>0, <1>2 DEF Covers, Told, Answering
  <2> QED
    BY <1>0, <1>2, <2>1, <2>2 DEF Reader
<1> QED
  BY <1>3, <1>4 DEF p, s

\* What there was when it began and is still there is found, at least as late.
LEMMA FindReads ==
  ASSUME NEW W, Sound(W), NEW r, Reader(W, r), r.at = "finding",
         NEW refs, refs = [f \in W.linked |-> W.mtime[f]]
  PROVE  Reader(W, [r EXCEPT !.at = "looking", !.refs = refs, !.todo = W.linked])
<1> DEFINE s == [r EXCEPT !.at = "looking", !.refs = refs, !.todo = W.linked]
<1>0. /\ Fields(r) /\ Table(W, r.cache) /\ Covers(W, r)
      /\ r.account = NoAccount /\ r.job \in Jobs /\ r.asked = <<>> /\ r.turns = <<>> /\ r.hits = {} /\ r.next = Empty
  BY DEF Reader, Reading, Asked, Quiet, Covers
<1>1. /\ Fields(s) /\ s.at = "looking" /\ s.next = r.next /\ s.job = r.job /\ s.cache = r.cache
      /\ s.refs = refs /\ s.todo = W.linked /\ s.account = r.account /\ s.began = r.began
      /\ s.asked = r.asked /\ s.turns = r.turns /\ s.hits = r.hits
  BY <1>0, FieldsAre
<1> HIDE DEF s
<1>2. W.linked \subseteq Files /\ \A f \in W.linked : W.mtime[f] \in Nat /\ W.mtime[f] > 0 /\ W.own[W.mtime[f]] = f
  BY DEF Sound, FilesIn
<1>3. DOMAIN refs = W.linked /\ \A f \in W.linked : refs[f] = W.mtime[f]
  OBVIOUS
<1>4. Looked(W, s)
  BY <1>1, <1>2, <1>3 DEF Looked
<1>5. Reading(W, s) /\ Searches(W, s) /\ Answered(W, s) /\ Asked(s)
  BY <1>0, <1>1 DEF Reading, Searches, Answered, Asked, Quiet
<1>6. Covers(W, s)
  <2>1. \A f \in DOMAIN r.began : f \in Files /\ r.began[f] \in 1..W.mtime[f]
    BY <1>0 DEF Covers
  <2>2. \A f \in DOMAIN r.began : f \in W.linked => r.began[f] <= refs[f]
    BY <1>2, <1>3, <2>1
  <2>3. DOMAIN s.next = {}
    BY <1>0, <1>1 DEF Empty
  <2> QED
    BY <1>1, <1>3, <2>1, <2>2, <2>3 DEF Covers, Told, Answering
<1>7. Reader(W, s)
  BY <1>0, <1>1, <1>4, <1>5, <1>6, NothingIsTable DEF Reader
<1> QED
  BY <1>7 DEF s

LEMMA WithFields ==
  ASSUME NEW r, Fields(r), NEW f, NEW e
  PROVE  LET s == With(r, f, e)
         IN /\ Fields(s) /\ s.at = r.at /\ s.job = r.job /\ s.cache = r.cache
            /\ s.refs = r.refs /\ s.todo = r.todo /\ s.account = r.account /\ s.began = r.began
            /\ s.asked = r.asked /\ s.turns = r.turns /\ s.hits = r.hits /\ s.file = r.file
            /\ DOMAIN s.next = DOMAIN r.next \cup {f} /\ s.next[f] = e
            /\ \A g \in DOMAIN r.next : g # f => s.next[g] = r.next[g]
BY FieldsAre DEF With

LEMMA WithIsTable ==
  ASSUME NEW W, NEW r, Fields(r), Table(W, r.next), NEW f \in Files, NEW e,
         EntryIn(W.mtime, W.text, f, e), W.own[e.mtime] = f
  PROVE  Table(W, With(r, f, e).next)
<1> DEFINE x == With(r, f, e).next
<1>1. /\ DOMAIN x = DOMAIN r.next \cup {f} /\ x[f] = e
      /\ \A g \in DOMAIN r.next : g # f => x[g] = r.next[g]
  BY WithFields
<1> HIDE DEF x
<1>2. Table(W, x)
  BY <1>1 DEF Table
<1> QED
  BY <1>2 DEF x

\* A file that is found in the index as it is, or that is gone.
LEMMA LookReads ==
  ASSUME NEW W, Sound(W), NEW r, Reader(W, r), r.at = "looking", NEW f \in r.todo,
         NEW q, Fields(q), q.at = "looking", q.next = r.next, q.job = r.job, q.cache = r.cache,
         q.refs = r.refs, q.todo = r.todo \ {f}, q.account = r.account, q.began = r.began,
         q.asked = r.asked, q.turns = r.turns, q.hits = r.hits
  PROVE  /\ Hit(q, f) => Reader(W, With(q, f, q.cache[f]))
         /\ f \in W.linked => Reader(W, [q EXCEPT !.at = "reading", !.file = f])
         /\ f \notin W.linked => Reader(W, q)
<1>0. /\ Fields(r) /\ Table(W, r.cache) /\ Table(W, r.next) /\ Looked(W, r) /\ Covers(W, r)
      /\ r.account = NoAccount /\ r.job \in Jobs /\ r.asked = <<>> /\ r.turns = <<>> /\ r.hits = {}
  BY DEF Reader, Reading, Asked, Quiet
<1>1. /\ Fields(q) /\ q.at = "looking" /\ q.next = r.next /\ q.job = r.job /\ q.cache = r.cache
      /\ q.refs = r.refs /\ q.todo = r.todo \ {f} /\ q.account = r.account /\ q.began = r.began
      /\ q.asked = r.asked /\ q.turns = r.turns /\ q.hits = r.hits
  OBVIOUS
<1>2. f \in DOMAIN r.refs /\ f \in Files
  BY <1>0 DEF Looked
<1>3. /\ DOMAIN r.began \subseteq Files
      /\ \A g \in DOMAIN r.began : r.began[g] \in 1..W.mtime[g]
      /\ DOMAIN r.next \subseteq DOMAIN r.refs
      /\ \A g \in DOMAIN r.next : r.next[g].mtime = r.refs[g]
      /\ \A g \in DOMAIN r.began : /\ g \in W.linked => g \in DOMAIN r.refs
                                   /\ g \in DOMAIN r.refs => r.began[g] <= r.refs[g]
      /\ \A g \in DOMAIN r.refs \cap W.linked : g \in r.todo \/ g \in DOMAIN r.next
  BY <1>0 DEF Covers
<1>4. ASSUME Hit(q, f)
      PROVE  Reader(W, With(q, f, q.cache[f]))
  <2> DEFINE e == q.cache[f]
             s == With(q, f, e)
  <2>1. f \in DOMAIN r.cache /\ r.cache[f].mtime = r.refs[f]
    BY <1>1, <1>4 DEF Hit
  <2>2. /\ Fields(s) /\ s.at = q.at /\ s.job = q.job /\ s.cache = q.cache
        /\ s.refs = q.refs /\ s.todo = q.todo /\ s.account = q.account /\ s.began = q.began
        /\ s.asked = q.asked /\ s.turns = q.turns /\ s.hits = q.hits
        /\ DOMAIN s.next = DOMAIN q.next \cup {f} /\ s.next[f] = e
        /\ \A g \in DOMAIN q.next : g # f => s.next[g] = q.next[g]
    <3>1. Fields(q)
      BY <1>1
    <3> HIDE DEF e
    <3> QED
      BY <3>1, WithFields
  <2>3. Table(W, s.next)
    <3>1. EntryIn(W.mtime, W.text, f, q.cache[f]) /\ W.own[q.cache[f].mtime] = f
      BY <1>0, <1>1, <2>1 DEF Table
    <3> QED
      BY <1>0, <1>1, <1>2, <3>1, WithIsTable
  <2> HIDE DEF s
  <2>4. Looked(W, s)
    BY <1>0, <1>1, <2>2 DEF Looked
  <2>5. Reading(W, s) /\ Searches(W, s) /\ Answered(W, s) /\ Asked(s)
    BY <1>0, <1>1, <2>2 DEF Reading, Searches, Answered, Asked, Quiet
  <2>6. Covers(W, s)
    <3>1. \A g \in DOMAIN s.next : g \in DOMAIN s.refs /\ s.next[g].mtime = s.refs[g]
      BY <1>1, <1>2, <1>3, <2>1, <2>2
    <3>2. \A g \in DOMAIN s.refs \cap W.linked : g \in s.todo \/ g \in DOMAIN s.next
      BY <1>1, <1>3, <2>2
    <3> QED
      BY <1>1, <1>3, <2>2, <3>1, <3>2 DEF Covers, Told, Answering
  <2>7. Reader(W, s)
    BY <1>0, <1>1, <2>2, <2>3, <2>4, <2>5, <2>6 DEF Reader
  <2> QED
    BY <2>7 DEF s
<1>5. ASSUME f \in W.linked
      PROVE  Reader(W, [q EXCEPT !.at = "reading", !.file = f])
  <2> DEFINE s == [q EXCEPT !.at = "reading", !.file = f]
  <2>1. /\ Fields(s) /\ s.at = "reading" /\ s.file = f /\ s.job = q.job /\ s.cache = q.cache
        /\ s.refs = q.refs /\ s.todo = q.todo /\ s.account = q.account /\ s.began = q.began
        /\ s.asked = q.asked /\ s.turns = q.turns /\ s.hits = q.hits /\ s.next = q.next
    BY <1>1, FieldsAre
  <2> HIDE DEF s
  <2>2. Looked(W, s)
    BY <1>0, <1>1, <2>1 DEF Looked
  <2>3. Searches(W, s) /\ Answered(W, s) /\ Asked(s)
    BY <1>0, <1>1, <2>1 DEF Searches, Answered, Asked, Quiet
  <2>4. Reading(W, s)
    <3>1. IsSeq(W.text[f])
      BY <1>2 DEF Sound, FilesIn
    <3>2. 0 \in 0..Len(W.text[f])
      BY <3>1, AppendIsSeq
    <3>3. PICK codex \in BOOLEAN : codex <=> f \in Codex
      OBVIOUS
    <3>4. DOMAIN Prefix(W.text[f], 0) = {}
      BY <3>1, <3>2, PrefixIs
    <3>5. AccountOf(f \in Codex, Prefix(W.text[f], 0)) = NoAccount
      BY <3>3, <3>4, AccountOfNothing
    <3> QED
      BY <1>0, <1>1, <1>2, <2>1, <3>2, <3>5 DEF Reading
  <2>5. Covers(W, s)
    BY <1>1, <1>3, <2>1 DEF Covers, Told, Answering
  <2>6. Reader(W, s)
    BY <1>0, <1>1, <2>1, <2>2, <2>3, <2>4, <2>5 DEF Reader
  <2> QED
    BY <2>6 DEF s
<1>6. ASSUME f \notin W.linked
      PROVE  Reader(W, q)
  <2>1. Looked(W, q) /\ Reading(W, q) /\ Searches(W, q) /\ Answered(W, q) /\ Asked(q)
    BY <1>0, <1>1 DEF Looked, Reading, Searches, Answered, Asked, Quiet
  <2>2. Covers(W, q)
    BY <1>1, <1>3, <1>6 DEF Covers, Told, Answering
  <2> QED
    BY <1>0, <1>1, <2>1, <2>2 DEF Reader
<1> QED
  BY <1>4, <1>5, <1>6

\* The next line, of what may have become more since it was found.
LEMMA ReadReads ==
  ASSUME NEW W, Sound(W), NEW r, Reader(W, r), r.at = "reading",
         r.account.lines < Len(W.text[r.file]), NEW a,
         a = ReadLine(r.file \in Codex, r.account, W.text[r.file][r.account.lines + 1])
  PROVE  Reader(W, [r EXCEPT !.account = a])
<1> DEFINE s == [r EXCEPT !.account = a]
           f == r.file
<1>0. /\ Fields(r) /\ Table(W, r.cache) /\ Table(W, r.next) /\ Looked(W, r) /\ Covers(W, r) /\ Reading(W, r)
      /\ r.job \in Jobs /\ r.asked = <<>> /\ r.turns = <<>> /\ r.hits = {}
  BY DEF Reader, Asked, Quiet
<1>1. /\ Fields(s) /\ s.at = "reading" /\ s.next = r.next /\ s.job = r.job /\ s.cache = r.cache
      /\ s.refs = r.refs /\ s.todo = r.todo /\ s.account = a /\ s.began = r.began
      /\ s.asked = r.asked /\ s.turns = r.turns /\ s.hits = r.hits /\ s.file = f
  BY <1>0, FieldsAre
<1> HIDE DEF s
<1>2. f \in DOMAIN r.refs /\ f \in Files
  BY <1>0 DEF Reading, Looked
<1>3. PICK n \in 0..Len(W.text[f]) : r.account = AccountOf(f \in Codex, Prefix(W.text[f], n))
  BY <1>0 DEF Reading
<1>4. PICK codex \in BOOLEAN : codex <=> f \in Codex
  OBVIOUS
<1> HIDE DEF f
<1>5. IsSeq(W.text[f])
  BY <1>2 DEF Sound, FilesIn
<1>6. r.account.lines = n
  BY <1>3, <1>4, <1>5, PrefixFields
<1>7. n \in Nat /\ n < Len(W.text[f]) /\ n + 1 \in 0..Len(W.text[f])
  <2>1. n < Len(W.text[f]) /\ Len(W.text[f]) \in Nat
    BY <1>5, <1>6, AppendIsSeq DEF f
  <2> QED
    BY <2>1
<1>8. a = AccountOf(f \in Codex, Prefix(W.text[f], n + 1))
  <2>1. AccountOf(codex, Prefix(W.text[f], n + 1))
          = ReadLine(codex, AccountOf(codex, Prefix(W.text[f], n)), W.text[f][n + 1])
    BY <1>5, <1>7, PrefixGrows
  <2>2. a = ReadLine(f \in Codex, r.account, W.text[f][n + 1])
    BY <1>6 DEF f
  <2> QED
    BY <1>3, <1>4, <2>1, <2>2
<1>9. Reading(W, s)
  BY <1>1, <1>2, <1>7, <1>8 DEF Reading
<1>10. Looked(W, s) /\ Searches(W, s) /\ Answered(W, s) /\ Asked(s)
  BY <1>0, <1>1 DEF Looked, Searches, Answered, Asked, Quiet
<1>11. Covers(W, s)
  BY <1>0, <1>1 DEF Covers, Told, Answering, f
<1>12. Reader(W, s)
  BY <1>0, <1>1, <1>9, <1>10, <1>11 DEF Reader
<1> QED
  BY <1>12 DEF s

\* At the end of the file the account is one of all its lines, and its entry an entry.
LEMMA ReadIsEntry ==
  ASSUME NEW W, Sound(W), NEW r, Reader(W, r), r.at = "reading",
         ~(r.account.lines < Len(W.text[r.file])), NEW e, e = EntryOf(r)
  PROVE  /\ r.file \in Files /\ r.file \in DOMAIN r.refs
         /\ e.mtime = r.refs[r.file] /\ EntryIn(W.mtime, W.text, r.file, e)
         /\ W.own[e.mtime] = r.file
<1> DEFINE f == r.file
<1>0. Looked(W, r) /\ Reading(W, r)
  BY DEF Reader
<1>1. f \in DOMAIN r.refs /\ f \in Files /\ r.refs[f] \in 1..W.mtime[f] /\ W.own[r.refs[f]] = f
  BY <1>0 DEF Reading, Looked
<1>2. PICK n \in 0..Len(W.text[f]) : r.account = AccountOf(f \in Codex, Prefix(W.text[f], n))
  BY <1>0 DEF Reading
<1>3. e.mtime = r.refs[f] /\ e.record = RecordIn(f, r.refs[f], r.account)
  BY DEF EntryOf
<1>4. PICK codex \in BOOLEAN : codex <=> f \in Codex
  OBVIOUS
<1>5. ~(r.account.lines < Len(W.text[f]))
  OBVIOUS
<1> HIDE DEF f
<1>6. IsSeq(W.text[f])
  BY <1>1 DEF Sound, FilesIn
<1>7. r.account.lines = n
  BY <1>2, <1>4, <1>6, PrefixFields
<1>8. n \in LenIn(W.text[f], e.mtime)..Len(W.text[f])
  <2>1. LenIn(W.text[f], e.mtime) \in Nat /\ LenIn(W.text[f], e.mtime) <= Len(W.text[f])
    BY <1>6, LenInIs
  <2>2. Len(W.text[f]) \in Nat /\ ~(n < Len(W.text[f]))
    BY <1>5, <1>6, <1>7, AppendIsSeq
  <2> QED
    BY <2>1, <2>2
<1>9. e.record = ParseOf(f, e.mtime, Prefix(W.text[f], n))
  BY <1>2, <1>3, ParseIs
<1> QED
  BY <1>1, <1>3, <1>8, <1>9 DEF EntryIn, f

LEMMA ParsedReads ==
  ASSUME NEW W, Sound(W), NEW r, Reader(W, r), r.at = "reading",
         ~(r.account.lines < Len(W.text[r.file]))
  PROVE  Reader(W, [With(r, r.file, EntryOf(r)) EXCEPT !.at = "looking", !.file = NoFile,
                                                       !.account = NoAccount])
<1> DEFINE e == EntryOf(r)
           f == r.file
           q == With(r, f, e)
           s == [q EXCEPT !.at = "looking", !.file = NoFile, !.account = NoAccount]
<1>0. /\ Fields(r) /\ Table(W, r.cache) /\ Table(W, r.next) /\ Looked(W, r) /\ Covers(W, r)
      /\ r.job \in Jobs /\ r.asked = <<>> /\ r.turns = <<>> /\ r.hits = {}
  BY DEF Reader, Asked, Quiet
<1>1. /\ f \in Files /\ f \in DOMAIN r.refs /\ e.mtime = r.refs[f]
      /\ EntryIn(W.mtime, W.text, f, e) /\ W.own[e.mtime] = f
  BY ReadIsEntry
<1> HIDE DEF e
<1>2. /\ Fields(q) /\ q.job = r.job /\ q.cache = r.cache
      /\ q.refs = r.refs /\ q.todo = r.todo /\ q.began = r.began
      /\ q.asked = r.asked /\ q.turns = r.turns /\ q.hits = r.hits
      /\ DOMAIN q.next = DOMAIN r.next \cup {f} /\ q.next[f] = e
      /\ \A g \in DOMAIN r.next : g # f => q.next[g] = r.next[g]
  BY <1>0, WithFields
<1>3. Table(W, q.next)
  BY <1>0, <1>1, WithIsTable
<1> HIDE DEF q
<1>4. /\ Fields(s) /\ s.at = "looking" /\ s.next = q.next /\ s.job = q.job /\ s.cache = q.cache
      /\ s.refs = q.refs /\ s.todo = q.todo /\ s.account = NoAccount /\ s.began = q.began
      /\ s.asked = q.asked /\ s.turns = q.turns /\ s.hits = q.hits
  BY <1>2, FieldsAre
<1> HIDE DEF s
<1>5. Looked(W, s) /\ Reading(W, s) /\ Searches(W, s) /\ Answered(W, s) /\ Asked(s)
  BY <1>0, <1>2, <1>4 DEF Looked, Reading, Searches, Answered, Asked, Quiet
<1>6. Covers(W, s)
  <2>1. /\ DOMAIN r.began \subseteq Files
        /\ \A g \in DOMAIN r.began : r.began[g] \in 1..W.mtime[g]
        /\ DOMAIN r.next \subseteq DOMAIN r.refs
        /\ \A g \in DOMAIN r.next : r.next[g].mtime = r.refs[g]
        /\ \A g \in DOMAIN r.began : /\ g \in W.linked => g \in DOMAIN r.refs
                                     /\ g \in DOMAIN r.refs => r.began[g] <= r.refs[g]
        /\ \A g \in DOMAIN r.refs \cap W.linked : g \in r.todo \/ g \in DOMAIN r.next \/ g = f
    BY <1>0 DEF Covers
  <2>2. \A g \in DOMAIN s.next : g \in DOMAIN s.refs /\ s.next[g].mtime = s.refs[g]
    BY <1>1, <1>2, <1>4, <2>1
  <2>3. \A g \in DOMAIN s.refs \cap W.linked : g \in s.todo \/ g \in DOMAIN s.next
    BY <1>2, <1>4, <2>1
  <2> QED
    BY <1>2, <1>4, <2>1, <2>2, <2>3 DEF Covers, Told, Answering
<1>7. Reader(W, s)
  BY <1>0, <1>2, <1>3, <1>4, <1>5, <1>6 DEF Reader
<1> QED
  BY <1>7 DEF s, q, e

\* What was found and is still there is in the index that is saved.
LEMMA SaveReads ==
  ASSUME NEW W, NEW r, Reader(W, r), r.at = "looking", r.todo = {}
  PROVE  Reader(W, [r EXCEPT !.at = "answering", !.cache = Empty, !.refs = Empty])
<1> DEFINE s == [r EXCEPT !.at = "answering", !.cache = Empty, !.refs = Empty]
<1>0. /\ Fields(r) /\ Table(W, r.next) /\ Covers(W, r) /\ r.account = NoAccount
      /\ r.job \in Jobs /\ r.asked = <<>> /\ r.turns = <<>> /\ r.hits = {}
  BY DEF Reader, Reading, Asked, Quiet
<1>1. /\ Fields(s) /\ s.at = "answering" /\ s.next = r.next /\ s.job = r.job /\ s.cache = Empty
      /\ s.refs = Empty /\ s.todo = r.todo /\ s.account = r.account /\ s.began = r.began
      /\ s.asked = r.asked /\ s.turns = r.turns /\ s.hits = r.hits
  BY <1>0, FieldsAre
<1> HIDE DEF s
<1>2. Looked(W, s) /\ Reading(W, s) /\ Searches(W, s) /\ Answered(W, s) /\ Asked(s)
  BY <1>0, <1>1 DEF Looked, Reading, Searches, Answered, Asked, Quiet, Empty
<1>3. Covers(W, s)
  <2>1. /\ DOMAIN r.began \subseteq Files
        /\ \A g \in DOMAIN r.began : r.began[g] \in 1..W.mtime[g]
        /\ DOMAIN r.next \subseteq DOMAIN r.refs
        /\ \A g \in DOMAIN r.next : r.next[g].mtime = r.refs[g]
        /\ \A g \in DOMAIN r.began : /\ g \in W.linked => g \in DOMAIN r.refs
                                     /\ g \in DOMAIN r.refs => r.began[g] <= r.refs[g]
        /\ \A g \in DOMAIN r.refs \cap W.linked : g \in DOMAIN r.next
    BY <1>0 DEF Covers
  <2>2. \A g \in DOMAIN r.began : /\ g \in W.linked => g \in DOMAIN r.next
                                  /\ g \in DOMAIN r.next => r.began[g] <= r.next[g].mtime
    BY <2>1
  <2> QED
    BY <1>1, <2>1, <2>2 DEF Covers
<1>4. Reader(W, s)
  BY <1>0, <1>1, <1>2, <1>3, NothingIsTable DEF Reader
<1> QED
  BY <1>4 DEF s

----------------------------------------------------------------------------
(* Answers.                                                                *)

\* A file that did not change is in what the process answers from, as it is.
LEMMA RestedIsPresent ==
  ASSUME NEW W, Sound(W), NEW r, Table(W, r.next), Covers(W, r), Told(r), NEW f \in RestedIn(W, r)
  PROVE  f \in Files /\ f \in DOMAIN r.next /\ r.next[f].record = PresentIn(W, f)
<1>1. f \in DOMAIN r.began /\ f \in W.linked /\ r.began[f] = W.mtime[f]
  BY DEF RestedIn
<1>2. f \in DOMAIN r.next /\ r.began[f] <= r.next[f].mtime
  BY <1>1 DEF Covers
<1>3. f \in Files /\ EntryIn(W.mtime, W.text, f, r.next[f])
  BY <1>2 DEF Table
<1>4. r.next[f].mtime \in 1..W.mtime[f] /\ W.mtime[f] \in Nat
  BY <1>3 DEF EntryIn, Sound, FilesIn
<1>5. r.next[f].mtime = W.mtime[f]
  BY <1>1, <1>2, <1>4
<1> QED
  BY <1>2, <1>3, <1>5, EntryIsPresent DEF PresentIn, Sound

LEMMA TableIsFinite ==
  ASSUME NEW W, NEW r, Table(W, r.next), NEW S \in SUBSET DOMAIN r.next
  PROVE  IsFiniteSet(S)
<1>1. S \subseteq Files
  BY DEF Table
<1> QED
  BY <1>1, FilesAssumption, FS_Subset

\* The first of what there is, newest first: what is left out is older than all of them.
LEMMA LimitedIs ==
  ASSUME NEW W, Sound(W), NEW r, Table(W, r.next), NEW S \in SUBSET DOMAIN r.next, NEW limit \in Nat,
         NEW a, a = Limited(Newest(r, S), limit)
  PROVE  /\ IsSeq(a) /\ Range(a) \subseteq S
         /\ \A i, j \in DOMAIN a : i < j => r.next[a[i]].record.updated > r.next[a[j]].record.updated
         /\ \A f \in S : \/ f \in Range(a)
                         \/ /\ limit > 0 /\ Len(a) = limit
                            /\ \A g \in Range(a) : r.next[g].record.updated > r.next[f].record.updated
<1> DEFINE q == Newest(r, S)
<1>1. /\ q \in Seq(S) /\ Range(q) = S
      /\ \A i, j \in 1..Len(q) : i < j => r.next[q[i]].record.updated > r.next[q[j]].record.updated
  BY TimesDiffer, TableIsFinite, NewestIs
<1> HIDE DEF q
<1>2. Len(q) \in Nat /\ DOMAIN q = 1..Len(q)
  BY <1>1
<1>3. CASE limit > 0 /\ Len(q) > limit
  <2>1. a = SubSeq(q, 1, limit)
    BY <1>3 DEF Limited, q
  <2>2. a \in Seq(S) /\ Len(a) = limit /\ DOMAIN a = 1..limit /\ \A i \in 1..limit : a[i] = q[i]
    BY <1>1, <1>2, <1>3, <2>1
  <2>3. \A i \in 1..limit : i \in 1..Len(q)
    BY <1>2, <1>3
  <2>4. IsSeq(a) /\ Range(a) \subseteq S
    BY <2>2 DEF IsSeq, Range
  <2>5. ASSUME NEW i \in DOMAIN a, NEW j \in DOMAIN a, i < j
        PROVE  r.next[a[i]].record.updated > r.next[a[j]].record.updated
    BY <1>1, <2>2, <2>3, <2>5
  <2>6. ASSUME NEW f \in S, f \notin Range(a), NEW g \in Range(a)
        PROVE  r.next[g].record.updated > r.next[f].record.updated
    <3>1. PICK j \in 1..Len(q) : q[j] = f
      BY <1>1, <1>2 DEF Range
    <3>2. PICK i \in 1..limit : q[i] = g
      BY <2>2 DEF Range
    <3>3. j \notin 1..limit
      BY <2>2, <2>6, <3>1 DEF Range
    <3>4. i < j
      BY <3>3
    <3> QED
      BY <1>1, <2>3, <3>1, <3>2, <3>4
  <2> QED
    BY <1>3, <2>2, <2>4, <2>5, <2>6
<1>4. CASE ~(limit > 0 /\ Len(q) > limit)
  <2>1. a = q
    BY <1>4 DEF Limited, q
  <2> QED
    BY <1>1, <1>2, <2>1 DEF IsSeq
<1> QED
  BY <1>3, <1>4

\* Out of a set that has whatever did not change and is asked for, a window is an answer.
LEMMA WindowAnswers ==
  ASSUME NEW W, Sound(W), NEW r, Table(W, r.next), Covers(W, r), Told(r), r.job \in Jobs,
         NEW S \in SUBSET Admitted(r), r.job.what = "grep" => \A f \in S : MentionsIn(W, f),
         \A f \in RestedIn(W, r) :
           Admits(r.job, PresentIn(W, f)) /\ (r.job.what = "grep" => MentionsIn(W, f)) => f \in S,
         NEW s, s.job = r.job, s.next = r.next, s.began = r.began,
         s.answer = Limited(Newest(r, S), r.job.limit)
  PROVE  AnswersIn(W, s) /\ IsSeq(s.answer) /\ Shown(s) \subseteq S
<1>1. S \subseteq DOMAIN r.next /\ \A f \in S : Admits(r.job, r.next[f].record)
  BY DEF Admitted
<1>2. r.job.limit \in Nat
  BY JobsAssumption
<1>3. /\ IsSeq(s.answer) /\ Range(s.answer) \subseteq S
      /\ \A i, j \in DOMAIN s.answer :
           i < j => r.next[s.answer[i]].record.updated > r.next[s.answer[j]].record.updated
      /\ \A f \in S : \/ f \in Range(s.answer)
                      \/ /\ r.job.limit > 0 /\ Len(s.answer) = r.job.limit
                         /\ \A g \in Range(s.answer) :
                              r.next[g].record.updated > r.next[f].record.updated
  BY <1>1, <1>2, LimitedIs
<1>4. ASSUME NEW f \in RestedIn(W, s), Admits(s.job, PresentIn(W, f)),
             s.job.what = "grep" => MentionsIn(W, f)
      PROVE  f \in Shown(s) \/ CrowdedIn(W, s, f)
  <2>1. f \in RestedIn(W, r)
    BY <1>4 DEF RestedIn
  <2>2. f \in S /\ r.next[f].record = PresentIn(W, f)
    BY <1>4, <2>1, RestedIsPresent
  <2> QED
    BY <1>3, <2>2 DEF CrowdedIn, Shown
<1>5. \A f \in Shown(s) : /\ f \in DOMAIN s.next /\ Admits(s.job, s.next[f].record)
                          /\ s.job.what = "grep" => MentionsIn(W, f)
  BY <1>1, <1>3 DEF Shown
<1> QED
  BY <1>3, <1>4, <1>5 DEF AnswersIn, Shown

LEMMA PrefixOfItself ==
  ASSUME NEW f \in Files
  PROVE  IsPrefix(IdOf[f], IdOf[f])
<1>1. IdOf[f] \in Seq(Nat)
  BY IdsAssumption
<1>2. Len(IdOf[f]) <= Len(IdOf[f])
  BY <1>1
<1> QED
  BY <1>2 DEF IsPrefix

\* What is resumed: no other session that was there all along can have been meant.
LEMMA ResolvedAnswers ==
  ASSUME NEW W, Sound(W), NEW r, Table(W, r.next), Covers(W, r), Told(r), r.job \in Jobs,
         r.job.what = "resume", NEW s, s.job = r.job, s.next = r.next, s.began = r.began,
         s.answer = Resolve(r.job.needle, Admitted(r))
  PROVE  AnswersIn(W, s) /\ ResumesIn(W, s)
<1> DEFINE needle == r.job.needle
           S      == Admitted(r)
           exact  == {f \in S : IdOf[f] = needle}
           named  == {f \in S : IsPrefix(needle, IdOf[f])}
<1>1. S \subseteq DOMAIN r.next /\ S \subseteq Files /\ \A f \in S : Admits(r.job, r.next[f].record)
  BY DEF Admitted, Table
<1>2. ASSUME NEW f \in DOMAIN r.next
      PROVE  f \in S
  <2>1. f \in Files /\ EntryIn(W.mtime, W.text, f, r.next[f])
    BY DEF Table
  <2>2. r.next[f].record.updated \in 1..W.mtime[f]
    BY <2>1, EntryUpdated DEF Sound
  <2>3. W.mtime[f] \in Nat
    BY <2>1 DEF Sound, FilesIn
  <2>4. r.next[f].record.updated >= 0
    BY <2>2, <2>3
  <2> QED
    BY <2>4, JobsAssumption DEF Admitted, Admits
<1>3. \A f \in RestedIn(W, s) : f \in S
  <2>1. \A f \in RestedIn(W, s) : f \in RestedIn(W, r)
    BY DEF RestedIn
  <2> QED
    BY <1>2, <2>1, RestedIsPresent
<1> DEFINE x == CHOOSE f \in exact : TRUE
           y == CHOOSE f \in named : TRUE
<1>4. s.answer = IF exact # {} THEN <<x>> ELSE IF Cardinality(named) = 1 THEN <<y>> ELSE <<>>
  BY DEF Resolve
<1>5. exact # {} => x \in exact
  OBVIOUS
<1>6. Cardinality(named) = 1 => y \in named /\ \A g \in named : g = y
  <2>1. IsFiniteSet(named)
    BY <1>1, TableIsFinite
  <2> HIDE DEF named
  <2>2. Cardinality(named) = 1 => \E z : named = {z}
    BY <2>1, FS_Singleton
  <2> QED
    BY <2>2
<1> HIDE DEF x, y, S
<1>7. CASE exact # {}
  <2>1. x \in S /\ IdOf[x] = needle
    BY <1>5, <1>7
  <2>2. s.answer = <<x>> /\ Shown(s) = {x}
    BY <1>4, <1>7 DEF Shown, Range
  <2>3. IsPrefix(needle, IdOf[x])
    BY <1>1, <2>1, PrefixOfItself
  <2>4. \A f \in RestedIn(W, s) : IdOf[f] = needle => f = x
    BY <1>1, <1>3, <2>1, IdsAssumption
  <2>5. DOMAIN s.answer = {1}
    BY <2>2
  <2> HIDE DEF exact, named
  <2>6. AnswersIn(W, s)
    <3>1. \A f \in Shown(s) : f \in DOMAIN s.next /\ Admits(s.job, s.next[f].record)
      BY <1>1, <2>1, <2>2
    <3>2. s.job.what \notin {"ls", "grep", "ask"} /\ s.job.what # "grep"
      OBVIOUS
    <3>3. \A i, j \in DOMAIN s.answer : ~(i < j)
      BY <2>5
    <3> QED
      BY <3>1, <3>2, <3>3 DEF AnswersIn
  <2>7. ResumesIn(W, s)
    BY <2>1, <2>2, <2>3, <2>4 DEF ResumesIn
  <2> QED
    BY <2>6, <2>7
<1>8. CASE exact = {} /\ Cardinality(named) = 1
  <2>1. y \in S /\ IsPrefix(needle, IdOf[y])
    BY <1>6, <1>8
  <2>2. s.answer = <<y>> /\ Shown(s) = {y}
    BY <1>4, <1>8 DEF Shown, Range
  <2>3. \A f \in RestedIn(W, s) : IdOf[f] # needle
    BY <1>3, <1>8
  <2>4. \A f \in RestedIn(W, s) : IsPrefix(needle, IdOf[f]) => f = y
    BY <1>3, <1>6, <1>8
  <2>5. DOMAIN s.answer = {1}
    BY <2>2
  <2> HIDE DEF exact, named
  <2>6. AnswersIn(W, s)
    <3>1. \A f \in Shown(s) : f \in DOMAIN s.next /\ Admits(s.job, s.next[f].record)
      BY <1>1, <2>1, <2>2
    <3>2. s.job.what \notin {"ls", "grep", "ask"} /\ s.job.what # "grep"
      OBVIOUS
    <3>3. \A i, j \in DOMAIN s.answer : ~(i < j)
      BY <2>5
    <3> QED
      BY <3>1, <3>2, <3>3 DEF AnswersIn
  <2>7. ResumesIn(W, s)
    BY <2>1, <2>2, <2>3, <2>4 DEF ResumesIn
  <2> QED
    BY <2>6, <2>7
<1>9. CASE exact = {} /\ Cardinality(named) # 1
  <2>1. s.answer = <<>> /\ Shown(s) = {} /\ DOMAIN s.answer = {}
    BY <1>4, <1>9 DEF Shown, Range
  <2>2. \A f \in RestedIn(W, s) : IdOf[f] # needle
    BY <1>3, <1>9
  <2> HIDE DEF exact, named
  <2>3. AnswersIn(W, s)
    <3>1. s.job.what \notin {"ls", "grep", "ask"}
      OBVIOUS
    <3> QED
      BY <2>1, <3>1 DEF AnswersIn
  <2>4. ResumesIn(W, s)
    BY <2>1, <2>2 DEF ResumesIn
  <2> QED
    BY <2>3, <2>4
<1> QED
  BY <1>7, <1>8, <1>9

----------------------------------------------------------------------------
(* Commands that end with an answer.                                       *)

LEMMA DoneFields ==
  ASSUME NEW r, Fields(r), NEW answer
  PROVE  LET s == Done(r, answer)
         IN /\ Fields(s) /\ s.at = "done" /\ s.next = r.next /\ s.job = r.job /\ s.cache = r.cache
            /\ s.refs = r.refs /\ s.todo = r.todo /\ s.account = r.account /\ s.began = r.began
            /\ s.asked = r.asked /\ s.turns = r.turns /\ s.answer = answer
BY FieldsAre DEF Done

\* A process that has an answer to what it was asked.
LEMMA DoneReads ==
  ASSUME NEW W, NEW r, Reader(W, r), r.at \in {"answering", "searching"},
         NEW s, Fields(s), s.at = "done", s.next = r.next, s.job = r.job, s.cache = r.cache,
         s.refs = r.refs, s.todo = r.todo, s.account = r.account, s.began = r.began,
         r.job.what # "ask",
         r.job.what # "paint" => AnswersIn(W, s) /\ (r.job.what = "resume" => ResumesIn(W, s))
  PROVE  Reader(W, s)
<1>0. /\ Table(W, r.cache) /\ Table(W, r.next) /\ Looked(W, r) /\ Covers(W, r)
      /\ r.account = NoAccount /\ r.job \in Jobs
  BY DEF Reader, Reading, Asked
<1>1. Table(W, s.cache) /\ Table(W, s.next) /\ Looked(W, s) /\ Reading(W, s)
  BY <1>0 DEF Looked, Reading
<1>2. Searches(W, s) /\ Answered(W, s) /\ Asked(s)
  BY <1>0 DEF Searches, Answered, Asked, Quiet
<1>3. Covers(W, s)
  BY <1>0 DEF Covers, Told, Answering
<1> QED
  BY <1>1, <1>2, <1>3 DEF Reader

LEMMA ToldReads ==
  ASSUME NEW W, NEW r, Reader(W, r)
  PROVE  /\ Fields(r) /\ Table(W, r.next) /\ Covers(W, r) /\ (r.at # "idle" => r.job \in Jobs)
         /\ r.at \in Answering /\ r.job.what # "paint" => Told(r)
BY DEF Reader, Asked, Told

LEMMA ListReads ==
  ASSUME NEW W, Sound(W), NEW r, Reader(W, r), r.at = "answering", r.job.what \in {"ls", "paint"}
  PROVE  Reader(W, Done(r, Limited(Newest(r, Admitted(r)), r.job.limit)))
<1> DEFINE a == Limited(Newest(r, Admitted(r)), r.job.limit)
           s == Done(r, a)
<1>0. Fields(r) /\ Table(W, r.next) /\ Covers(W, r) /\ r.job \in Jobs
      /\ (r.job.what # "paint" => Told(r))
  BY ToldReads DEF Answering
<1>1. /\ Fields(s) /\ s.at = "done" /\ s.next = r.next /\ s.job = r.job /\ s.cache = r.cache
      /\ s.refs = r.refs /\ s.todo = r.todo /\ s.account = r.account /\ s.began = r.began
      /\ s.answer = a
  BY <1>0, DoneFields
<1> HIDE DEF s
<1>2. ASSUME r.job.what # "paint"
      PROVE  AnswersIn(W, s)
  <2>1. \A f \in RestedIn(W, r) :
          Admits(r.job, PresentIn(W, f)) /\ (r.job.what = "grep" => MentionsIn(W, f)) => f \in Admitted(r)
    BY <1>0, <1>2, RestedIsPresent DEF Admitted
  <2>2. Told(r) /\ r.job.what # "grep"
    BY <1>0, <1>2
  <2> QED
    BY <1>0, <1>1, <2>1, <2>2, WindowAnswers
<1>3. Reader(W, s)
  BY <1>1, <1>2, DoneReads
<1> QED
  BY <1>3 DEF s

LEMMA NameReads ==
  ASSUME NEW W, Sound(W), NEW r, Reader(W, r), r.at = "answering", r.job.what = "resume"
  PROVE  Reader(W, Done(r, Resolve(r.job.needle, Admitted(r))))
<1> DEFINE a == Resolve(r.job.needle, Admitted(r))
           s == Done(r, a)
<1>0. Fields(r) /\ Table(W, r.next) /\ Covers(W, r) /\ r.job \in Jobs /\ Told(r)
  BY ToldReads DEF Answering
<1>1. /\ Fields(s) /\ s.at = "done" /\ s.next = r.next /\ s.job = r.job /\ s.cache = r.cache
      /\ s.refs = r.refs /\ s.todo = r.todo /\ s.account = r.account /\ s.began = r.began
      /\ s.answer = a
  BY <1>0, DoneFields
<1> HIDE DEF s
<1>2. AnswersIn(W, s) /\ ResumesIn(W, s)
  BY <1>0, <1>1, ResolvedAnswers
<1>3. Reader(W, s)
  BY <1>1, <1>2, DoneReads
<1> QED
  BY <1>3 DEF s

\* No answer is right for what shows none.
LEMMA NothingAnswers ==
  ASSUME NEW W, NEW s, s.answer = <<>>, s.job.what \notin {"ls", "grep", "ask"}
  PROVE  AnswersIn(W, s)
<1>1. DOMAIN s.answer = {}
  OBVIOUS
<1>2. Shown(s) = {}
  BY <1>1 DEF Shown, Range
<1> QED
  BY <1>1, <1>2 DEF AnswersIn

LEMMA RebuiltReads ==
  ASSUME NEW W, Sound(W), NEW r, Reader(W, r), r.at = "answering", r.job.what = "rebuild"
  PROVE  Reader(W, Done(r, <<>>))
<1> DEFINE s == Done(r, <<>>)
<1>0. Fields(r)
  BY ToldReads
<1>1. /\ Fields(s) /\ s.at = "done" /\ s.next = r.next /\ s.job = r.job /\ s.cache = r.cache
      /\ s.refs = r.refs /\ s.todo = r.todo /\ s.account = r.account /\ s.began = r.began
      /\ s.answer = <<>>
  BY <1>0, DoneFields
<1> HIDE DEF s
<1>2. AnswersIn(W, s)
  BY <1>1, NothingAnswers
<1>3. Reader(W, s)
  BY <1>1, <1>2, DoneReads
<1> QED
  BY <1>3 DEF s

\* A search that has no batch left has been through all it had to.
LEMMA FoundReads ==
  ASSUME NEW W, Sound(W), NEW r, Reader(W, r), r.at = "searching", r.batches = <<>>
  PROVE  Reader(W, Done(r, Limited(Newest(r, r.hits), r.job.limit)))
<1> DEFINE a == Limited(Newest(r, r.hits), r.job.limit)
           s == Done(r, a)
<1>0. Fields(r) /\ Table(W, r.next) /\ Covers(W, r) /\ r.job \in Jobs /\ Searches(W, r)
  BY ToldReads DEF Reader
<1>1. /\ Fields(s) /\ s.at = "done" /\ s.next = r.next /\ s.job = r.job /\ s.cache = r.cache
      /\ s.refs = r.refs /\ s.todo = r.todo /\ s.account = r.account /\ s.began = r.began
      /\ s.answer = a
  BY <1>0, DoneFields
<1> HIDE DEF s
<1>2. DOMAIN r.batches = {}
  OBVIOUS
<1>3. /\ r.job.what = "grep" /\ r.hits \subseteq Admitted(r) /\ \A f \in r.hits : MentionsIn(W, f)
      /\ \A f \in RestedIn(W, r) : Admits(r.job, PresentIn(W, f)) /\ MentionsIn(W, f) => f \in r.hits
  BY <1>0, <1>2 DEF Searches
<1>4. Told(r)
  BY <1>3 DEF Told, Answering
<1>5. AnswersIn(W, s)
  BY <1>0, <1>1, <1>3, <1>4, WindowAnswers
<1>6. Reader(W, s)
  BY <1>1, <1>3, <1>5, DoneReads
<1> QED
  BY <1>6 DEF s

----------------------------------------------------------------------------
(* A search.                                                               *)

Batch(b, f) == f \in Range(b.last) \/ \E i \in DOMAIN b.full : f \in Range(b.full[i])

\* A path more is in a batch, and the others stay.
LEMMA BatchedIs ==
  ASSUME NEW b, {"full", "last", "bytes"} \subseteq DOMAIN b, IsSeq(b.full), IsSeq(b.last), NEW f
  PROVE  LET c == Batched(b, f)
         IN /\ {"full", "last", "bytes"} \subseteq DOMAIN c /\ IsSeq(c.full) /\ IsSeq(c.last)
            /\ \A g : Batch(c, g) <=> Batch(b, g) \/ g = f
<1> DEFINE c == Batched(b, f)
<1>1. CASE b.last # <<>> /\ b.bytes + Size[f] > ArgvCap
  <2>1. c.full = Append(b.full, b.last) /\ c.last = <<f>> /\ DOMAIN c = {"full", "last", "bytes"}
    BY <1>1 DEF Batched
  <2> HIDE DEF c
  <2>2. /\ IsSeq(c.full) /\ DOMAIN c.full = 1..(Len(b.full) + 1) /\ DOMAIN b.full = 1..Len(b.full)
        /\ Len(b.full) \in Nat /\ \A i \in 1..Len(b.full) : c.full[i] = b.full[i]
        /\ c.full[Len(b.full) + 1] = b.last
    BY <2>1, AppendIsSeq
  <2>3. Range(c.last) = {f} /\ IsSeq(c.last)
    <3>1. c.last \in Seq({f}) /\ DOMAIN c.last = {1} /\ c.last[1] = f
      BY <2>1
    <3>2. Range(c.last) = {f}
      BY <3>1 DEF Range
    <3>3. \E S : c.last \in Seq(S)
      BY <3>1, Zenon
    <3> QED
      BY <3>2, <3>3 DEF IsSeq
  <2>4. \A g : (\E i \in DOMAIN c.full : g \in Range(c.full[i]))
               <=> (g \in Range(b.last) \/ \E i \in DOMAIN b.full : g \in Range(b.full[i]))
    <3>1. \A i \in 1..(Len(b.full) + 1) : i \in 1..Len(b.full) \/ i = Len(b.full) + 1
      BY <2>2
    <3>2. Len(b.full) + 1 \in 1..(Len(b.full) + 1) /\ \A i \in 1..Len(b.full) : i \in 1..(Len(b.full) + 1)
      BY <2>2
    <3> QED
      BY <2>2, <3>1, <3>2
  <2> QED
    BY <2>1, <2>2, <2>3, <2>4 DEF Batch, c
<1>2. CASE ~(b.last # <<>> /\ b.bytes + Size[f] > ArgvCap)
  <2>1. c.full = b.full /\ c.last = Append(b.last, f) /\ DOMAIN c = DOMAIN b
    BY <1>2 DEF Batched
  <2> HIDE DEF c
  <2>2. /\ IsSeq(c.last) /\ DOMAIN c.last = 1..(Len(b.last) + 1) /\ DOMAIN b.last = 1..Len(b.last)
        /\ Len(b.last) \in Nat /\ \A i \in 1..Len(b.last) : c.last[i] = b.last[i]
        /\ c.last[Len(b.last) + 1] = f
    BY <2>1, AppendIsSeq
  <2>3. \A g : g \in Range(c.last) <=> g \in Range(b.last) \/ g = f
    <3>1. \A i \in 1..(Len(b.last) + 1) : i \in 1..Len(b.last) \/ i = Len(b.last) + 1
      BY <2>2
    <3>2. Len(b.last) + 1 \in 1..(Len(b.last) + 1) /\ \A i \in 1..Len(b.last) : i \in 1..(Len(b.last) + 1)
      BY <2>2
    <3> QED
      BY <2>2, <3>1, <3>2 DEF Range
  <2> QED
    BY <2>1, <2>2, <2>3 DEF Batch, c
<1> QED
  BY <1>1, <1>2

LEMMA BatchesHaveAll ==
  ASSUME NEW q, IsSeq(q), NEW n \in 0..Len(q)
  PROVE  LET b == BatchesOf(Prefix(q, n))
         IN /\ {"full", "last", "bytes"} \subseteq DOMAIN b /\ IsSeq(b.full) /\ IsSeq(b.last)
            /\ \A f : Batch(b, f) <=> \E i \in 1..n : q[i] = f
<1> DEFINE B(k) == BatchesOf(Prefix(q, k))
           P(k) == /\ {"full", "last", "bytes"} \subseteq DOMAIN B(k) /\ IsSeq(B(k).full) /\ IsSeq(B(k).last)
                   /\ \A f : Batch(B(k), f) <=> \E i \in 1..k : q[i] = f
           S == {k \in Nat : k <= Len(q) => P(k)}
<1>1. Len(q) \in Nat
  BY AppendIsSeq
<1>2. 0 \in S
  <2>1. 0 \in 0..Len(q) /\ 1..0 = {}
    BY <1>1
  <2>2. B(0) = NoBatches
    BY <2>1, PrefixIs, BatchesOfNothing
  <2>3. /\ {"full", "last", "bytes"} \subseteq DOMAIN NoBatches
        /\ NoBatches.full = <<>> /\ NoBatches.last = <<>>
    BY DEF NoBatches
  <2>4. DOMAIN NoBatches.full = {} /\ DOMAIN NoBatches.last = {}
    BY <2>3
  <2>5. \A f : ~Batch(NoBatches, f)
    BY <2>4 DEF Batch, Range
  <2> HIDE DEF B
  <2>6. P(0)
    BY <2>1, <2>2, <2>3, <2>5, NothingIsSeq
  <2> HIDE DEF P
  <2> QED
    BY <2>6
<1>3. ASSUME NEW k \in S
      PROVE  k + 1 \in S
  <2> SUFFICES ASSUME k + 1 <= Len(q) PROVE P(k + 1)
    OBVIOUS
  <2>1. k \in Nat /\ k < Len(q) /\ k <= Len(q) /\ k \in 0..Len(q) /\ k + 1 \in 0..Len(q) /\ k + 1 \in 1..(k + 1)
    BY <1>1
  <2>2. P(k)
    BY <2>1
  <2>3. /\ DOMAIN Prefix(q, k) = 1..k /\ \A i \in 1..k : Prefix(q, k)[i] = q[i]
        /\ DOMAIN Prefix(q, k + 1) = 1..(k + 1) /\ \A i \in 1..(k + 1) : Prefix(q, k + 1)[i] = q[i]
    BY <2>1, PrefixIs
  <2>4. \A i \in 1..k : i \in 1..(k + 1)
    BY <2>1
  <2>5. Same(Prefix(q, k + 1), Prefix(q, k), k) /\ Prefix(q, k + 1)[k + 1] = q[k + 1]
    BY <2>1, <2>3, <2>4 DEF Same
  <2>6. B(k + 1) = Batched(B(k), q[k + 1])
    BY <2>1, <2>3, <2>5, BatchesGrow
  <2> HIDE DEF B
  <2>7. /\ {"full", "last", "bytes"} \subseteq DOMAIN B(k + 1) /\ IsSeq(B(k + 1).full) /\ IsSeq(B(k + 1).last)
        /\ \A f : Batch(B(k + 1), f) <=> Batch(B(k), f) \/ f = q[k + 1]
    BY <2>2, <2>6, BatchedIs
  <2>8. \A f : (\E i \in 1..(k + 1) : q[i] = f) <=> (\E i \in 1..k : q[i] = f) \/ f = q[k + 1]
    <3>1. \A i \in 1..(k + 1) : i \in 1..k \/ i = k + 1
      BY <2>1
    <3> QED
      BY <2>1, <2>4, <3>1
  <2> QED
    BY <2>2, <2>7, <2>8
<1> HIDE DEF P
<1>4. S = Nat
  <2> HIDE DEF S
  <2>1. S \in SUBSET Nat
    BY DEF S
  <2> QED
    BY <1>2, <1>3, <2>1, Induction
<1>5. n \in S /\ n <= Len(q)
  BY <1>1, <1>4
<1> QED
  BY <1>5 DEF P

\* ripgrep is given every path, and no other.
LEMMA BatchPathsHaveAll ==
  ASSUME NEW q, IsSeq(q)
  PROVE  /\ IsSeq(BatchPaths(q))
         /\ \A f : f \in Range(q) <=> \E i \in DOMAIN BatchPaths(q) : f \in Range(BatchPaths(q)[i])
<1> DEFINE b == BatchesOf(q)
           p == BatchPaths(q)
<1>1. Len(q) \in Nat /\ Len(q) \in 0..Len(q) /\ DOMAIN q = 1..Len(q)
  BY AppendIsSeq
<1>2. Prefix(q, Len(q)) = q
  <2>1. PICK S : q \in Seq(S)
    BY DEF IsSeq
  <2> QED
    BY <2>1 DEF Prefix
<1>3. IsSeq(b.full) /\ IsSeq(b.last) /\ \A f : Batch(b, f) <=> \E i \in 1..Len(q) : q[i] = f
  BY <1>1, <1>2, BatchesHaveAll
<1>4. p = IF b.last = <<>> THEN b.full ELSE Append(b.full, b.last)
  BY BatchPathsAre
<1> HIDE DEF p, b
<1>5. \A f : f \in Range(q) <=> Batch(b, f)
  BY <1>1, <1>3 DEF Range
<1>6. CASE b.last = <<>>
  <2>1. DOMAIN b.last = {}
    BY <1>6
  <2>2. Range(b.last) = {}
    BY <2>1 DEF Range
  <2> QED
    BY <1>3, <1>4, <1>5, <1>6, <2>2 DEF Batch, p
<1>7. CASE b.last # <<>>
  <2>1. p = Append(b.full, b.last)
    BY <1>4, <1>7
  <2>2. /\ IsSeq(p) /\ DOMAIN p = 1..(Len(b.full) + 1) /\ DOMAIN b.full = 1..Len(b.full)
        /\ Len(b.full) \in Nat /\ \A i \in 1..Len(b.full) : p[i] = b.full[i]
        /\ p[Len(b.full) + 1] = b.last
    BY <1>3, <2>1, AppendIsSeq
  <2>3. \A i \in 1..(Len(b.full) + 1) : i \in 1..Len(b.full) \/ i = Len(b.full) + 1
    BY <2>2
  <2>4. Len(b.full) + 1 \in 1..(Len(b.full) + 1) /\ \A i \in 1..Len(b.full) : i \in 1..(Len(b.full) + 1)
    BY <2>2
  <2> QED
    BY <1>5, <2>2, <2>3, <2>4 DEF Batch, p
<1> QED
  BY <1>6, <1>7

\* Every session that is admitted is to be searched.
LEMMA SearchReads ==
  ASSUME NEW W, Sound(W), NEW r, Reader(W, r), r.at = "answering", r.job.what = "grep",
         NEW b, b = BatchPaths(Newest(r, Admitted(r)))
  PROVE  Reader(W, [r EXCEPT !.at = "searching", !.batches = b])
<1> DEFINE s == [r EXCEPT !.at = "searching", !.batches = b]
           q == Newest(r, Admitted(r))
<1>0. /\ Fields(r) /\ Table(W, r.cache) /\ Table(W, r.next) /\ Looked(W, r) /\ Covers(W, r)
      /\ r.account = NoAccount /\ r.job \in Jobs /\ Told(r) /\ r.asked = <<>> /\ r.turns = <<>>
      /\ r.hits = {}
  BY ToldReads DEF Reader, Reading, Asked, Quiet, Answering
<1>1. /\ Fields(s) /\ s.at = "searching" /\ s.next = r.next /\ s.job = r.job /\ s.cache = r.cache
      /\ s.refs = r.refs /\ s.todo = r.todo /\ s.account = r.account /\ s.began = r.began
      /\ s.asked = r.asked /\ s.turns = r.turns /\ s.batches = b /\ s.hits = r.hits
  BY <1>0, FieldsAre
<1> HIDE DEF s
<1>2. Admitted(r) \in SUBSET DOMAIN r.next
  BY DEF Admitted
<1>3. q \in Seq(Admitted(r)) /\ Range(q) = Admitted(r)
  BY <1>0, <1>2, TimesDiffer, TableIsFinite, NewestIs
<1>4. IsSeq(q)
  BY <1>3 DEF IsSeq
<1> HIDE DEF q
<1>5. IsSeq(b) /\ \A f : f \in Admitted(r) <=> \E i \in DOMAIN b : f \in Range(b[i])
  BY <1>3, <1>4, BatchPathsHaveAll DEF q
<1>6. Admitted(s) = Admitted(r) /\ RestedIn(W, s) = RestedIn(W, r)
  BY <1>1 DEF Admitted, RestedIn
<1>7. Searches(W, s)
  <2>1. \A i \in DOMAIN b : Range(b[i]) \subseteq Admitted(r)
    BY <1>5
  <2>2. \A f \in RestedIn(W, r) : Admits(r.job, PresentIn(W, f)) => f \in Admitted(r)
    BY <1>0, RestedIsPresent DEF Admitted
  <2> QED
    BY <1>0, <1>1, <1>5, <1>6, <2>1, <2>2 DEF Searches
<1>8. Looked(W, s) /\ Reading(W, s) /\ Answered(W, s) /\ Asked(s)
  BY <1>0, <1>1 DEF Looked, Reading, Answered, Asked, Quiet
<1>9. Covers(W, s)
  BY <1>0, <1>1 DEF Covers, Told, Answering
<1>10. Reader(W, s)
  BY <1>0, <1>1, <1>7, <1>8, <1>9 DEF Reader
<1> QED
  BY <1>10 DEF s

LEMMA TailIs ==
  ASSUME NEW q, IsSeq(q), q # <<>>
  PROVE  /\ IsSeq(Tail(q)) /\ 1 \in DOMAIN q /\ Head(q) = q[1]
         /\ \A i \in DOMAIN Tail(q) : i + 1 \in DOMAIN q /\ Tail(q)[i] = q[i + 1]
         /\ \A i \in DOMAIN q : i # 1 => i - 1 \in DOMAIN Tail(q) /\ Tail(q)[i - 1] = q[i]
<1>1. PICK S : q \in Seq(S)
  BY DEF IsSeq
<1>2. Tail(q) \in Seq(S) /\ 1 \in DOMAIN q /\ Head(q) = q[1]
  BY <1>1
<1>3. IsSeq(Tail(q))
  BY <1>2 DEF IsSeq
<1>4. /\ \A i \in DOMAIN Tail(q) : i + 1 \in DOMAIN q /\ Tail(q)[i] = q[i + 1]
      /\ \A i \in DOMAIN q : i # 1 => i - 1 \in DOMAIN Tail(q) /\ Tail(q)[i - 1] = q[i]
  BY <1>1
<1> QED
  BY <1>2, <1>3, <1>4

\* A batch is scanned as it is now.
LEMMA ScanReads ==
  ASSUME NEW W, Sound(W), NEW r, Reader(W, r), r.at = "searching", r.batches # <<>>,
         NEW hits, hits = {f \in Range(Head(r.batches)) : MentionsIn(W, f)}
  PROVE  Reader(W, [r EXCEPT !.batches = Tail(@), !.hits = @ \cup hits])
<1> DEFINE b == Tail(r.batches)
           h == r.hits \cup hits
           s == [r EXCEPT !.batches = b, !.hits = h]
<1>0. /\ Fields(r) /\ Table(W, r.cache) /\ Table(W, r.next) /\ Looked(W, r) /\ Covers(W, r)
      /\ r.account = NoAccount /\ r.job \in Jobs /\ Searches(W, r) /\ r.asked = <<>> /\ r.turns = <<>>
  BY DEF Reader, Reading, Asked, Quiet
<1> HIDE DEF b, h
<1>1. /\ Fields(s) /\ s.at = "searching" /\ s.next = r.next /\ s.job = r.job /\ s.cache = r.cache
      /\ s.refs = r.refs /\ s.todo = r.todo /\ s.account = r.account /\ s.began = r.began
      /\ s.asked = r.asked /\ s.turns = r.turns /\ s.batches = b /\ s.hits = h
  BY <1>0, FieldsAre
<1> HIDE DEF s
<1>2. Admitted(s) = Admitted(r) /\ RestedIn(W, s) = RestedIn(W, r)
  BY <1>1 DEF Admitted, RestedIn
<1>3. /\ r.job.what = "grep" /\ IsSeq(r.batches)
      /\ \A i \in DOMAIN r.batches : Range(r.batches[i]) \subseteq Admitted(r)
      /\ r.hits \subseteq Admitted(r) /\ \A f \in r.hits : MentionsIn(W, f)
      /\ \A f \in RestedIn(W, r) :
           Admits(r.job, PresentIn(W, f)) /\ MentionsIn(W, f) =>
             f \in r.hits \/ \E i \in DOMAIN r.batches : f \in Range(r.batches[i])
  BY <1>0 DEF Searches
<1>4. /\ IsSeq(b) /\ 1 \in DOMAIN r.batches /\ Head(r.batches) = r.batches[1]
      /\ \A i \in DOMAIN b : i + 1 \in DOMAIN r.batches /\ b[i] = r.batches[i + 1]
      /\ \A i \in DOMAIN r.batches : i # 1 => i - 1 \in DOMAIN b /\ b[i - 1] = r.batches[i]
  BY <1>3, TailIs DEF b
<1>5. \A i \in DOMAIN b : Range(b[i]) \subseteq Admitted(r)
  BY <1>3, <1>4
<1>6. h \subseteq Admitted(r) /\ \A f \in h : MentionsIn(W, f)
  BY <1>3, <1>4 DEF h
<1>7. ASSUME NEW f \in RestedIn(W, r), Admits(r.job, PresentIn(W, f)), MentionsIn(W, f)
      PROVE  f \in h \/ \E i \in DOMAIN b : f \in Range(b[i])
  <2>1. CASE f \in r.hits
    BY <2>1 DEF h
  <2>2. ASSUME NEW i \in DOMAIN r.batches, f \in Range(r.batches[i])
        PROVE  f \in h \/ \E j \in DOMAIN b : f \in Range(b[j])
    <3>1. CASE i = 1
      BY <1>4, <1>7, <2>2, <3>1 DEF h
    <3>2. CASE i # 1
      BY <1>4, <2>2, <3>2
    <3> QED
      BY <3>1, <3>2
  <2> QED
    BY <1>3, <1>7, <2>1, <2>2
<1>8. Searches(W, s)
  BY <1>1, <1>2, <1>3, <1>4, <1>5, <1>6, <1>7 DEF Searches
<1>9. Looked(W, s) /\ Reading(W, s) /\ Answered(W, s) /\ Asked(s)
  BY <1>0, <1>1 DEF Looked, Reading, Answered, Asked, Quiet
<1>10. Covers(W, s)
  BY <1>0, <1>1 DEF Covers, Told, Answering
<1>11. Reader(W, s)
  BY <1>0, <1>1, <1>8, <1>9, <1>10 DEF Reader
<1> QED
  BY <1>11 DEF s, b, h

\* A command that fails says nothing.
LEMMA FailReads ==
  ASSUME NEW W, NEW r, Reader(W, r), r.at # "reading", r.at # "idle",
         NEW s, Fields(s), s.at = "failed", s.next = r.next, s.job = r.job, s.cache = r.cache,
         s.refs = r.refs, s.todo = r.todo, s.account = r.account, s.began = r.began
  PROVE  Reader(W, s)
<1>0. /\ Table(W, r.cache) /\ Table(W, r.next) /\ Looked(W, r) /\ Covers(W, r)
      /\ r.account = NoAccount /\ r.job \in Jobs
  BY DEF Reader, Reading, Asked
<1>1. Table(W, s.cache) /\ Table(W, s.next) /\ Looked(W, s) /\ Reading(W, s)
  BY <1>0 DEF Looked, Reading
<1>2. Searches(W, s) /\ Answered(W, s) /\ Asked(s)
  BY <1>0 DEF Searches, Answered, Asked, Quiet
<1>3. Covers(W, s)
  BY <1>0 DEF Covers, Told, Answering
<1> QED
  BY <1>1, <1>2, <1>3 DEF Reader

LEMMA LostReads ==
  ASSUME NEW W, NEW r, Reader(W, r), r.at = "searching"
  PROVE  Reader(W, [Done(r, <<>>) EXCEPT !.at = "failed"])
<1> DEFINE d == Done(r, <<>>)
           s == [d EXCEPT !.at = "failed"]
<1>0. Fields(r)
  BY ToldReads
<1>1. /\ Fields(d) /\ d.next = r.next /\ d.job = r.job /\ d.cache = r.cache
      /\ d.refs = r.refs /\ d.todo = r.todo /\ d.account = r.account /\ d.began = r.began
  BY <1>0, DoneFields
<1> HIDE DEF d
<1>2. /\ Fields(s) /\ s.at = "failed" /\ s.next = d.next /\ s.job = d.job /\ s.cache = d.cache
      /\ s.refs = d.refs /\ s.todo = d.todo /\ s.account = d.account /\ s.began = d.began
  BY <1>1, FieldsAre
<1> HIDE DEF s
<1>3. Reader(W, s)
  BY <1>1, <1>2, FailReads
<1> QED
  BY <1>3 DEF s, d

----------------------------------------------------------------------------
(* A conversation.                                                         *)

LEMMA FocusIs ==
  ASSUME NEW r, NEW window, IsSeq(window), NEW focus, focus = FocusOf(r, window)
  PROVE  LET named == {f \in Range(window) : r.job.needle # <<>> /\ IsPrefix(r.job.needle, IdOf[f])}
         IN IF named = {} THEN focus = NoFile ELSE focus \in named
<1> DEFINE places == {i \in DOMAIN window : IsPrefix(r.job.needle, IdOf[window[i]])}
           named  == {f \in Range(window) : r.job.needle # <<>> /\ IsPrefix(r.job.needle, IdOf[f])}
<1>1. focus = IF r.job.needle = <<>> \/ places = {} THEN NoFile
              ELSE window[CHOOSE i \in places : \A j \in places : i <= j]
  BY DEF FocusOf
<1>2. \A i \in places : r.job.needle # <<>> => window[i] \in named
  BY DEF Range
<1>3. r.job.needle = <<>> \/ places = {} => named = {}
  BY DEF Range
<1>4. places # {} => \E i \in places : \A j \in places : i <= j
  <2>1. DOMAIN window \subseteq Nat
    <3>1. DOMAIN window = 1..Len(window) /\ Len(window) \in Nat
      BY AppendIsSeq
    <3> QED
      BY <3>1
  <2>2. places \subseteq Nat
    BY <2>1
  <2> HIDE DEF places
  <2> QED
    BY <2>2, Least
<1> HIDE DEF places, named
<1>5. CASE r.job.needle = <<>> \/ places = {}
  BY <1>1, <1>3, <1>5 DEF named
<1>6. CASE ~(r.job.needle = <<>> \/ places = {})
  <2>1. (CHOOSE i \in places : \A j \in places : i <= j) \in places
    BY <1>4, <1>6
  <2>2. focus \in named
    BY <1>1, <1>2, <1>6, <2>1
  <2> QED
    BY <2>2 DEF named
<1> QED
  BY <1>5, <1>6

\* What it knows is gathered once, and no question has been put.
LEMMA GatherReads ==
  ASSUME NEW W, Sound(W), NEW r, Reader(W, r), r.at = "answering", r.job.what = "ask",
         NEW window, window = Limited(Newest(r, Admitted(r)), r.job.limit),
         NEW focus, focus = FocusOf(r, window)
  PROVE  Reader(W, [r EXCEPT !.at = "asking", !.answer = window, !.focus = focus])
<1> DEFINE s == [r EXCEPT !.at = "asking", !.answer = window, !.focus = focus]
<1>0. /\ Fields(r) /\ Table(W, r.cache) /\ Table(W, r.next) /\ Looked(W, r) /\ Covers(W, r)
      /\ r.account = NoAccount /\ r.job \in Jobs /\ Told(r) /\ r.asked = <<>> /\ r.turns = <<>>
  BY ToldReads DEF Reader, Reading, Asked, Quiet, Answering
<1>1. /\ Fields(s) /\ s.at = "asking" /\ s.next = r.next /\ s.job = r.job /\ s.cache = r.cache
      /\ s.refs = r.refs /\ s.todo = r.todo /\ s.account = r.account /\ s.began = r.began
      /\ s.asked = r.asked /\ s.turns = r.turns /\ s.answer = window /\ s.focus = focus
  BY <1>0, FieldsAre
<1> HIDE DEF s
<1>2. AnswersIn(W, s) /\ IsSeq(s.answer)
  <2>1. \A f \in RestedIn(W, r) :
          Admits(r.job, PresentIn(W, f)) /\ (r.job.what = "grep" => MentionsIn(W, f)) => f \in Admitted(r)
    BY <1>0, RestedIsPresent DEF Admitted
  <2> QED
    BY <1>0, <1>1, <2>1, WindowAnswers
<1>3. AsksIn(s)
  <2>1. LET named == {f \in Range(window) : r.job.needle # <<>> /\ IsPrefix(r.job.needle, IdOf[f])}
        IN IF named = {} THEN focus = NoFile ELSE focus \in named
    BY <1>1, <1>2, FocusIs
  <2>2. DOMAIN s.asked = {} /\ DOMAIN s.turns = {}
    BY <1>0, <1>1
  <2>3. ToSet(s.turns) = {i \in DOMAIN s.asked : s.asked[i]}
    BY <2>2 DEF ToSet
  <2>4. \A i, j \in DOMAIN s.turns : i < j => s.turns[i] < s.turns[j]
    BY <2>2
  <2>5. Asks(s)
    BY <1>1, <2>1, <2>3, <2>4 DEF Asks, Shown
  <2> QED
    BY <1>0, <1>1, <2>5, NothingIsSeq DEF AsksIn
<1>4. Looked(W, s) /\ Reading(W, s) /\ Searches(W, s) /\ Answered(W, s) /\ Asked(s)
  BY <1>0, <1>1, <1>2, <1>3 DEF Looked, Reading, Searches, Answered, Asked, Quiet
<1>5. Covers(W, s)
  BY <1>0, <1>1 DEF Covers, Told, Answering
<1>6. Reader(W, s)
  BY <1>0, <1>1, <1>4, <1>5 DEF Reader
<1> QED
  BY <1>6 DEF s

\* A process that stays in its conversation, or leaves it with what it has.
LEMMA TalkReads ==
  ASSUME NEW W, NEW r, Reader(W, r), r.at = "asking",
         NEW s, Fields(s), s.at \in {"asking", "done"}, s.next = r.next, s.job = r.job,
         s.cache = r.cache, s.refs = r.refs, s.todo = r.todo, s.account = r.account,
         s.began = r.began, s.answer = r.answer, AsksIn(s)
  PROVE  Reader(W, s)
<1>0. /\ Table(W, r.cache) /\ Table(W, r.next) /\ Looked(W, r) /\ Covers(W, r)
      /\ r.account = NoAccount /\ r.job \in Jobs /\ r.job.what = "ask" /\ AnswersIn(W, r)
  BY DEF Reader, Reading, Asked, Answered
<1>1. Table(W, s.cache) /\ Table(W, s.next) /\ Looked(W, s) /\ Reading(W, s)
  BY <1>0 DEF Looked, Reading
<1>2. AnswersIn(W, s)
  <2>1. Shown(s) = Shown(r) /\ RestedIn(W, s) = RestedIn(W, r)
        /\ \A f : CrowdedIn(W, s, f) <=> CrowdedIn(W, r, f)
    BY DEF Shown, RestedIn, CrowdedIn
  <2> QED
    BY <1>0, <2>1 DEF AnswersIn
<1>3. Searches(W, s) /\ Answered(W, s) /\ Asked(s)
  BY <1>0, <1>2 DEF Searches, Answered, Asked, Quiet
<1>4. Covers(W, s)
  BY <1>0 DEF Covers, Told, Answering
<1> QED
  BY <1>1, <1>3, <1>4 DEF Reader

\* A question that is answered is the last to be remembered.
LEMMA QuestionAsks ==
  ASSUME NEW r, AsksIn(r), NEW answered \in BOOLEAN,
         NEW s, s.job = r.job, s.answer = r.answer, s.focus = r.focus,
         s.asked = Append(r.asked, answered),
         s.turns = IF answered THEN Append(r.turns, Len(r.asked) + 1) ELSE r.turns
  PROVE  AsksIn(s)
<1> DEFINE n == Len(r.asked)
           k == Len(r.turns)
<1>1. /\ Asks(r) /\ IsSeq(r.asked) /\ IsSeq(r.turns)
      /\ ToSet(r.turns) = {i \in DOMAIN r.asked : r.asked[i]}
      /\ \A i, j \in DOMAIN r.turns : i < j => r.turns[i] < r.turns[j]
  BY DEF AsksIn, Asks
<1>2. /\ IsSeq(s.asked) /\ n \in Nat /\ DOMAIN r.asked = 1..n /\ DOMAIN s.asked = 1..(n + 1)
      /\ \A i \in 1..n : s.asked[i] = r.asked[i]
      /\ s.asked[n + 1] = answered
  BY <1>1, AppendIsSeq
<1>3. \A i \in DOMAIN r.turns : r.turns[i] \in 1..n
  BY <1>1, <1>2 DEF ToSet
<1>4. (n + 1 \in 1..(n + 1)) /\ \A i \in 1..(n + 1) : i \in 1..n \/ i = n + 1
  BY <1>2
<1>5. \A i \in 1..n : i \in 1..(n + 1)
  BY <1>2
<1>6. CASE ~answered
  <2>1. {i \in DOMAIN s.asked : s.asked[i]} = {i \in DOMAIN r.asked : r.asked[i]}
    BY <1>2, <1>4, <1>5, <1>6
  <2>2. s.turns = r.turns
    BY <1>6
  <2>3. Asks(s)
    BY <1>1, <2>1, <2>2 DEF Asks, Shown
  <2> QED
    BY <1>1, <1>2, <2>2, <2>3 DEF AsksIn
<1>7. CASE answered
  <2>1. s.turns = Append(r.turns, n + 1)
    BY <1>7
  <2>2. /\ IsSeq(s.turns) /\ k \in Nat /\ DOMAIN r.turns = 1..k /\ DOMAIN s.turns = 1..(k + 1)
        /\ \A i \in 1..k : s.turns[i] = r.turns[i]
        /\ s.turns[k + 1] = n + 1
    BY <1>1, <2>1, AppendIsSeq
  <2> HIDE DEF n, k
  <2>3. (k + 1 \in 1..(k + 1)) /\ \A i \in 1..(k + 1) : i \in 1..k \/ i = k + 1
    BY <2>2
  <2>4. \A i \in 1..k : i \in 1..(k + 1)
    BY <2>2
  <2>5. ToSet(s.turns) = ToSet(r.turns) \cup {n + 1}
    BY <2>2, <2>3, <2>4 DEF ToSet
  <2>6. {i \in DOMAIN s.asked : s.asked[i]} = {i \in DOMAIN r.asked : r.asked[i]} \cup {n + 1}
    BY <1>2, <1>4, <1>5, <1>7
  <2>7. ASSUME NEW i \in DOMAIN s.turns, NEW j \in DOMAIN s.turns, i < j
        PROVE  s.turns[i] < s.turns[j]
    <3>1. i \in 1..k
      BY <2>2, <2>7
    <3>2. CASE j \in 1..k
      BY <1>1, <2>2, <2>7, <3>1, <3>2
    <3>3. CASE j = k + 1
      <4>1. r.turns[i] \in 1..n
        BY <1>3, <2>2, <3>1
      <4> QED
        BY <1>2, <2>2, <3>1, <3>3, <4>1
    <3> QED
      BY <2>2, <2>3, <3>2, <3>3
  <2>8. Asks(s)
    BY <1>1, <2>5, <2>6, <2>7 DEF Asks, Shown
  <2> QED
    BY <1>2, <2>2, <2>8 DEF AsksIn
<1> QED
  BY <1>6, <1>7

----------------------------------------------------------------------------
(* The invariant of the commands.                                          *)

Now(w) == Moment(w, clock, mtime, text, linked)

Serving(W) ==
  /\ Sound(W) /\ Table(W, index) /\ DOMAIN proc = Users /\ \A u \in Users : Reader(W, proc[u])

Served == \E w : Serving(Now(w))

LEMMA NowIs ==
  ASSUME NEW w
  PROVE  /\ Now(w).own = w /\ Now(w).clock = clock /\ Now(w).mtime = mtime
         /\ Now(w).text = text /\ Now(w).linked = linked
BY DEF Now, Moment

LEMMA InitIsServed ==
  ASSUME Init
  PROVE  Served
<1> DEFINE w == [i \in {} |-> NoFile]
           W == Now(w)
<1>1. 1..0 = {} /\ clock = 0 /\ linked = {}
  BY DEF Init
<1>2. W.own = w /\ W.clock = 0 /\ W.mtime = mtime /\ W.text = text /\ W.linked = {}
  BY <1>1, NowIs
<1>3. w \in [1..0 -> Files]
  BY <1>1
<1> HIDE DEF W, w
<1>4. \A f \in Files : text[f] = <<>> /\ mtime[f] = 0
  BY DEF Init
<1>5. \A f \in Files : IsSeq(text[f]) /\ DOMAIN text[f] = {}
  BY <1>4, NothingIsSeq
<1>6. FilesIn(0, mtime, text, {})
  <2>1. mtime \in [Files -> Nat] /\ DOMAIN text = Files
    BY DEF Init
  <2> QED
    BY <1>4, <1>5, <2>1 DEF FilesIn
<1>7. Sound(W)
  BY <1>2, <1>3, <1>4, <1>5, <1>6 DEF Sound
<1>8. Table(W, index) /\ DOMAIN proc = Users /\ \A u \in Users : Reader(W, proc[u])
  BY NothingIsTable, IdleReads DEF Init
<1>9. Serving(W)
  BY <1>7, <1>8 DEF Serving
<1> QED
  BY <1>9 DEF Served, W

\* A step of the files is to a later moment, at which all hold what they held.
LEMMA LaterServes ==
  ASSUME NEW W, NEW V, Later(W, V), Serving(W), UNCHANGED <<index, proc>>
  PROVE  /\ Sound(V) /\ Table(V, index') /\ DOMAIN proc' = Users
         /\ \A u \in Users : Reader(V, proc'[u])
<1>1. Table(V, index) /\ \A u \in Users : Reader(V, proc[u])
  BY TableStays, ReaderStays DEF Serving
<1> QED
  BY <1>1 DEF Later, Serving

LEMMA WriteServes ==
  ASSUME Served, NEW f \in Files, Write(f)
  PROVE  Served'
<1>1. PICK w : Serving(Now(w))
  BY DEF Served
<1> DEFINE W == Now(w)
           v == [i \in 1..clock' |-> IF i = clock' THEN f ELSE w[i]]
           V == Moment(v, clock', mtime', text', linked')
<1>2. W.own = w /\ W.clock = clock /\ W.mtime = mtime /\ W.text = text /\ W.linked = linked
  BY NowIs
<1>3. V.own = v /\ V.clock = clock' /\ V.mtime = mtime' /\ V.text = text' /\ V.linked = linked'
  BY DEF Moment
<1>4. Serving(W) /\ Sound(W)
  BY <1>1 DEF Serving
<1> HIDE DEF W, V
<1>5. FilesIn(clock, mtime, text, linked)
  BY <1>2, <1>4 DEF Sound
<1>6. /\ FilesIn(clock', mtime', text', linked')
      /\ Grown(mtime, text, linked, mtime', text', linked')
      /\ clock' = clock + 1 /\ mtime' = [mtime EXCEPT ![f] = clock']
      /\ \A g \in Files : g # f => text'[g] = text[g]
      /\ \A i \in DOMAIN text'[f] :
           (i \in DOMAIN text[f] /\ text'[f][i] = text[f][i]) \/ text'[f][i].at = clock'
  BY <1>5, WriteGrows
<1>7. clock \in Nat /\ clock' \in Nat /\ clock' \in 1..clock' /\ \A i \in 1..clock : i \in 1..clock' /\ i # clock'
  BY <1>5, <1>6 DEF FilesIn
<1>8. w \in [1..clock -> Files]
  BY <1>2, <1>4 DEF Sound
<1>9. v[clock'] = f /\ \A i \in 1..clock : v[i] = w[i]
  BY <1>7
<1>10. v \in [1..clock' -> Files]
  <2>1. \A i \in 1..clock' : i = clock' \/ i \in 1..clock
    BY <1>6, <1>7
  <2> QED
    BY <1>8, <2>1
<1> HIDE DEF v
<1>11. ASSUME NEW g \in Files, mtime'[g] > 0
       PROVE  v[mtime'[g]] = g
  <2>1. CASE g = f
    BY <1>5, <1>6, <1>9, <2>1 DEF FilesIn
  <2>2. CASE g # f
    <3>1. mtime'[g] = mtime[g] /\ mtime[g] \in 1..clock
      BY <1>5, <1>6, <1>11, <2>2 DEF FilesIn
    <3>2. w[mtime[g]] = g
      BY <1>2, <1>4, <1>11, <3>1 DEF Sound
    <3> QED
      BY <1>9, <3>1, <3>2
  <2> QED
    BY <2>1, <2>2
<1>12. ASSUME NEW g \in Files, NEW i \in DOMAIN text[g]
       PROVE  v[text[g][i].at] = g
  <2>1. text[g][i].at \in 1..clock
    <3>1. text[g][i].at \in 1..mtime[g] /\ mtime[g] <= clock /\ mtime[g] \in Nat /\ clock \in Nat
      BY <1>5 DEF FilesIn
    <3> QED
      BY <3>1
  <2>2. w[text[g][i].at] = g
    BY <1>2, <1>4 DEF Sound
  <2> QED
    BY <1>9, <2>1, <2>2
<1>13. ASSUME NEW g \in Files, NEW i \in DOMAIN text'[g]
       PROVE  v[text'[g][i].at] = g
  <2>1. CASE g # f
    BY <1>6, <1>12, <2>1
  <2>2. CASE g = f
    BY <1>6, <1>9, <1>12, <2>2
  <2> QED
    BY <2>1, <2>2
<1>14. Sound(V)
  BY <1>3, <1>6, <1>10, <1>11, <1>13 DEF Sound
<1>15. Later(W, V)
  BY <1>2, <1>3, <1>4, <1>6, <1>7, <1>9, <1>14 DEF Later
<1>16. UNCHANGED <<index, proc>>
  BY DEF Write
<1>17. /\ Sound(V) /\ Table(V, index') /\ DOMAIN proc' = Users
       /\ \A u \in Users : Reader(V, proc'[u])
  BY <1>4, <1>15, <1>16, LaterServes
<1> QED
  BY <1>17 DEF Served, Serving, Now, V

LEMMA VanishServes ==
  ASSUME Served, NEW f \in Files, Vanish(f)
  PROVE  Served'
<1>1. PICK w : Serving(Now(w))
  BY DEF Served
<1> DEFINE W == Now(w)
           V == Moment(w, clock', mtime', text', linked')
<1>2. W.own = w /\ W.clock = clock /\ W.mtime = mtime /\ W.text = text /\ W.linked = linked
  BY NowIs
<1>3. V.own = w /\ V.clock = clock' /\ V.mtime = mtime' /\ V.text = text' /\ V.linked = linked'
  BY DEF Moment
<1>4. Serving(W) /\ Sound(W)
  BY <1>1 DEF Serving
<1> HIDE DEF W, V
<1>5. FilesIn(clock, mtime, text, linked)
  BY <1>2, <1>4 DEF Sound
<1>6. linked' \subseteq linked /\ UNCHANGED <<clock, text, mtime>> /\ UNCHANGED <<index, proc>>
  BY DEF Vanish
<1>7. FilesIn(clock', mtime', text', linked') /\ Grown(mtime, text, linked, mtime', text', linked')
  BY <1>5, <1>6, FilesStay
<1>8. Sound(V)
  BY <1>2, <1>3, <1>4, <1>6, <1>7 DEF Sound
<1>9. Later(W, V)
  <2>1. clock <= clock
    BY <1>5 DEF FilesIn
  <2> QED
    BY <1>2, <1>3, <1>4, <1>6, <1>7, <1>8, <2>1 DEF Later
<1>10. /\ Sound(V) /\ Table(V, index') /\ DOMAIN proc' = Users
       /\ \A u \in Users : Reader(V, proc'[u])
  BY <1>4, <1>6, <1>9, LaterServes
<1> QED
  BY <1>10 DEF Served, Serving, Now, V

\* A step of a process.
LEMMA PutServes ==
  ASSUME NEW w, Serving(Now(w)), UNCHANGED files, NEW u \in Users, NEW r, Put(u, r),
         Reader(Now(w), r), index' = index \/ Table(Now(w), index')
  PROVE  Served'
<1>1. Now(w)' = Now(w)
  BY DEF Now, Moment, files
<1> DEFINE W == Now(w)
<1>2. Sound(W) /\ Table(W, index) /\ DOMAIN proc = Users /\ \A v \in Users : Reader(W, proc[v])
  BY DEF Serving
<1>3. Table(W, index')
  BY <1>2
<1>4. DOMAIN proc' = Users /\ \A v \in Users : proc'[v] = IF v = u THEN r ELSE proc[v]
  BY <1>2 DEF Put
<1>5. W' = W
  BY <1>1
<1> HIDE DEF W
<1>6. \A v \in Users : Reader(W, proc'[v])
  BY <1>2, <1>4 DEF W
<1>7. /\ Sound(Now(w)') /\ Table(Now(w)', index') /\ DOMAIN proc' = Users
      /\ \A v \in Users : Reader(Now(w)', proc'[v])
  BY <1>1, <1>2, <1>3, <1>4, <1>6 DEF W
<1> QED
  BY <1>7 DEF Served, Serving

LEMMA ProcReads ==
  ASSUME NEW w, Serving(Now(w)), NEW u \in Users
  PROVE  /\ Sound(Now(w)) /\ Table(Now(w), index) /\ Reader(Now(w), proc[u]) /\ Fields(proc[u])
         /\ Now(w).mtime = mtime /\ Now(w).text = text /\ Now(w).linked = linked
BY NowIs DEF Serving, Reader

LEMMA StartServes ==
  ASSUME NEW w, Serving(Now(w)), NEW u \in Users, NEW job \in Jobs, Start(u, job)
  PROVE  Served'
<1> DEFINE W     == Now(w)
           began == [f \in linked |-> mtime[f]]
           r     == [Idle EXCEPT !.at = "loading", !.job = job, !.began = began]
<1>1. Sound(W) /\ began = [f \in W.linked |-> W.mtime[f]]
  BY ProcReads
<1>2. Put(u, r) /\ UNCHANGED files /\ index' = index
  BY DEF Start
<1> HIDE DEF W, began
<1>3. Reader(W, r)
  BY <1>1, StartReads
<1> HIDE DEF r
<1> QED
  BY <1>2, <1>3, PutServes DEF W

LEMMA LoadServes ==
  ASSUME NEW w, Serving(Now(w)), NEW u \in Users, Load(u)
  PROVE  Served'
<1> DEFINE W == Now(w)
           x == IF proc[u].job.what = "rebuild" THEN Empty ELSE index
           p == [proc[u] EXCEPT !.at = "answering", !.next = x]
           q == [proc[u] EXCEPT !.at = "finding", !.cache = x]
<1>1. Table(W, x) /\ Reader(W, proc[u])
  BY ProcReads, NothingIsTable
<1>2. /\ proc[u].at = "loading" /\ Put(u, IF proc[u].job.what = "paint" THEN p ELSE q)
      /\ UNCHANGED files /\ index' = index
  BY DEF Load, At
<1> HIDE DEF W, x
<1>3. (proc[u].job.what = "paint" => Reader(W, p)) /\ Reader(W, q)
  BY <1>1, <1>2, LoadReads
<1> HIDE DEF p, q
<1>4. CASE proc[u].job.what = "paint"
  BY <1>2, <1>3, <1>4, PutServes DEF W
<1>5. CASE proc[u].job.what # "paint"
  BY <1>2, <1>3, <1>5, PutServes DEF W
<1> QED
  BY <1>4, <1>5

LEMMA FindServes ==
  ASSUME NEW w, Serving(Now(w)), NEW u \in Users, Find(u)
  PROVE  Served'
<1> DEFINE W    == Now(w)
           refs == [f \in linked |-> mtime[f]]
           r    == [proc[u] EXCEPT !.at = "looking", !.refs = refs, !.todo = linked]
<1>1. /\ Sound(W) /\ Reader(W, proc[u]) /\ refs = [f \in W.linked |-> W.mtime[f]] /\ W.linked = linked
  BY ProcReads
<1>2. ClaudeFiles \cup CodexFiles = linked
  BY DEF ClaudeFiles, CodexFiles
<1>3. proc[u].at = "finding" /\ Put(u, r) /\ UNCHANGED files /\ index' = index
  BY <1>2 DEF Find, At
<1> HIDE DEF W, refs
<1>4. Reader(W, r)
  BY <1>1, <1>3, FindReads
<1> HIDE DEF r
<1> QED
  BY <1>3, <1>4, PutServes DEF W

LEMMA LookServes ==
  ASSUME NEW w, Serving(Now(w)), NEW u \in Users, NEW f \in Files, Look(u, f)
  PROVE  Served'
<1> DEFINE W == Now(w)
           r == proc[u]
           q == [r EXCEPT !.todo = @ \ {f}]
           s == With(q, f, q.cache[f])
           t == [q EXCEPT !.at = "reading", !.file = f]
<1>1. Sound(W) /\ Reader(W, r) /\ Fields(r) /\ W.linked = linked
  BY ProcReads
<1>2. /\ r.at = "looking" /\ f \in r.todo /\ UNCHANGED files /\ index' = index
      /\ Put(u, IF Hit(q, f) THEN s ELSE IF f \in linked THEN t ELSE q)
  BY DEF Look, At
<1> HIDE DEF W, r
<1>3. /\ Fields(q) /\ q.at = "looking" /\ q.next = r.next /\ q.job = r.job /\ q.cache = r.cache
      /\ q.refs = r.refs /\ q.todo = r.todo \ {f} /\ q.account = r.account /\ q.began = r.began
      /\ q.asked = r.asked /\ q.turns = r.turns /\ q.hits = r.hits
  BY <1>1, <1>2, FieldsAre
<1> HIDE DEF q
<1>4. /\ Hit(q, f) => Reader(W, s)
      /\ f \in W.linked => Reader(W, t)
      /\ f \notin W.linked => Reader(W, q)
  BY <1>1, <1>2, <1>3, LookReads
<1> HIDE DEF s, t
<1>5. CASE Hit(q, f)
  BY <1>2, <1>4, <1>5, PutServes DEF W
<1>6. CASE ~Hit(q, f) /\ f \in linked
  BY <1>1, <1>2, <1>4, <1>6, PutServes DEF W
<1>7. CASE ~Hit(q, f) /\ f \notin linked
  BY <1>1, <1>2, <1>4, <1>7, PutServes DEF W
<1> QED
  BY <1>5, <1>6, <1>7

LEMMA ReadServes ==
  ASSUME NEW w, Serving(Now(w)), NEW u \in Users, Read(u)
  PROVE  Served'
<1> DEFINE W == Now(w)
           r == proc[u]
           a == ReadLine(r.file \in Codex, r.account, text[r.file][r.account.lines + 1])
           s == [r EXCEPT !.account = a]
<1>1. Sound(W) /\ Reader(W, r) /\ W.text = text
  BY ProcReads
<1>2. /\ r.at = "reading" /\ r.account.lines < Len(text[r.file])
      /\ Put(u, s) /\ UNCHANGED files /\ index' = index
  BY DEF Read, Rest, At
<1>3. a = ReadLine(r.file \in Codex, r.account, W.text[r.file][r.account.lines + 1])
  BY <1>1
<1> HIDE DEF W, r, a
<1>4. Reader(W, s)
  BY <1>1, <1>2, <1>3, ReadReads
<1> HIDE DEF s
<1> QED
  BY <1>2, <1>4, PutServes DEF W

LEMMA ParsedServes ==
  ASSUME NEW w, Serving(Now(w)), NEW u \in Users, Parsed(u)
  PROVE  Served'
<1> DEFINE W == Now(w)
           r == proc[u]
           s == [With(r, r.file, EntryOf(r)) EXCEPT !.at = "looking", !.file = NoFile,
                                                    !.account = NoAccount]
<1>1. Sound(W) /\ Reader(W, r) /\ W.text = text
  BY ProcReads
<1>2. /\ r.at = "reading" /\ ~(r.account.lines < Len(text[r.file]))
      /\ Put(u, s) /\ UNCHANGED files /\ index' = index
  BY DEF Parsed, Rest, At
<1> HIDE DEF W, r
<1>3. Reader(W, s)
  BY <1>1, <1>2, ParsedReads
<1> HIDE DEF s
<1> QED
  BY <1>2, <1>3, PutServes DEF W

LEMMA SaveServes ==
  ASSUME NEW w, Serving(Now(w)), NEW u \in Users, Save(u)
  PROVE  Served'
<1> DEFINE W == Now(w)
           r == proc[u]
           s == [r EXCEPT !.at = "answering", !.cache = Empty, !.refs = Empty]
<1>1. Reader(W, r)
  BY ProcReads
<1>2. r.at = "looking" /\ r.todo = {} /\ Put(u, s) /\ UNCHANGED files /\ index' = r.next
  BY DEF Save, At
<1> HIDE DEF W, r
<1>3. Reader(W, s) /\ Table(W, r.next)
  BY <1>1, <1>2, SaveReads DEF Reader
<1> HIDE DEF s
<1> QED
  BY <1>2, <1>3, PutServes DEF W

\* List, Name, Rebuilt and Found end the command with an answer.
LEMMA AnswerServes ==
  ASSUME NEW w, Serving(Now(w)), NEW u \in Users, List(u) \/ Name(u) \/ Rebuilt(u) \/ Found(u)
  PROVE  Served'
<1> DEFINE W == Now(w)
           r == proc[u]
<1>1. Sound(W) /\ Reader(W, r)
  BY ProcReads
<1>2. UNCHANGED files /\ index' = index
  BY DEF List, Name, Rebuilt, Found
<1> HIDE DEF W
<1>3. \E s : Put(u, s) /\ Reader(W, s)
  <2>1. CASE List(u)
    BY <1>1, <2>1, ListReads DEF List, At
  <2>2. CASE Name(u)
    BY <1>1, <2>2, NameReads DEF Name, At
  <2>3. CASE Rebuilt(u)
    BY <1>1, <2>3, RebuiltReads DEF Rebuilt, At
  <2>4. CASE Found(u)
    BY <1>1, <2>4, FoundReads DEF Found, At
  <2> QED
    BY <2>1, <2>2, <2>3, <2>4
<1> QED
  BY <1>2, <1>3, PutServes DEF W

LEMMA SearchServes ==
  ASSUME NEW w, Serving(Now(w)), NEW u \in Users, Search(u)
  PROVE  Served'
<1> DEFINE W == Now(w)
           r == proc[u]
           b == BatchPaths(Newest(r, Admitted(r)))
           s == [r EXCEPT !.at = "searching", !.batches = b]
<1>1. Sound(W) /\ Reader(W, r)
  BY ProcReads
<1>2. /\ r.at = "answering" /\ r.job.what = "grep" /\ Put(u, s) /\ UNCHANGED files /\ index' = index
  BY DEF Search, At
<1> HIDE DEF W, r
<1>3. Reader(W, s)
  BY <1>1, <1>2, SearchReads
<1> HIDE DEF s
<1> QED
  BY <1>2, <1>3, PutServes DEF W

LEMMA ScanServes ==
  ASSUME NEW w, Serving(Now(w)), NEW u \in Users, Scan(u)
  PROVE  Served'
<1> DEFINE W == Now(w)
           r == proc[u]
           hits == {f \in Range(Head(r.batches)) : Mentions(f)}
           s == [r EXCEPT !.batches = Tail(@), !.hits = @ \cup hits]
           t == [Done(r, <<>>) EXCEPT !.at = "failed"]
<1>1. Sound(W) /\ Reader(W, r) /\ W.text = text
  BY ProcReads
<1>2. /\ r.at = "searching" /\ r.batches # <<>> /\ UNCHANGED files /\ index' = index
      /\ Put(u, s) \/ Put(u, t)
  BY DEF Scan, At
<1>3. hits = {f \in Range(Head(r.batches)) : MentionsIn(W, f)}
  BY <1>1 DEF Mentions, MentionsIn
<1> HIDE DEF W, r, hits
<1>4. Reader(W, s) /\ Reader(W, t)
  BY <1>1, <1>2, <1>3, ScanReads, LostReads
<1> HIDE DEF s, t
<1> QED
  BY <1>2, <1>4, PutServes DEF W

LEMMA GatherServes ==
  ASSUME NEW w, Serving(Now(w)), NEW u \in Users, Gather(u)
  PROVE  Served'
<1> DEFINE W == Now(w)
           r == proc[u]
           window == Limited(Newest(r, Admitted(r)), r.job.limit)
           focus == FocusOf(r, window)
           s == [r EXCEPT !.at = "asking", !.answer = window, !.focus = focus]
<1>1. Sound(W) /\ Reader(W, r)
  BY ProcReads
<1>2. /\ r.at = "answering" /\ r.job.what = "ask" /\ Put(u, s) /\ UNCHANGED files /\ index' = index
  BY DEF Gather, At
<1> HIDE DEF W, r
<1>3. Reader(W, s)
  BY <1>1, <1>2, GatherReads
<1> HIDE DEF s
<1> QED
  BY <1>2, <1>3, PutServes DEF W

LEMMA QuestionServes ==
  ASSUME NEW w, Serving(Now(w)), NEW u \in Users, NEW answered \in BOOLEAN, Question(u, answered)
  PROVE  Served'
<1> DEFINE W == Now(w)
           r == proc[u]
           asked == Append(r.asked, answered)
           turns == IF answered THEN Append(r.turns, Len(r.asked) + 1) ELSE r.turns
           s == [r EXCEPT !.asked = asked, !.turns = turns]
<1>1. Reader(W, r) /\ Fields(r)
  BY ProcReads
<1>2. r.at = "asking" /\ Put(u, s) /\ UNCHANGED files /\ index' = index
  BY DEF Question, At
<1> HIDE DEF W, r, asked, turns
<1>3. /\ Fields(s) /\ s.at = "asking" /\ s.next = r.next /\ s.job = r.job /\ s.cache = r.cache
      /\ s.refs = r.refs /\ s.todo = r.todo /\ s.account = r.account /\ s.began = r.began
      /\ s.answer = r.answer /\ s.focus = r.focus /\ s.asked = asked /\ s.turns = turns
  BY <1>1, <1>2, FieldsAre
<1> HIDE DEF s
<1>4. AsksIn(r)
  BY <1>1, <1>2 DEF Reader, Answered, Asked
<1>5. AsksIn(s)
  BY <1>3, <1>4, QuestionAsks DEF asked, turns
<1>6. Reader(W, s)
  BY <1>1, <1>2, <1>3, <1>5, TalkReads
<1> QED
  BY <1>2, <1>6, PutServes DEF W

LEMMA LeaveServes ==
  ASSUME NEW w, Serving(Now(w)), NEW u \in Users, Leave(u)
  PROVE  Served'
<1> DEFINE W == Now(w)
           r == proc[u]
           s == [r EXCEPT !.at = "done"]
           t == [r EXCEPT !.at = "failed"]
<1>1. Reader(W, r) /\ Fields(r)
  BY ProcReads
<1>2. r.at = "asking" /\ (Put(u, s) \/ Put(u, t))
  BY DEF Leave, At
<1>3. r.at = "asking" /\ UNCHANGED files /\ index' = index
  BY DEF Leave, At
<1> HIDE DEF W, r
<1>4. /\ Fields(s) /\ s.at = "done" /\ s.next = r.next /\ s.job = r.job /\ s.cache = r.cache
      /\ s.refs = r.refs /\ s.todo = r.todo /\ s.account = r.account /\ s.began = r.began
      /\ s.answer = r.answer /\ s.focus = r.focus /\ s.asked = r.asked /\ s.turns = r.turns
  BY <1>1, FieldsAre
<1>5. /\ Fields(t) /\ t.at = "failed" /\ t.next = r.next /\ t.job = r.job /\ t.cache = r.cache
      /\ t.refs = r.refs /\ t.todo = r.todo /\ t.account = r.account /\ t.began = r.began
  BY <1>1, FieldsAre
<1> HIDE DEF s, t
<1>6. AsksIn(s)
  <2>1. AsksIn(r)
    BY <1>1, <1>3 DEF Reader, Answered, Asked
  <2> QED
    BY <1>4, <2>1 DEF AsksIn, Asks, Shown
<1>7. Reader(W, s) /\ Reader(W, t)
  BY <1>1, <1>3, <1>4, <1>5, <1>6, TalkReads, FailReads
<1> QED
  BY <1>2, <1>3, <1>7, PutServes DEF W

LEMMA KillServes ==
  ASSUME NEW w, Serving(Now(w)), NEW u \in Users, Kill(u)
  PROVE  Served'
<1>1. Put(u, Idle) /\ UNCHANGED files /\ index' = index
  BY DEF Kill
<1> QED
  BY <1>1, IdleReads, PutServes

LEMMA NextServes ==
  ASSUME Served, [Next]_vars
  PROVE  Served'
<1>1. PICK w : Serving(Now(w))
  BY DEF Served
<1>2. ASSUME NEW f \in Files, Write(f) \/ Vanish(f)
      PROVE  Served'
  BY <1>2, WriteServes, VanishServes
<1>3. ASSUME NEW u \in Users, NEW job \in Jobs, Start(u, job)
      PROVE  Served'
  BY <1>1, <1>3, StartServes
<1>4. ASSUME NEW u \in Users, Step(u)
      PROVE  Served'
  BY <1>1, <1>4, LoadServes, FindServes, LookServes, ReadServes, ParsedServes, SaveServes, AnswerServes,
     SearchServes, ScanServes, GatherServes, QuestionServes, LeaveServes DEF Step
<1>5. ASSUME NEW u \in Users, Kill(u)
      PROVE  Served'
  BY <1>1, <1>5, KillServes
<1>6. CASE UNCHANGED vars
  <2>1. Now(w)' = Now(w) /\ index' = index /\ proc' = proc
    BY <1>6 DEF Now, Moment, vars, files
  <2> DEFINE W == Now(w)
  <2>2. Sound(W) /\ Table(W, index) /\ DOMAIN proc = Users /\ \A u \in Users : Reader(W, proc[u])
    BY <1>1 DEF Serving
  <2>3. W' = W
    BY <2>1
  <2> HIDE DEF W
  <2>4. Sound(W') /\ Table(W', index') /\ DOMAIN proc' = Users /\ \A u \in Users : Reader(W', proc'[u])
    BY <2>1, <2>2, <2>3
  <2> QED
    BY <2>4 DEF Served, Serving, W
<1> QED
  BY <1>2, <1>3, <1>4, <1>5, <1>6 DEF Next

----------------------------------------------------------------------------
(* The theorems.                                                           *)

LEMMA ServedIsCurrent ==
  ASSUME Served
  PROVE  IndexIsCurrent
<1>1. PICK w : Serving(Now(w))
  BY DEF Served
<1>2. FilesIn(clock, mtime, text, linked)
  BY <1>1, NowIs DEF Serving, Sound
<1>3. \A f \in DOMAIN index : f \in Files /\ EntryIn(mtime, text, f, index[f])
  BY <1>1, NowIs DEF Serving, Table
<1> QED
  BY <1>2, <1>3, EntryIsPresent DEF IndexIsCurrent, Present, ParseOf

\* An entry of the index that has the mtime of its transcript is what a new reading of it
\* says: a hit of the cache is never stale, whoever saved what meanwhile and however many
\* lines were written while a process read.
THEOREM IndexStaysCurrent == Spec => []IndexIsCurrent
<1>1. Init => Served
  BY InitIsServed
<1>2. Served /\ [Next]_vars => Served'
  BY NextServes
<1>3. Served => IndexIsCurrent
  BY ServedIsCurrent
<1> QED
  BY <1>1, <1>2, <1>3, PTL DEF Spec

LEMMA ReaderAnswers ==
  ASSUME NEW w, Serving(Now(w)), NEW u \in Users,
         proc[u].at \in {"asking", "done"}, proc[u].job.what # "paint"
  PROVE  /\ Answers(proc[u])
         /\ proc[u].job.what = "resume" => Resumes(proc[u])
         /\ proc[u].job.what = "ask" => Asks(proc[u])
<1> DEFINE W == Now(w)
           r == proc[u]
<1>1. /\ Sound(W) /\ Reader(W, r) /\ W.mtime = mtime /\ W.text = text /\ W.linked = linked
  BY ProcReads
<1> HIDE DEF W, r
<1>2. /\ Table(W, r.next) /\ Covers(W, r) /\ Told(r) /\ AnswersIn(W, r)
      /\ (r.job.what = "resume" => ResumesIn(W, r)) /\ (r.job.what = "ask" => AsksIn(r))
  BY <1>1 DEF Reader, Answered, Told, Answering, r
<1>3. Rested(r) = RestedIn(W, r)
  BY <1>1 DEF Rested, RestedIn
<1>4. /\ \A f : PresentIn(W, f) = Present(f) /\ (MentionsIn(W, f) <=> Mentions(f))
      /\ \A f : CrowdedIn(W, r, f) <=> Crowded(r, f)
  BY <1>1 DEF PresentIn, Present, ParseOf, MentionsIn, Mentions, CrowdedIn, Crowded
<1>5. ASSUME NEW f \in Shown(r)
      PROVE  OfItsTime(r, f)
  <2>1. f \in DOMAIN r.next
    BY <1>2 DEF AnswersIn
  <2>2. f \in Files /\ EntryIn(mtime, text, f, r.next[f])
    BY <1>1, <1>2, <2>1 DEF Table
  <2> DEFINE e == r.next[f]
  <2>3. e.mtime \in 1..mtime[f] /\ mtime[f] \in Nat
    BY <1>1, <2>2 DEF EntryIn, Sound, FilesIn
  <2>4. f \in DOMAIN r.began => r.began[f] <= e.mtime /\ r.began[f] \in 1..mtime[f]
    BY <1>1, <1>2, <2>1 DEF Covers
  <2>5. PICK n \in LenIn(text[f], e.mtime)..Len(text[f]) : e.record = ParseOf(f, e.mtime, Prefix(text[f], n))
    BY <2>2 DEF EntryIn
  <2>6. /\ n \in LenAt(f, e.mtime)..Len(text[f])
        /\ r.next[f].record = Parse(f \in Codex, f \in Subagents, e.mtime, Upto(f, n))
    BY <2>5 DEF LenIn, LenAt, ParseOf, Prefix, Upto
  <2>7. e.mtime \in (IF f \in DOMAIN r.began THEN r.began[f] ELSE 1)..mtime[f]
    BY <2>3, <2>4
  <2> HIDE DEF e
  <2> QED
    BY <2>6, <2>7 DEF OfItsTime
<1>6. Answers(r)
  BY <1>2, <1>3, <1>4, <1>5 DEF AnswersIn, Answers
<1>7. r.job.what = "resume" => Resumes(r)
  <2>1. ASSUME r.job.what = "resume"
        PROVE  Resumes(r)
    BY <1>2, <1>3, <2>1 DEF ResumesIn, Resumes
  <2> QED
    BY <2>1
<1> QED
  BY <1>2, <1>6, <1>7 DEF AsksIn, r

\* What a command answers is right for its own time, whatever is written, removed, saved
\* and pruned while it works: every session shown says what its transcript said at some
\* moment since the command began, the list is in order and complete but for its limit,
\* a search misses no session whose transcript lay still, and resume hands over the
\* session that was named and no other.
THEOREM AnswersHold == Spec => []AnswersAreOfTheirTime
<1>1. Init => Served
  BY InitIsServed
<1>2. Served /\ [Next]_vars => Served'
  BY NextServes
<1>3. Served => AnswersAreOfTheirTime
  BY ReaderAnswers DEF Served, AnswersAreOfTheirTime
<1> QED
  BY <1>1, <1>2, <1>3, PTL DEF Spec


----------------------------------------------------------------------------
(* Counting.  The lines of a kind are a set of positions.                  *)

Upon(M, n)     == {i \in 1..n : i \in M}
Count(M, n)    == Cardinality(Upon(M, n))
After(M, i, n) == Cardinality({j \in Upon(M, n) : j > i})

LEMMA CountGrows ==
  ASSUME NEW M, NEW n \in Nat
  PROVE  /\ IsFiniteSet(Upon(M, n)) /\ Count(M, n) \in Nat /\ Count(M, 0) = 0
         /\ Count(M, n + 1) = IF n + 1 \in M THEN Count(M, n) + 1 ELSE Count(M, n)
<1>1. IsFiniteSet(1..n)
  BY FS_Interval
<1>2. IsFiniteSet(Upon(M, n))
  BY <1>1, FS_Subset DEF Upon
<1>3. Upon(M, 0) = {}
  BY DEF Upon
<1>4. Count(M, 0) = 0
  BY <1>3, FS_EmptySet DEF Count
<1>5. n + 1 \notin Upon(M, n) /\ Upon(M, n + 1) = IF n + 1 \in M THEN Upon(M, n) \cup {n + 1} ELSE Upon(M, n)
  BY DEF Upon
<1>6. Cardinality(Upon(M, n) \cup {n + 1}) = Cardinality(Upon(M, n)) + 1
  BY <1>2, <1>5, FS_AddElement
<1>7. Count(M, n) \in Nat
  BY <1>2, FS_CardinalityType DEF Count
<1> QED
  BY <1>2, <1>4, <1>5, <1>6, <1>7 DEF Count

\* The lines up to i and those after it.
LEMMA CountSplits ==
  ASSUME NEW M, NEW n \in Nat, NEW i \in 0..n
  PROVE  After(M, i, n) \in Nat /\ Count(M, n) = Count(M, i) + After(M, i, n)
<1> DEFINE B == {j \in Upon(M, n) : j > i}
<1>1. i \in Nat /\ IsFiniteSet(Upon(M, i)) /\ IsFiniteSet(Upon(M, n))
  BY CountGrows
<1>2. IsFiniteSet(B)
  BY <1>1, FS_Subset
<1>3. Upon(M, n) = Upon(M, i) \cup B /\ Upon(M, i) \cap B = {}
  BY DEF Upon
<1>4. Cardinality(Upon(M, i) \cup B) = Cardinality(Upon(M, i)) + Cardinality(B) - Cardinality(Upon(M, i) \cap B)
  BY <1>1, <1>2, FS_Union
<1>5. Cardinality(Upon(M, i) \cap B) = 0
  BY <1>3, FS_EmptySet
<1>6. Cardinality(B) \in Nat /\ Cardinality(Upon(M, i)) \in Nat
  BY <1>1, <1>2, FS_CardinalityType
<1>7. /\ Count(M, n) = Cardinality(Upon(M, i) \cup B) /\ Count(M, i) = Cardinality(Upon(M, i))
      /\ After(M, i, n) = Cardinality(B)
  BY <1>3 DEF Count, After
<1> HIDE DEF B
<1> QED
  BY <1>4, <1>5, <1>6, <1>7

\* What stands at the last of some lines, or nothing.
LastOf(X, n, K, none, v) ==
  IF Upon(X, n) = {} THEN v = none
  ELSE \E i \in Upon(X, n) : v = K[i] /\ \A j \in Upon(X, n) : j <= i

LEMMA LastGrows ==
  ASSUME NEW X, NEW n \in Nat, NEW K, NEW none, NEW v, LastOf(X, n, K, none, v),
         NEW w, w = IF n + 1 \in X THEN K[n + 1] ELSE v
  PROVE  LastOf(X, n + 1, K, none, w)
<1>1. CASE n + 1 \in X
  <2>1. n + 1 \in Upon(X, n + 1) /\ \A j \in Upon(X, n + 1) : j <= n + 1
    BY <1>1 DEF Upon
  <2> QED
    BY <1>1, <2>1 DEF LastOf
<1>2. CASE n + 1 \notin X
  <2>1. Upon(X, n + 1) = Upon(X, n)
    BY <1>2 DEF Upon
  <2> QED
    BY <1>2, <2>1 DEF LastOf
<1> QED
  BY <1>1, <1>2

LEMMA NothingLast ==
  ASSUME NEW X, NEW K, NEW none
  PROVE  LastOf(X, 0, K, none, none)
BY DEF LastOf, Upon

\* The last message of a sort is near the end exactly if any of them is.
LEMMA NearIs ==
  ASSUME NEW M, NEW n \in Nat, NEW X \in SUBSET M, NEW K, \A i \in 1..n : K[i] = Count(M, i),
         NEW at, LastOf(X, n, K, -1, at)
  PROVE  at > 0 /\ Count(M, n) - at <= EndWindow <=> \E i \in Upon(X, n) : After(M, i, n) <= EndWindow
<1>1. CASE Upon(X, n) = {}
  BY <1>1 DEF LastOf
<1>2. CASE Upon(X, n) # {}
  <2>1. PICK i \in Upon(X, n) : at = K[i] /\ \A j \in Upon(X, n) : j <= i
    BY <1>2 DEF LastOf
  <2>2. \A j \in Upon(X, n) : j \in 1..n /\ j \in M
    BY DEF Upon
  <2>3. \A j \in Upon(X, n) : After(M, j, n) \in Nat /\ Count(M, n) = Count(M, j) + After(M, j, n)
                              /\ Count(M, j) \in Nat /\ Count(M, n) \in Nat
    <3>1. \A j \in Upon(X, n) : j \in 0..n /\ j \in Nat
      BY <2>2
    <3>2. ASSUME NEW j \in Upon(X, n)
          PROVE  After(M, j, n) \in Nat /\ Count(M, n) = Count(M, j) + After(M, j, n)
      BY <3>1, CountSplits
    <3>3. ASSUME NEW j \in Upon(X, n)
          PROVE  Count(M, j) \in Nat /\ Count(M, n) \in Nat
      BY <3>1, CountGrows
    <3> QED
      BY <3>2, <3>3
  <2>4. at = Count(M, i)
    BY <2>1, <2>2
  <2>5. at > 0
    <3>1. i - 1 \in Nat /\ (i - 1) + 1 = i /\ i \in M
      BY <2>1, <2>2
    <3>2. Count(M, i) = Count(M, i - 1) + 1 /\ Count(M, i - 1) \in Nat
      BY <3>1, CountGrows
    <3> QED
      BY <2>4, <3>2
  <2>6. Count(M, n) - at = After(M, i, n)
    BY <2>1, <2>3, <2>4
  <2>7. ASSUME NEW j \in Upon(X, n)
        PROVE  After(M, i, n) <= After(M, j, n)
    <3>1. j <= i /\ j \in 0..i /\ i \in Nat
      BY <2>1, <2>2, <2>7
    <3>2. After(M, j, i) \in Nat /\ Count(M, i) = Count(M, j) + After(M, j, i)
      BY <3>1, CountSplits
    <3> QED
      BY <2>1, <2>3, <2>7, <3>2
  <2> QED
    BY <2>1, <2>3, <2>5, <2>6, <2>7, CapsAssumption
<1> QED
  BY <1>1, <1>2

----------------------------------------------------------------------------
(* What a line does to the end of an account.                              *)

IsSaid(line)  == line.kind \in {"prompt", "machinery", "failed", "reply"}
Unasked(line) == "meta" \notin line.marks

\* The fields that say where the work ended.
SameEnd(a, b) ==
  /\ Full(b) /\ b.prompts = a.prompts /\ b.recent = a.recent /\ b.messages = a.messages
  /\ b.cwd = a.cwd /\ b.cutAt = a.cutAt /\ b.failedAt = a.failedAt
  /\ b.started = a.started /\ b.completed = a.completed

LEMMA DatedEnds ==
  ASSUME NEW a, Full(a), NEW line, NEW time
  PROVE  SameEnd(a, Dated(a, line, time))
BY DEF SameEnd, Full, Dated, NoAccount

LEMMA InDirEnds ==
  ASSUME NEW a, Full(a), NEW line
  PROVE  LET b == InDir(a, line)
         IN /\ Full(b) /\ b.prompts = a.prompts /\ b.recent = a.recent /\ b.messages = a.messages
            /\ b.cwd = IF line.cwd = NoDir THEN a.cwd ELSE line.cwd
            /\ b.cutAt = a.cutAt /\ b.failedAt = a.failedAt
            /\ b.started = a.started /\ b.completed = a.completed
BY DEF Full, InDir, NoAccount

LEMMA PromptedEnds ==
  ASSUME NEW a, Full(a)
  PROVE  LET b == Prompted(a)
         IN /\ Full(b) /\ b.prompts = a.prompts + 1 /\ b.recent = RingPush(a.recent, a.prompts)
            /\ b.messages = a.messages /\ b.cwd = a.cwd /\ b.cutAt = a.cutAt
            /\ b.failedAt = a.failedAt /\ b.started = a.started /\ b.completed = a.completed
BY DEF Full, Prompted, NoAccount

\* Every message is counted, and whether it cut the work short.
Spoken(a, b, line) ==
  /\ Full(b) /\ b.prompts = a.prompts /\ b.recent = a.recent /\ b.messages = a.messages + 1
  /\ b.cwd = IF line.cwd = NoDir THEN a.cwd ELSE line.cwd
  /\ b.cutAt = IF "cut" \in line.marks THEN a.messages + 1 ELSE a.cutAt
  /\ b.failedAt = a.failedAt

LEMMA MessageEnds ==
  ASSUME NEW a, Full(a), NEW line, NEW time
  PROVE  Spoken(a, Message(a, line, time), line)
<1> DEFINE d == Dated(a, line, time)
           m == InDir(d, line)
           k == [m EXCEPT !.messages = @ + 1,
                          !.side = @ \/ "sub" \in line.marks, !.auto = @ \/ "auto" \in line.marks,
                          !.cutAt = IF "cut" \in line.marks THEN a.messages + 1 ELSE @]
<1>1. Full(d) /\ SameEnd(a, d)
  BY DatedEnds DEF SameEnd
<1> HIDE DEF d
<1>2. /\ Full(m) /\ m.prompts = d.prompts /\ m.recent = d.recent /\ m.messages = d.messages
      /\ m.cwd = IF line.cwd = NoDir THEN d.cwd ELSE line.cwd
      /\ m.cutAt = d.cutAt /\ m.failedAt = d.failedAt
  BY <1>1, InDirEnds
<1> HIDE DEF m
<1>3. /\ Full(k) /\ k.prompts = m.prompts /\ k.recent = m.recent /\ k.messages = m.messages + 1
      /\ k.cwd = m.cwd /\ k.cutAt = IF "cut" \in line.marks THEN a.messages + 1 ELSE m.cutAt
      /\ k.failedAt = m.failedAt
  BY <1>2 DEF Full, NoAccount
<1>4. Message(a, line, time) = k
  BY DEF Message, m, d
<1> HIDE DEF k
<1> QED
  BY <1>1, <1>2, <1>3, <1>4 DEF Spoken, SameEnd

\* A line of Claude Code.
ClaudeEnd(a, b, line) ==
  LET typed == line.kind = "prompt" /\ Unasked(line) IN
  /\ b.prompts = IF typed THEN a.prompts + 1 ELSE a.prompts
  /\ b.recent = IF typed THEN RingPush(a.recent, a.prompts) ELSE a.recent
  /\ b.messages = IF IsSaid(line) THEN a.messages + 1 ELSE a.messages
  /\ b.cwd = IF IsSaid(line) /\ line.cwd # NoDir THEN line.cwd ELSE a.cwd
  /\ b.cutAt = IF IsSaid(line) /\ "cut" \in line.marks THEN a.messages + 1 ELSE a.cutAt
  /\ b.failedAt = IF line.kind = "failed" /\ Unasked(line) THEN a.messages + 1 ELSE a.failedAt

LEMMA ClaudeEnds ==
  ASSUME NEW a, Full(a), NEW line, NEW time
  PROVE  ClaudeEnd(a, ReadClaude(a, line, time), line)
<1> DEFINE m == Message(a, line, time)
           p == Prompted(m)
           g == [m EXCEPT !.failedAt = m.messages, !.failure = m.lines]
           h == [m EXCEPT !.reply = m.lines]
<1>1. Spoken(a, m, line)
  BY MessageEnds
<1> HIDE DEF m
<1>2. /\ p.prompts = m.prompts + 1 /\ p.recent = RingPush(m.recent, m.prompts)
      /\ p.messages = m.messages /\ p.cwd = m.cwd /\ p.cutAt = m.cutAt /\ p.failedAt = m.failedAt
  BY <1>1, PromptedEnds DEF Spoken
<1> HIDE DEF p
<1>3. /\ SameEnd(m, h)
      /\ g.prompts = m.prompts /\ g.recent = m.recent /\ g.messages = m.messages
      /\ g.cwd = m.cwd /\ g.cutAt = m.cutAt /\ g.failedAt = m.messages
  BY <1>1 DEF Spoken, SameEnd, Full, NoAccount
<1> HIDE DEF g, h
<1>4. /\ SameEnd(a, [a EXCEPT !.lines = @ + 1, !.last = a.lines + 1])
      /\ SameEnd(a, [a EXCEPT !.lines = @ + 1, !.prs = 1]) /\ SameEnd(a, [a EXCEPT !.lines = @ + 1])
  BY DEF SameEnd, Full, NoAccount
<1>5. CASE line.kind = "lastPrompt"
  BY <1>4, <1>5 DEF ReadClaude, SameEnd, ClaudeEnd, IsSaid
<1>6. CASE line.kind = "prLink"
  BY <1>4, <1>6 DEF ReadClaude, SameEnd, ClaudeEnd, IsSaid
<1>7. CASE line.kind = "prompt"
  <2>1. ReadClaude(a, line, time) = IF "meta" \in line.marks THEN m ELSE p
    BY <1>7 DEF ReadClaude, m, p
  <2> QED
    BY <1>1, <1>2, <1>7, <2>1 DEF Spoken, ClaudeEnd, IsSaid, Unasked
<1>8. CASE line.kind = "failed"
  <2>1. ReadClaude(a, line, time) = IF "meta" \in line.marks THEN m ELSE g
    BY <1>8 DEF ReadClaude, m, g
  <2> QED
    BY <1>1, <1>3, <1>8, <2>1 DEF Spoken, ClaudeEnd, IsSaid, Unasked
<1>9. CASE line.kind = "machinery"
  <2>1. ReadClaude(a, line, time) = m
    BY <1>9 DEF ReadClaude, m
  <2> QED
    BY <1>1, <1>9, <2>1 DEF Spoken, ClaudeEnd, IsSaid
<1>10. CASE line.kind = "reply"
  <2>1. ReadClaude(a, line, time) = h
    BY <1>10 DEF ReadClaude, m, h
  <2> QED
    BY <1>1, <1>3, <1>10, <2>1 DEF Spoken, SameEnd, ClaudeEnd, IsSaid
<1>11. CASE line.kind \notin {"lastPrompt", "prLink", "prompt", "failed", "machinery", "reply"}
  BY <1>4, <1>11 DEF ReadClaude, SameEnd, ClaudeEnd, IsSaid
<1> QED
  BY <1>5, <1>6, <1>7, <1>8, <1>9, <1>10, <1>11

\* A line of Codex.
CodexEnd(a, b, line) ==
  /\ b.prompts = IF line.kind = "user" THEN a.prompts + 1 ELSE a.prompts
  /\ b.recent = IF line.kind = "user" THEN RingPush(a.recent, a.prompts) ELSE a.recent
  /\ b.cwd = IF line.kind = "context" /\ line.cwd # NoDir THEN line.cwd ELSE a.cwd
  /\ b.started = IF line.kind = "started" THEN a.started + 1 ELSE a.started
  /\ b.completed = IF line.kind = "complete" THEN a.completed + 1 ELSE a.completed

LEMMA CodexEnds ==
  ASSUME NEW a, Full(a), NEW line, NEW time
  PROVE  CodexEnd(a, ReadCodex(a, line, time), line)
<1> DEFINE d == Dated(a, line, time)
           e == InDir(d, line)
           x == [e EXCEPT !.auto = @ \/ "auto" \in line.marks]
           k == [d EXCEPT !.messages = @ + 1]
           p == Prompted(k)
           Alike(b, c) == /\ Full(c) /\ c.prompts = b.prompts /\ c.recent = b.recent
                          /\ c.cwd = b.cwd /\ c.started = b.started /\ c.completed = b.completed
<1>1. Full(d) /\ Alike(a, d)
  BY DatedEnds DEF SameEnd
<1> HIDE DEF d
<1>2. /\ Full(e) /\ e.prompts = d.prompts /\ e.recent = d.recent
      /\ e.cwd = IF line.cwd = NoDir THEN d.cwd ELSE line.cwd
      /\ e.started = d.started /\ e.completed = d.completed
  BY <1>1, InDirEnds
<1> HIDE DEF e
<1>3. Alike(e, x)
  BY <1>2 DEF Full, NoAccount
<1> HIDE DEF x
<1>4. Alike(d, k) /\ Alike(d, [d EXCEPT !.messages = @ + 1, !.reply = d.lines])
      /\ Alike(d, [d EXCEPT !.failure = d.lines]) /\ Alike(a, [a EXCEPT !.lines = @ + 1])
  BY <1>1 DEF Full, NoAccount
<1> HIDE DEF k
<1>5. /\ p.prompts = k.prompts + 1 /\ p.recent = RingPush(k.recent, k.prompts)
      /\ p.cwd = k.cwd /\ p.started = k.started /\ p.completed = k.completed
  BY <1>4, PromptedEnds
<1> HIDE DEF p
<1>6. CASE line.kind = "context"
  <2>1. ReadCodex(a, line, time) = x
    BY <1>6 DEF ReadCodex, d, e, x
  <2> QED
    BY <1>1, <1>2, <1>3, <1>6, <2>1 DEF CodexEnd
<1>7. CASE line.kind = "user"
  <2>1. ReadCodex(a, line, time) = p
    BY <1>7 DEF ReadCodex, d, k, p
  <2> QED
    BY <1>1, <1>4, <1>5, <1>7, <2>1 DEF CodexEnd
<1>8. CASE line.kind = "agent"
  BY <1>1, <1>4, <1>8 DEF ReadCodex, d, CodexEnd
<1>9. CASE line.kind = "started"
  <2>1. ReadCodex(a, line, time) = [d EXCEPT !.started = @ + 1]
    BY <1>9 DEF ReadCodex, d
  <2> QED
    BY <1>1, <1>9, <2>1 DEF CodexEnd, Full, NoAccount
<1>10. CASE line.kind = "complete"
  <2>1. ReadCodex(a, line, time) = [d EXCEPT !.completed = @ + 1, !.reply = d.lines]
    BY <1>10 DEF ReadCodex, d
  <2> QED
    BY <1>1, <1>10, <2>1 DEF CodexEnd, Full, NoAccount
<1>11. CASE line.kind = "exitFailed"
  BY <1>1, <1>4, <1>11 DEF ReadCodex, d, CodexEnd
<1>12. CASE line.kind = "torn"
  BY <1>4, <1>12 DEF ReadCodex, CodexEnd
<1>13. CASE line.kind \notin {"context", "user", "agent", "started", "complete", "exitFailed", "torn"}
  BY <1>1, <1>13 DEF ReadCodex, d, CodexEnd
<1> QED
  BY <1>6, <1>7, <1>8, <1>9, <1>10, <1>11, <1>12, <1>13

----------------------------------------------------------------------------
(* The ring.                                                               *)

\* The last prompts of k, by their ordinals.
Ring(q, k) ==
  /\ q \in Seq(Nat) /\ Len(q) = IF k < RecentCap THEN k ELSE RecentCap
  /\ \A i \in 1..Len(q) : q[i] = k - Len(q) + i - 1

LEMMA RingTurns ==
  ASSUME NEW k \in Nat, NEW q, Ring(q, k)
  PROVE  Ring(RingPush(q, k), k + 1)
<1> DEFINE all == Append(q, k)
           n == Len(q)
<1>1. q \in Seq(Nat) /\ n \in Nat /\ RecentCap \in Nat \ {0} /\ n = IF k < RecentCap THEN k ELSE RecentCap
  BY CapsAssumption DEF Ring
<1>2. /\ all \in Seq(Nat) /\ Len(all) = n + 1 /\ all[n + 1] = k
      /\ \A i \in 1..n : all[i] = k - n + i - 1
  BY <1>1 DEF Ring
<1>3. RingPush(q, k) = IF n + 1 > RecentCap THEN Tail(all) ELSE all
  BY <1>2 DEF RingPush
<1> HIDE DEF all, n
<1>4. ASSUME NEW i \in 1..(n + 1)
      PROVE  all[i] = k - n + i - 1
  <2>1. i \in 1..n \/ i = n + 1
    BY <1>1
  <2>2. k - n + (n + 1) - 1 = k
    BY <1>1
  <2> QED
    BY <1>2, <2>1, <2>2
<1>5. CASE n + 1 > RecentCap
  <2>1. n = RecentCap /\ k >= n
    BY <1>1, <1>5
  <2>2. /\ Tail(all) \in Seq(Nat) /\ Len(Tail(all)) = n
        /\ \A i \in 1..n : Tail(all)[i] = all[i + 1]
    BY <1>1, <1>2
  <2>3. \A i \in 1..n : Tail(all)[i] = (k + 1) - n + i - 1
    BY <1>1, <1>4, <2>2
  <2>4. n = IF k + 1 < RecentCap THEN k + 1 ELSE RecentCap
    BY <1>1, <2>1
  <2>5. RingPush(q, k) = Tail(all)
    BY <1>3, <1>5
  <2> QED
    BY <2>2, <2>3, <2>4, <2>5 DEF Ring
<1>6. CASE ~(n + 1 > RecentCap)
  <2>1. n = k /\ k + 1 <= RecentCap
    BY <1>1, <1>6
  <2>2. \A i \in 1..(n + 1) : all[i] = (k + 1) - (n + 1) + i - 1
    BY <1>1, <1>4
  <2>3. Len(all) = IF k + 1 < RecentCap THEN k + 1 ELSE RecentCap
    BY <1>1, <1>2, <2>1
  <2> QED
    BY <1>2, <1>3, <1>6, <2>2, <2>3 DEF Ring
<1> QED
  BY <1>5, <1>6

LEMMA RingIsEmpty == Ring(<<>>, 0)
BY CapsAssumption DEF Ring

----------------------------------------------------------------------------
(* The account of the first n lines of a text, by counting.                *)

TypedIn(codex, t) ==
  {i \in 1..Len(t) : IF codex THEN t[i].line.kind = "user"
                     ELSE t[i].line.kind = "prompt" /\ Unasked(t[i].line)}
SaidIn(t)       == {i \in 1..Len(t) : IsSaid(t[i].line)}
KindIn(k, t)    == {i \in 1..Len(t) : t[i].line.kind = k}
CutIn(t)        == {i \in SaidIn(t) : "cut" \in t[i].line.marks}
FailedIn(t)     == {i \in SaidIn(t) : t[i].line.kind = "failed" /\ Unasked(t[i].line)}
PlacedIn(codex, t) ==
  {i \in 1..Len(t) : /\ IF codex THEN t[i].line.kind = "context" ELSE IsSaid(t[i].line)
                     /\ t[i].line.cwd # NoDir}
DirsIn(t) == [i \in 1..Len(t) |-> t[i].line.cwd]
OrdsIn(t) == [i \in 1..Len(t) |-> Count(SaidIn(t), i)]

Ends(codex, t, n, a) ==
  /\ a.prompts = Count(TypedIn(codex, t), n) /\ Ring(a.recent, a.prompts)
  /\ LastOf(PlacedIn(codex, t), n, DirsIn(t), NoDir, a.cwd)
  /\ codex => /\ a.started = Count(KindIn("started", t), n)
              /\ a.completed = Count(KindIn("complete", t), n)
  /\ ~codex => /\ a.messages = Count(SaidIn(t), n)
               /\ LastOf(CutIn(t), n, OrdsIn(t), -1, a.cutAt)
               /\ LastOf(FailedIn(t), n, OrdsIn(t), -1, a.failedAt)

LEMMA NothingEnds ==
  ASSUME NEW codex, NEW t
  PROVE  Ends(codex, t, 0, NoAccount)
<1>1. /\ NoAccount.prompts = 0 /\ NoAccount.recent = <<>> /\ NoAccount.cwd = NoDir
      /\ NoAccount.started = 0 /\ NoAccount.completed = 0 /\ NoAccount.messages = 0
      /\ NoAccount.cutAt = -1 /\ NoAccount.failedAt = -1
  BY DEF NoAccount
<1>2. \A M : Count(M, 0) = 0
  BY CountGrows
<1> QED
  BY <1>1, <1>2, NothingLast, RingIsEmpty DEF Ends

LEMMA PromptEnds ==
  ASSUME NEW codex, NEW t, NEW n \in Nat, NEW a, Ends(codex, t, n, a), NEW b,
         b.prompts = IF n + 1 \in TypedIn(codex, t) THEN a.prompts + 1 ELSE a.prompts,
         b.recent = IF n + 1 \in TypedIn(codex, t) THEN RingPush(a.recent, a.prompts) ELSE a.recent,
         b.cwd = IF n + 1 \in PlacedIn(codex, t) THEN DirsIn(t)[n + 1] ELSE a.cwd
  PROVE  /\ b.prompts = Count(TypedIn(codex, t), n + 1) /\ Ring(b.recent, b.prompts)
         /\ LastOf(PlacedIn(codex, t), n + 1, DirsIn(t), NoDir, b.cwd)
<1>1. /\ a.prompts = Count(TypedIn(codex, t), n) /\ a.prompts \in Nat /\ Ring(a.recent, a.prompts)
      /\ LastOf(PlacedIn(codex, t), n, DirsIn(t), NoDir, a.cwd)
  BY CountGrows DEF Ends
<1>2. Count(TypedIn(codex, t), n + 1)
        = IF n + 1 \in TypedIn(codex, t) THEN Count(TypedIn(codex, t), n) + 1
          ELSE Count(TypedIn(codex, t), n)
  BY CountGrows
<1>3. b.prompts = Count(TypedIn(codex, t), n + 1)
  BY <1>1, <1>2
<1>4. Ring(b.recent, b.prompts)
  BY <1>1, RingTurns
<1>5. LastOf(PlacedIn(codex, t), n + 1, DirsIn(t), NoDir, b.cwd)
  BY <1>1, LastGrows
<1> QED
  BY <1>3, <1>4, <1>5

LEMMA ClaudeLineEnds ==
  ASSUME NEW t, NEW n \in Nat, n < Len(t), Len(t) \in Nat, NEW a, Ends(FALSE, t, n, a),
         NEW b, ClaudeEnd(a, b, t[n + 1].line)
  PROVE  Ends(FALSE, t, n + 1, b)
<1> DEFINE line == t[n + 1].line
           m == n + 1
<1>1. m \in 1..Len(t)
  OBVIOUS
<1>2. /\ m \in TypedIn(FALSE, t) <=> line.kind = "prompt" /\ Unasked(line)
      /\ m \in SaidIn(t) <=> IsSaid(line)
      /\ m \in CutIn(t) <=> IsSaid(line) /\ "cut" \in line.marks
      /\ m \in FailedIn(t) <=> line.kind = "failed" /\ Unasked(line)
      /\ m \in PlacedIn(FALSE, t) <=> IsSaid(line) /\ line.cwd # NoDir
      /\ DirsIn(t)[m] = line.cwd /\ OrdsIn(t)[m] = Count(SaidIn(t), m)
  BY <1>1 DEF TypedIn, SaidIn, CutIn, FailedIn, PlacedIn, DirsIn, OrdsIn, IsSaid
<1>3. /\ a.messages = Count(SaidIn(t), n)
      /\ LastOf(CutIn(t), n, OrdsIn(t), -1, a.cutAt) /\ LastOf(FailedIn(t), n, OrdsIn(t), -1, a.failedAt)
  BY DEF Ends
<1>4. Count(SaidIn(t), m) = IF m \in SaidIn(t) THEN Count(SaidIn(t), n) + 1 ELSE Count(SaidIn(t), n)
  BY CountGrows
<1>5. m \in CutIn(t) => m \in SaidIn(t)
  BY DEF CutIn
<1>6. m \in FailedIn(t) => m \in SaidIn(t)
  BY DEF FailedIn
<1> HIDE DEF line
<1>7. ClaudeEnd(a, b, line)
  BY DEF line
<1>8. /\ b.prompts = IF m \in TypedIn(FALSE, t) THEN a.prompts + 1 ELSE a.prompts
      /\ b.recent = IF m \in TypedIn(FALSE, t) THEN RingPush(a.recent, a.prompts) ELSE a.recent
      /\ b.messages = IF m \in SaidIn(t) THEN a.messages + 1 ELSE a.messages
      /\ b.cwd = IF m \in PlacedIn(FALSE, t) THEN DirsIn(t)[m] ELSE a.cwd
      /\ b.cutAt = IF m \in CutIn(t) THEN a.messages + 1 ELSE a.cutAt
      /\ b.failedAt = IF m \in FailedIn(t) THEN a.messages + 1 ELSE a.failedAt
  BY <1>2, <1>7 DEF ClaudeEnd
<1>9. /\ b.prompts = Count(TypedIn(FALSE, t), m) /\ Ring(b.recent, b.prompts)
      /\ LastOf(PlacedIn(FALSE, t), m, DirsIn(t), NoDir, b.cwd)
  BY <1>8, PromptEnds
<1>10. b.messages = Count(SaidIn(t), m)
  BY <1>3, <1>4, <1>8
<1>11. b.cutAt = IF m \in CutIn(t) THEN OrdsIn(t)[m] ELSE a.cutAt
  BY <1>2, <1>3, <1>4, <1>5, <1>8
<1>12. b.failedAt = IF m \in FailedIn(t) THEN OrdsIn(t)[m] ELSE a.failedAt
  BY <1>2, <1>3, <1>4, <1>6, <1>8
<1>13. LastOf(CutIn(t), m, OrdsIn(t), -1, b.cutAt) /\ LastOf(FailedIn(t), m, OrdsIn(t), -1, b.failedAt)
  BY <1>3, <1>11, <1>12, LastGrows
<1> QED
  BY <1>9, <1>10, <1>13 DEF Ends

LEMMA CodexLineEnds ==
  ASSUME NEW t, NEW n \in Nat, n < Len(t), Len(t) \in Nat, NEW a, Ends(TRUE, t, n, a),
         NEW b, CodexEnd(a, b, t[n + 1].line)
  PROVE  Ends(TRUE, t, n + 1, b)
<1> DEFINE line == t[n + 1].line
           m == n + 1
<1>1. m \in 1..Len(t)
  OBVIOUS
<1>2. /\ m \in TypedIn(TRUE, t) <=> line.kind = "user"
      /\ m \in KindIn("started", t) <=> line.kind = "started"
      /\ m \in KindIn("complete", t) <=> line.kind = "complete"
      /\ m \in PlacedIn(TRUE, t) <=> line.kind = "context" /\ line.cwd # NoDir
      /\ DirsIn(t)[m] = line.cwd
  BY <1>1 DEF TypedIn, KindIn, PlacedIn, DirsIn
<1>3. a.started = Count(KindIn("started", t), n) /\ a.completed = Count(KindIn("complete", t), n)
  BY DEF Ends
<1>4. \A M : Count(M, m) = IF m \in M THEN Count(M, n) + 1 ELSE Count(M, n)
  BY CountGrows
<1> HIDE DEF line
<1>5. CodexEnd(a, b, line)
  BY DEF line
<1>6. /\ b.prompts = IF m \in TypedIn(TRUE, t) THEN a.prompts + 1 ELSE a.prompts
      /\ b.recent = IF m \in TypedIn(TRUE, t) THEN RingPush(a.recent, a.prompts) ELSE a.recent
      /\ b.cwd = IF m \in PlacedIn(TRUE, t) THEN DirsIn(t)[m] ELSE a.cwd
      /\ b.started = IF m \in KindIn("started", t) THEN a.started + 1 ELSE a.started
      /\ b.completed = IF m \in KindIn("complete", t) THEN a.completed + 1 ELSE a.completed
  BY <1>2, <1>5 DEF CodexEnd
<1>7. /\ b.prompts = Count(TypedIn(TRUE, t), m) /\ Ring(b.recent, b.prompts)
      /\ LastOf(PlacedIn(TRUE, t), m, DirsIn(t), NoDir, b.cwd)
  BY <1>6, PromptEnds
<1>8. b.started = Count(KindIn("started", t), m) /\ b.completed = Count(KindIn("complete", t), m)
  BY <1>3, <1>4, <1>6
<1> QED
  BY <1>7, <1>8 DEF Ends

\* Whatever the lines are, their account ends as they do.
LEMMA PrefixEnds ==
  ASSUME NEW codex \in BOOLEAN, NEW t, IsSeq(t), NEW n \in 0..Len(t)
  PROVE  Ends(codex, t, n, AccountOf(codex, Prefix(t, n)))
<1> DEFINE A(k) == AccountOf(codex, Prefix(t, k))
           S == {k \in Nat : k <= Len(t) => Ends(codex, t, k, A(k))}
<1>1. Len(t) \in Nat
  BY AppendIsSeq
<1>2. 0 \in S
  <2>1. 0 \in 0..Len(t) /\ 1..0 = {}
    BY <1>1
  <2>2. A(0) = NoAccount
    BY <2>1, PrefixIs, AccountOfNothing
  <2> QED
    BY <2>2, NothingEnds
<1>3. ASSUME NEW k \in S
      PROVE  k + 1 \in S
  <2> SUFFICES ASSUME k + 1 <= Len(t) PROVE Ends(codex, t, k + 1, A(k + 1))
    OBVIOUS
  <2>1. k \in Nat /\ k < Len(t) /\ k <= Len(t) /\ k \in 0..Len(t)
    BY <1>1
  <2>2. Ends(codex, t, k, A(k))
    BY <2>1
  <2>3. A(k + 1) = ReadLine(codex, A(k), t[k + 1])
    BY <2>1, PrefixGrows
  <2>4. Full(A(k))
    BY <2>1, PrefixFields
  <2> HIDE DEF A
  <2>5. CASE codex
    <3>1. CodexEnd(A(k), A(k + 1), t[k + 1].line)
      BY <2>3, <2>4, <2>5, CodexEnds DEF ReadLine
    <3>2. codex = TRUE
      BY <2>5
    <3> QED
      BY <1>1, <2>1, <2>2, <3>1, <3>2, CodexLineEnds
  <2>6. CASE ~codex
    <3>1. ClaudeEnd(A(k), A(k + 1), t[k + 1].line)
      BY <2>3, <2>4, <2>6, ClaudeEnds DEF ReadLine
    <3>2. codex = FALSE
      BY <2>6
    <3> QED
      BY <1>1, <2>1, <2>2, <3>1, <3>2, ClaudeLineEnds
  <2> QED
    BY <2>5, <2>6
<1> HIDE DEF A
<1>4. S = Nat
  <2> HIDE DEF S
  <2>1. S \in SUBSET Nat
    BY DEF S
  <2> QED
    BY <1>2, <1>3, <2>1, Induction
<1>5. n \in S /\ n <= Len(t)
  BY <1>1, <1>4
<1> QED
  BY <1>5 DEF A

----------------------------------------------------------------------------
(* What a model is told: the sample, without those it is told anyway.      *)

KeptOf(x, q) ==
  LET Keep(a, p) == Kept(x, a, p) IN FoldLeft(Keep, <<>>, q)

LEMMA KeptIsChosen ==
  ASSUME NEW x, NEW q
  PROVE  KeptOf(x, q) =
           (CHOOSE h : h = [s \in SUBSET DOMAIN q |->
                              IF s = {} THEN <<>>
                              ELSE Kept(x, h[s \ {Max(s)}], q[Max(s)])])[DOMAIN q]
BY DEF KeptOf, FoldLeft, MapThenFoldSet

LEMMA EvidenceIs ==
  ASSUME NEW record
  PROVE  Evidence(record) = KeptOf(record.recent, record.arc) \o record.recent
BY DEF Evidence, KeptOf, Kept

LEMMA KeptIsFold ==
  ASSUME NEW x, NEW n \in Nat, NEW q, DOMAIN q = 1..n
  PROVE  \E h : FoldOn(Prompts(x), q, n, h) /\ KeptOf(x, q) = h[1..n]
<1> DEFINE P(h) == h = [s \in SUBSET DOMAIN q |->
                              IF s = {} THEN <<>>
                              ELSE Kept(x, h[s \ {Max(s)}], q[Max(s)])]
<1>1. \A h : FoldOn(Prompts(x), q, n, h) <=> P(h)
  <2>1. Prompts(x).of = "prompt" /\ Prompts(x).told = x
    BY DEF Prompts
  <2>2. \A a, e : Taken(Prompts(x), a, e) = Kept(x, a, e)
    BY <2>1 DEF Taken
  <2>3. First(Prompts(x)) = <<>>
    BY <2>1 DEF First
  <2> QED
    BY <2>2, <2>3 DEF FoldOn
<1>2. \E h : P(h)
  BY <1>1, FoldExists
<1>3. KeptOf(x, q) = (CHOOSE h : P(h))[1..n]
  BY KeptIsChosen
<1>4. P(CHOOSE h : P(h))
  BY <1>2
<1> HIDE DEF P
<1> QED
  BY <1>1, <1>3, <1>4

LEMMA KeptGrows ==
  ASSUME NEW x, NEW n \in Nat, NEW q, DOMAIN q = 1..(n + 1), NEW v, DOMAIN v = 1..n, Same(q, v, n)
  PROVE  KeptOf(x, q) = Kept(x, KeptOf(x, v), q[n + 1])
<1>1. n + 1 \in Nat
  OBVIOUS
<1>2. PICK g : FoldOn(Prompts(x), q, n + 1, g) /\ KeptOf(x, q) = g[1..(n + 1)]
  BY <1>1, KeptIsFold
<1>3. PICK h : FoldOn(Prompts(x), v, n, h) /\ KeptOf(x, v) = h[1..n]
  BY KeptIsFold
<1>4. g[1..(n + 1)] = Taken(Prompts(x), h[1..n], q[n + 1])
  BY <1>2, <1>3, FoldGrows
<1> QED
  BY <1>2, <1>3, <1>4 DEF Taken, Prompts

LEMMA KeptOfNothing ==
  ASSUME NEW x, NEW q, DOMAIN q = {}
  PROVE  KeptOf(x, q) = <<>>
<1>1. 1..0 = {}
  OBVIOUS
<1>2. PICK h : FoldOn(Prompts(x), q, 0, h) /\ KeptOf(x, q) = h[1..0]
  BY <1>1, KeptIsFold
<1>3. h[{}] = <<>>
  BY <1>2 DEF FoldOn, First, Prompts
<1> QED
  BY <1>1, <1>2, <1>3

Rising(q) == \A i, j \in DOMAIN q : i < j => q[i] < q[j]

\* Of a rising sequence some are kept, in order, and the first unless it is told anyway.
KeepsOf(x, q, n, k) ==
  /\ k \in Seq(Nat) /\ Rising(k)
  /\ \A i \in 1..Len(k) : k[i] \notin ToSet(x) /\ \E j \in 1..n : k[i] = q[j]
  /\ n > 0 /\ q[1] \notin ToSet(x) => k # <<>> /\ k[1] = q[1]

LEMMA KeptStep ==
  ASSUME NEW x, NEW q \in Seq(Nat), Rising(q), NEW n \in Nat, n < Len(q),
         NEW k, KeepsOf(x, q, n, k)
  PROVE  KeepsOf(x, q, n + 1, Kept(x, k, q[n + 1]))
<1> DEFINE p == q[n + 1]
           a == Append(k, p)
<1>1. /\ Len(q) \in Nat /\ n + 1 \in 1..Len(q) /\ p \in Nat /\ DOMAIN q = 1..Len(q)
      /\ k \in Seq(Nat) /\ Len(k) \in Nat /\ DOMAIN k = 1..Len(k)
  BY DEF KeepsOf
<1>2. ASSUME NEW j \in 1..n
      PROVE  q[j] < p /\ j \in 1..(n + 1)
  <2>1. j \in DOMAIN q /\ n + 1 \in DOMAIN q /\ j < n + 1
    BY <1>1
  <2>2. q[j] < q[n + 1]
    BY <2>1 DEF Rising
  <2> QED
    BY <2>1, <2>2
<1>3. CASE p \in ToSet(x)
  <2>1. Kept(x, k, p) = k
    BY <1>3 DEF Kept
  <2>2. q[1] \notin ToSet(x) => n > 0
    <3>1. CASE n = 0
      <4>1. p = q[1]
        BY <3>1
      <4> QED
        BY <4>1, <1>3
    <3> QED
      BY <3>1
  <2> HIDE DEF p
  <2>3. KeepsOf(x, q, n + 1, k)
    BY <1>2, <2>2 DEF KeepsOf
  <2> QED
    BY <2>1, <2>3 DEF p
<1>4. CASE p \notin ToSet(x)
  <2>1. Kept(x, k, p) = a
    BY <1>4 DEF Kept
  <2>2. /\ a \in Seq(Nat) /\ Len(a) = Len(k) + 1 /\ DOMAIN a = 1..(Len(k) + 1) /\ a # <<>>
        /\ a[Len(k) + 1] = p /\ \A i \in 1..Len(k) : a[i] = k[i]
    <3> HIDE DEF p
    <3>1. a \in Seq(Nat) /\ Len(a) = Len(k) + 1
      BY <1>1
    <3>2. a[Len(k) + 1] = p /\ \A i \in 1..Len(k) : a[i] = k[i]
      BY <1>1
    <3> HIDE DEF a
    <3>3. DOMAIN a = 1..(Len(k) + 1) /\ a # <<>>
      BY <1>1, <3>1
    <3> QED
      BY <3>1, <3>2, <3>3
  <2>3. \A i \in 1..(Len(k) + 1) : i \in 1..Len(k) \/ i = Len(k) + 1
    BY <1>1
  <2> HIDE DEF a
  <2>4. \A i \in 1..Len(k) : k[i] < p
    BY <1>2 DEF KeepsOf
  <2>5. Rising(a)
    <3> SUFFICES ASSUME NEW i \in 1..(Len(k) + 1), NEW j \in 1..(Len(k) + 1), i < j
                 PROVE  a[i] < a[j]
      BY <2>2 DEF Rising
    <3>1. i \in 1..Len(k)
      BY <1>1
    <3>2. CASE j = Len(k) + 1
      BY <2>2, <2>4, <3>1, <3>2
    <3>3. CASE j \in 1..Len(k)
      <4>1. k[i] < k[j]
        BY <1>1, <3>1, <3>3 DEF KeepsOf, Rising
      <4> QED
        BY <2>2, <3>1, <3>3, <4>1
    <3> QED
      BY <2>3, <3>2, <3>3
  <2>6. ASSUME NEW i \in 1..Len(a)
        PROVE  a[i] \notin ToSet(x) /\ \E j \in 1..(n + 1) : a[i] = q[j]
    <3>1. CASE i = Len(k) + 1
      <4>1. n + 1 \in 1..(n + 1) /\ a[i] = q[n + 1]
        BY <2>2, <3>1 DEF p
      <4> QED
        BY <1>4, <2>2, <3>1, <4>1
    <3>2. CASE i \in 1..Len(k)
      BY <1>2, <2>2, <3>2 DEF KeepsOf
    <3> QED
      BY <2>2, <2>3, <3>1, <3>2
  <2>7. ASSUME q[1] \notin ToSet(x)
        PROVE  a # <<>> /\ a[1] = q[1]
    <3>1. CASE n = 0
      <4>1. k = <<>>
        <5>1. \A i \in 1..Len(k) : FALSE
          BY <3>1 DEF KeepsOf
        <5>2. Len(k) = 0
          BY <1>1, <5>1
        <5> QED
          BY <1>1, <5>2
      <4> QED
        BY <2>2, <3>1, <4>1 DEF p
    <3>2. CASE n > 0
      <4>1. k # <<>> /\ k[1] = q[1]
        BY <2>7, <3>2 DEF KeepsOf
      <4>2. 1 \in 1..Len(k)
        BY <1>1, <4>1
      <4> QED
        BY <2>2, <4>1, <4>2
    <3> QED
      BY <3>1, <3>2
  <2>8. KeepsOf(x, q, n + 1, a)
    BY <2>2, <2>5, <2>6, <2>7 DEF KeepsOf
  <2> QED
    BY <2>1, <2>8
<1> QED
  BY <1>3, <1>4

LEMMA KeptIs ==
  ASSUME NEW x, NEW q \in Seq(Nat), Rising(q)
  PROVE  KeepsOf(x, q, Len(q), KeptOf(x, q))
<1> DEFINE K(n) == KeptOf(x, Prefix(q, n))
           S == {n \in Nat : n <= Len(q) => KeepsOf(x, q, n, K(n))}
<1>1. Len(q) \in Nat /\ IsSeq(q)
  BY DEF IsSeq
<1>2. 0 \in S
  <2>1. 0 \in 0..Len(q) /\ 1..0 = {}
    BY <1>1
  <2>2. K(0) = <<>>
    BY <1>1, <2>1, PrefixIs, KeptOfNothing
  <2> HIDE DEF K
  <2>3. KeepsOf(x, q, 0, <<>>)
    BY DEF KeepsOf, Rising
  <2> QED
    BY <2>2, <2>3
<1>3. ASSUME NEW n \in S
      PROVE  n + 1 \in S
  <2> SUFFICES ASSUME n + 1 <= Len(q) PROVE KeepsOf(x, q, n + 1, K(n + 1))
    OBVIOUS
  <2>1. n \in Nat /\ n < Len(q) /\ n <= Len(q) /\ n \in 0..Len(q) /\ n + 1 \in 0..Len(q)
    BY <1>1
  <2>2. KeepsOf(x, q, n, K(n))
    BY <2>1
  <2>3. /\ DOMAIN Prefix(q, n) = 1..n /\ \A i \in 1..n : Prefix(q, n)[i] = q[i]
        /\ DOMAIN Prefix(q, n + 1) = 1..(n + 1) /\ \A i \in 1..(n + 1) : Prefix(q, n + 1)[i] = q[i]
    BY <1>1, <2>1, PrefixIs
  <2>4. Same(Prefix(q, n + 1), Prefix(q, n), n) /\ Prefix(q, n + 1)[n + 1] = q[n + 1]
    <3>1. n + 1 \in 1..(n + 1) /\ \A i \in 1..n : i \in 1..(n + 1)
      BY <2>1
    <3> QED
      BY <2>3, <3>1 DEF Same
  <2>5. K(n + 1) = Kept(x, K(n), q[n + 1])
    BY <2>1, <2>3, <2>4, KeptGrows
  <2> HIDE DEF K
  <2> QED
    BY <2>1, <2>2, <2>5, KeptStep
<1> HIDE DEF K
<1>4. S = Nat
  <2> HIDE DEF S
  <2>1. S \in SUBSET Nat
    BY DEF S
  <2> QED
    BY <1>2, <1>3, <2>1, Induction
<1>5. KeepsOf(x, q, Len(q), K(Len(q)))
  BY <1>1, <1>4
<1>6. Prefix(q, Len(q)) = q
  <2>1. Len(q) \in 0..Len(q)
    BY <1>1
  <2> QED
    BY <1>1, <2>1, PrefixIs, SameSeq
<1> QED
  BY <1>5, <1>6 DEF K

\* The sample rises from the first prompt, and has none that was not made.
LEMMA SampleRises ==
  ASSUME NEW s \in Sampler, Even(s)
  PROVE  /\ s.items \in Seq(Nat) /\ Rising(s.items) /\ \A i \in 1..Len(s.items) : s.items[i] < s.seen
         /\ s.seen > 0 => Len(s.items) > 0 /\ s.items[1] = 0
<1> DEFINE q == s.items
           n == Len(s.items)
           d == s.stride
<1>1. q \in Seq(Nat) /\ n \in Nat /\ d \in Nat \ {0} /\ s.seen \in Nat /\ DOMAIN q = 1..n
  BY DEF Sampler
<1>2. (\A i \in 1..n : q[i] = (i - 1) * d) /\ (n - 1) * d < s.seen /\ s.seen <= n * d
  BY DEF Even
<1> HIDE DEF q, n, d
<1>3. ASSUME NEW i \in 1..n, NEW j \in 1..n, i < j
      PROVE  q[i] < q[j]
  <2>1. i - 1 \in Nat /\ j - 1 \in Nat /\ j - i \in Nat \ {0}
    BY <1>1, <1>3
  <2>2. (j - 1) * d = (i - 1) * d + (j - i) * d
    BY <1>1, <2>1, SMT
  <2>3. (j - i) * d > 0 /\ (i - 1) * d \in Int /\ (j - i) * d \in Int
    BY <1>1, <2>1, SMT
  <2>4. (j - 1) * d > (i - 1) * d
    BY <2>2, <2>3
  <2> QED
    BY <1>2, <2>4
<1>4. ASSUME NEW i \in 1..n
      PROVE  q[i] < s.seen
  <2>1. CASE i = n
    BY <1>2, <2>1
  <2>2. CASE i # n
    <3>1. n \in 1..n /\ i < n
      BY <1>1, <2>2
    <3>2. q[i] < q[n] /\ q[n] < s.seen /\ q[i] \in Nat /\ q[n] \in Nat
      BY <1>1, <1>2, <1>3, <3>1
    <3> QED
      BY <1>1, <3>2
  <2> QED
    BY <2>1, <2>2
<1>5. ASSUME s.seen > 0
      PROVE  n > 0 /\ q[1] = 0
  <2>1. n # 0
    <3>1. CASE n = 0
      <4>1. n * d = 0
        BY <1>1, <3>1
      <4> QED
        BY <1>1, <1>2, <1>5, <4>1
    <3> QED
      BY <3>1
  <2>2. 1 \in 1..n /\ n > 0
    BY <1>1, <2>1
  <2>3. q[1] = (1 - 1) * d
    BY <1>2, <2>2
  <2>4. (1 - 1) * d = 0
    BY <1>1
  <2> QED
    BY <2>2, <2>3, <2>4
<1> QED
  BY <1>1, <1>3, <1>4, <1>5 DEF Rising, q, n

\* The ring has every prompt from its first on.
LEMMA RingHas ==
  ASSUME NEW k \in Nat, NEW x, Ring(x, k)
  PROVE  /\ Len(x) \in Nat /\ Len(x) <= k /\ (k > 0 => Len(x) > 0)
         /\ \A p \in Nat : p < k /\ p \notin ToSet(x) => p < k - Len(x)
<1>1. /\ x \in Seq(Nat) /\ Len(x) \in Nat /\ DOMAIN x = 1..Len(x)
      /\ Len(x) = (IF k < RecentCap THEN k ELSE RecentCap) /\ RecentCap \in Nat \ {0}
  BY CapsAssumption DEF Ring
<1>2. Len(x) <= k /\ (k > 0 => Len(x) > 0)
  BY <1>1
<1>3. ASSUME NEW p \in Nat, p < k, p >= k - Len(x)
      PROVE  p \in ToSet(x)
  <2> DEFINE i == p - (k - Len(x)) + 1
  <2>1. i \in 1..Len(x) /\ k - Len(x) + i - 1 = p
    BY <1>1, <1>2, <1>3
  <2> HIDE DEF i
  <2>2. x[i] = p
    BY <2>1 DEF Ring
  <2> QED
    BY <1>1, <2>1, <2>2 DEF ToSet
<1> QED
  BY <1>1, <1>2, <1>3

LEMMA ToldIs ==
  ASSUME NEW s \in Sampler, Even(s), NEW x, Ring(x, s.seen)
  PROVE  LET told == KeptOf(x, s.items) \o x
         IN /\ Rising(told)
            /\ s.seen > 0 => told[1] = 0 /\ told[Len(told)] = s.seen - 1
<1> DEFINE q == s.items
           k == KeptOf(x, q)
           c == s.seen
           m == Len(x)
           told == k \o x
<1>1. /\ q \in Seq(Nat) /\ Rising(q) /\ \A i \in 1..Len(q) : q[i] < c
      /\ c > 0 => Len(q) > 0 /\ q[1] = 0
  BY SampleRises
<1>2. c \in Nat /\ x \in Seq(Nat) /\ \A i \in 1..m : x[i] = c - m + i - 1
  BY DEF Sampler, Ring
<1>3. /\ m \in Nat /\ m <= c /\ (c > 0 => m > 0)
      /\ \A p \in Nat : p < c /\ p \notin ToSet(x) => p < c - m
  BY <1>2, RingHas
<1>4. KeepsOf(x, q, Len(q), k)
  BY <1>1, KeptIs
<1>5. k \in Seq(Nat) /\ Rising(k) /\ Len(k) \in Nat /\ DOMAIN k = 1..Len(k)
  BY <1>4 DEF KeepsOf
<1> HIDE DEF q, k, c
<1>6. ASSUME NEW i \in 1..Len(k)
      PROVE  k[i] < c - m /\ k[i] \in Nat
  <2>1. k[i] \in Nat /\ k[i] \notin ToSet(x) /\ \E j \in 1..Len(q) : k[i] = q[j]
    BY <1>4, <1>5 DEF KeepsOf
  <2> QED
    BY <1>1, <1>3, <2>1
<1>7. /\ told \in Seq(Nat) /\ Len(told) = Len(k) + m
      /\ \A i \in 1..Len(k) : told[i] = k[i]
      /\ \A i \in 1..m : told[Len(k) + i] = x[i]
  BY <1>2, <1>3, <1>5
<1> HIDE DEF told, m
<1>8. \A i \in 1..(Len(k) + m) : i \in 1..Len(k) \/ (i - Len(k) \in 1..m /\ i = Len(k) + (i - Len(k)))
  BY <1>3, <1>5
<1>9. Rising(told)
  <2> SUFFICES ASSUME NEW i \in 1..(Len(k) + m), NEW j \in 1..(Len(k) + m), i < j
               PROVE  told[i] < told[j]
    BY <1>7 DEF Rising
  <2>1. CASE j \in 1..Len(k)
    <3>1. i \in 1..Len(k)
      BY <1>5, <2>1
    <3>2. k[i] < k[j]
      BY <1>5, <2>1, <3>1 DEF Rising
    <3> QED
      BY <1>7, <2>1, <3>1, <3>2
  <2>2. CASE j - Len(k) \in 1..m /\ j = Len(k) + (j - Len(k))
    <3>1. told[j] = c - m + (j - Len(k)) - 1
      BY <1>2, <1>7, <2>2 DEF m
    <3>2. CASE i \in 1..Len(k)
      <4>1. told[i] < c - m /\ told[i] \in Nat
        BY <1>6, <1>7, <3>2
      <4> QED
        BY <1>2, <1>3, <1>5, <2>2, <3>1, <4>1
    <3>3. CASE i - Len(k) \in 1..m /\ i = Len(k) + (i - Len(k))
      <4>1. told[i] = c - m + (i - Len(k)) - 1
        BY <1>2, <1>7, <3>3 DEF m
      <4> QED
        BY <1>2, <1>3, <1>5, <3>1, <4>1
    <3> QED
      BY <1>8, <3>2, <3>3
  <2> QED
    BY <1>8, <2>1, <2>2
<1>10. ASSUME c > 0
       PROVE  told[1] = 0 /\ told[Len(told)] = c - 1
  <2>1. m \in 1..m /\ 1 \in 1..m
    BY <1>3, <1>10
  <2>2. told[Len(told)] = c - 1
    <3>1. told[Len(k) + m] = x[m] /\ x[m] = c - m + m - 1
      BY <1>2, <1>7, <2>1 DEF m
    <3> QED
      BY <1>2, <1>3, <1>7, <3>1
  <2>3. told[1] = 0
    <3>1. CASE 0 \in ToSet(x)
      <4>1. PICK i \in 1..m : x[i] = 0
        BY <1>2, <3>1 DEF ToSet, m
      <4>2. c = m
        <5>1. c - m + i - 1 = 0
          BY <1>2, <4>1 DEF m
        <5> QED
          BY <1>2, <1>3, <4>1, <5>1
      <4>3. Len(k) = 0
        <5>1. \A j \in 1..Len(k) : FALSE
          BY <1>2, <1>6, <4>2
        <5> QED
          BY <1>5, <5>1
      <4>4. told[Len(k) + 1] = x[1] /\ x[1] = c - m + 1 - 1
        BY <1>2, <1>7, <2>1 DEF m
      <4> QED
        BY <1>2, <4>2, <4>3, <4>4
    <3>2. CASE 0 \notin ToSet(x)
      <4>1. k # <<>> /\ k[1] = 0
        BY <1>1, <1>4, <1>10, <3>2 DEF KeepsOf
      <4>2. 1 \in 1..Len(k)
        BY <1>5, <4>1
      <4> QED
        BY <1>7, <4>1, <4>2
    <3> QED
      BY <3>1, <3>2
  <2> QED
    BY <2>2, <2>3
<1> QED
  BY <1>9, <1>10 DEF told, k, q, c

----------------------------------------------------------------------------
(* The theorem.                                                            *)

\* Whether the work ended in the middle, by what is counted.
LEMMA CodexEndsMidTask ==
  ASSUME NEW t, NEW n \in Nat, NEW a, Ends(TRUE, t, n, a)
  PROVE  EndedMidTask(TRUE, a) <=>
           Cardinality(Upon(KindIn("started", t), n)) > Cardinality(Upon(KindIn("complete", t), n))
BY DEF Ends, EndedMidTask, Count

LEMMA ClaudeEndsMidTask ==
  ASSUME NEW t, NEW n \in Nat, NEW a, n <= Len(t), Len(t) \in Nat, Ends(FALSE, t, n, a)
  PROVE  EndedMidTask(FALSE, a) <=>
           \E i \in Upon(SaidIn(t), n) :
             /\ Trouble(t[i]) /\ Cardinality({j \in Upon(SaidIn(t), n) : j > i}) <= EndWindow
<1> DEFINE M == SaidIn(t)
           X == CutIn(t)
           Y == FailedIn(t)
           K == OrdsIn(t)
<1>1. a.messages = Count(M, n) /\ LastOf(X, n, K, -1, a.cutAt) /\ LastOf(Y, n, K, -1, a.failedAt)
  BY DEF Ends
<1>2. X \in SUBSET M /\ Y \in SUBSET M
  BY DEF CutIn, FailedIn
<1>3. \A i \in 1..n : K[i] = Count(M, i)
  BY DEF OrdsIn
<1>4. \A i \in Upon(M, n) : Trouble(t[i]) <=> i \in Upon(X, n) \/ i \in Upon(Y, n)
  BY DEF Upon, CutIn, FailedIn, Trouble, Kind, Unasked
<1>5. \A i : i \in Upon(X, n) \/ i \in Upon(Y, n) => i \in Upon(M, n)
  BY <1>2 DEF Upon
<1> HIDE DEF M, X, Y, K
<1>6. Near(a, a.cutAt) <=> \E i \in Upon(X, n) : After(M, i, n) <= EndWindow
  BY <1>1, <1>2, <1>3, NearIs DEF Near
<1>7. Near(a, a.failedAt) <=> \E i \in Upon(Y, n) : After(M, i, n) <= EndWindow
  BY <1>1, <1>2, <1>3, NearIs DEF Near
<1>8. EndedMidTask(FALSE, a) <=> \E i \in Upon(M, n) : Trouble(t[i]) /\ After(M, i, n) <= EndWindow
  BY <1>4, <1>5, <1>6, <1>7 DEF EndedMidTask
<1> QED
  BY <1>8 DEF After, M

LEMMA ReaderSays ==
  ASSUME Inv, NEW w, Serving(Now(w)), NEW u \in Users, At(u, "reading")
  PROVE  SaysTheEnd(proc[u].file, proc[u].account)
<1> DEFINE r == proc[u]
           f == r.file
           a == r.account
           t == text[f]
           n == a.lines
           codex == f \in Codex
           record == RecordIn(f, mtime[f], a)
<1>1. Sound(Now(w)) /\ Reader(Now(w), r) /\ Now(w).text = text
  BY ProcReads
<1>2. /\ f \in DOMAIN r.refs
      /\ \E k \in 0..Len(text[f]) : a = AccountOf(f \in Codex, Prefix(text[f], k))
  BY <1>1 DEF Reader, Reading, At
<1>3. f \in Files /\ IsSeq(t) /\ Len(t) \in Nat
  BY <1>1, <1>2, AppendIsSeq DEF Reader, Looked, Sound, FilesIn
<1>4. codex \in BOOLEAN
  OBVIOUS
<1>5. a.arc \in Sampler /\ Even(a.arc) /\ a.prompts = a.arc.seen
  BY DEF Inv, Keeps, Account
<1>6. /\ record.recent = a.recent /\ record.arc = a.arc.items
      /\ record.endedMidTask = EndedMidTask(codex, a)
  BY DEF RecordIn, RecordOf
<1> HIDE DEF record, a
<1>7. n \in 0..Len(t) /\ n \in Nat /\ Ends(codex, t, n, a)
  <2>1. PICK k \in 0..Len(t) : a = AccountOf(codex, Prefix(t, k))
    BY <1>2
  <2> HIDE DEF codex, t
  <2>2. n = k
    BY <1>3, <1>4, <2>1, PrefixFields
  <2> QED
    BY <1>3, <1>4, <2>1, <2>2, PrefixEnds
<1>8. /\ {i \in 1..n : Typed(f, t[i])} = Upon(TypedIn(codex, t), n)
      /\ {i \in 1..n : IsMessage(t[i])} = Upon(SaidIn(t), n)
      /\ {i \in 1..n : Placed(f, t[i])} = Upon(PlacedIn(codex, t), n)
      /\ \A k : {i \in 1..n : Kind(t[i]) = k} = Upon(KindIn(k, t), n)
  <2>1. \A i \in 1..n : i \in 1..Len(t)
    BY <1>3, <1>7
  <2> HIDE DEF t, n
  <2> QED
    BY <2>1 DEF Typed, Placed, IsMessage, IsSaid, Kind, Unasked, Upon, TypedIn, SaidIn, PlacedIn, KindIn
<1>9. Cardinality({i \in 1..n : Typed(f, t[i])}) = a.prompts
  BY <1>7, <1>8 DEF Ends, Count
<1> DEFINE count == Cardinality({i \in 1..n : Typed(f, t[i])})
           told == Evidence(record)
<1>10. told = KeptOf(a.recent, a.arc.items) \o a.recent
  BY <1>6, EvidenceIs
<1>11. Ring(a.recent, a.arc.seen)
  BY <1>5, <1>7 DEF Ends
<1> HIDE DEF told
<1>12. /\ count > 0 => told[1] = 0 /\ told[Len(told)] = count - 1
       /\ \A i, j \in DOMAIN told : i < j => told[i] < told[j]
  BY <1>5, <1>9, <1>10, <1>11, ToldIs DEF Rising
<1>13. a.arc.seen = count /\ a.prompts = count
  BY <1>5, <1>9
<1>14. /\ Len(a.recent) = IF count < RecentCap THEN count ELSE RecentCap
       /\ \A i \in DOMAIN a.recent : a.recent[i] = count - Len(a.recent) + i - 1
  <2>1. DOMAIN a.recent = 1..Len(a.recent)
    BY <1>11 DEF Ring
  <2> QED
    BY <1>11, <1>13, <2>1 DEF Ring
<1> DEFINE placed == {i \in 1..n : Placed(f, t[i])}
<1>15. IF placed = {} THEN a.cwd = NoDir
       ELSE \E i \in placed : a.cwd = t[i].line.cwd /\ \A j \in placed : j <= i
  <2>1. LastOf(PlacedIn(codex, t), n, DirsIn(t), NoDir, a.cwd)
    BY <1>7 DEF Ends
  <2>2. \A i \in placed : DirsIn(t)[i] = t[i].line.cwd
    BY <1>3, <1>7 DEF DirsIn
  <2> HIDE DEF placed
  <2>3. placed = Upon(PlacedIn(codex, t), n)
    BY <1>8 DEF placed
  <2> QED
    BY <2>1, <2>2, <2>3 DEF LastOf
<1> DEFINE OfKind(k) == {i \in 1..n : Kind(t[i]) = k}
           messages == {i \in 1..n : IsMessage(t[i])}
<1>16. record.endedMidTask <=>
         IF f \in Codex THEN Cardinality(OfKind("started")) > Cardinality(OfKind("complete"))
         ELSE \E i \in messages : /\ Trouble(t[i])
                                  /\ Cardinality({j \in messages : j > i}) <= EndWindow
  <2>1. CASE f \in Codex
    <3>1. codex = TRUE
      BY <2>1
    <3> HIDE DEF codex, t, n
    <3>2. EndedMidTask(codex, a) <=>
            Cardinality(Upon(KindIn("started", t), n)) > Cardinality(Upon(KindIn("complete", t), n))
      BY <1>7, <3>1, CodexEndsMidTask
    <3> QED
      BY <1>6, <1>8, <2>1, <3>2
  <2>2. CASE f \notin Codex
    <3>1. codex = FALSE
      BY <2>2
    <3>2. n <= Len(t)
      BY <1>3, <1>7
    <3> HIDE DEF codex, t, n
    <3>3. EndedMidTask(codex, a) <=>
            \E i \in Upon(SaidIn(t), n) :
              /\ Trouble(t[i]) /\ Cardinality({j \in Upon(SaidIn(t), n) : j > i}) <= EndWindow
      BY <1>3, <1>7, <3>1, <3>2, ClaudeEndsMidTask
    <3> QED
      BY <1>6, <1>8, <2>2, <3>3
  <2> QED
    BY <2>1, <2>2
<1> QED
  BY <1>12, <1>13, <1>14, <1>15, <1>16 DEF SaysTheEnd, a, told, record

\* Whatever an agent wrote, and wherever a process is in reading it, the account says
\* where the work ended: the last prompts and the last directory are those of the text,
\* the work ended in the middle exactly if the text has trouble in its last messages or a
\* task that was not completed, and what a model is told rises from the first prompt to
\* the last.
THEOREM RecordsAreTrue == Spec => []RecordsSayTheEnd
<1>1. Init => Inv /\ Served
  BY IdleKeeps, InitIsServed DEF Init, Inv
<1>2. Inv /\ Served /\ [Next]_vars => (Inv /\ Served)'
  BY NextKeeps, NextServes
<1>3. Inv /\ Served => RecordsSayTheEnd
  BY ReaderSays DEF Served, RecordsSayTheEnd
<1> QED
  BY <1>1, <1>2, <1>3, PTL DEF Spec
=============================================================================
