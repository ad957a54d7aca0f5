------------------------- MODULE SessionKeeperProofs ------------------------
(***************************************************************************)
(* Proofs about SessionKeeper, for any ECUs, session types, timers, delays *)
(* and losses: every variable keeps its type; and each ECU is in the       *)
(* session that the table records until exchanges have taken what its      *)
(* timer leaves them.                                                      *)
(*                                                                         *)
(* KeeperInv says who is in the queue of the terminal, what is on the wire *)
(* and how far each task is.  TimerInv adds the arithmetic of the timers:  *)
(* what is left of an ECU's timer, with its session's age (the ticks it    *)
(* was idle and, past the limit, those the task has slept) and the ticks   *)
(* that exchanges took, is never less than a whole timer.                  *)
(***************************************************************************)
EXTENDS SessionKeeper, SequenceTheorems, FiniteSetTheorems, WellFoundedInduction, TLAPS

-----------------------------------------------------------------------------
(* Induction on the natural numbers.  The library's induction theorems take an
   operator as a parameter; the same said of a set is enough: a statement P(n) is
   proved of every n by taking the set {n \in Nat : P(n)}. *)

LessThan == {pair \in Nat \X Nat : pair[1] < pair[2]}

\* The order of the natural numbers has no endless descent.
LEMMA LessThanWellFounded == IsWellFoundedOn(LessThan, Nat)
BY NatLessThanWellFounded DEF OpToRel, LessThan, IsWellFoundedOn

\* A set with 0 and the successor of each of its numbers holds them all.
LEMMA NatInduct ==
    ASSUME NEW S, 0 \in S, \A n \in Nat : n \in S => n + 1 \in S
    PROVE  Nat \subseteq S
<1> DEFINE T == Nat \ S
<1>1. SUFFICES ASSUME T # {} PROVE FALSE
  OBVIOUS
<1>2. PICK x \in T : \A y \in T : <<y, x>> \notin LessThan
  <2>1. T \subseteq Nat
    OBVIOUS
  <2> HIDE DEF T
  <2> QED
    BY <1>1, <2>1, LessThanWellFounded, WFMin
<1>3. x \in Nat \ {0}
  OBVIOUS
<1>4. x - 1 \in T
  BY <1>3
<1>5. <<x - 1, x>> \in LessThan
  BY <1>3 DEF LessThan
<1> QED
  BY <1>2, <1>4, <1>5

-----------------------------------------------------------------------------
(* What Among selects. *)

\* A function on 0..n that follows the equation of Among.
AmongUpTo(f, n, s, S) ==
    f = [i \in 0..n |-> IF i = 0 THEN <<>>
                        ELSE IF s[i] \in S THEN Append(f[i - 1], s[i]) ELSE f[i - 1]]

\* One element more of the sequence.
Taken(r, e, S) == IF e \in S THEN Append(r, e) ELSE r

\* There is such a function however long the sequence is.
LEMMA AmongExists ==
    ASSUME NEW s, NEW S, NEW m \in Nat
    PROVE  \E f : AmongUpTo(f, m, s, S)
<1> DEFINE N == {n \in Nat : \E f : AmongUpTo(f, n, s, S)}
<1>1. 0 \in N
  <2>1. AmongUpTo([i \in 0..0 |-> <<>>], 0, s, S)
    BY DEF AmongUpTo
  <2> QED
    BY <2>1
<1>2. ASSUME NEW n \in Nat, n \in N PROVE n + 1 \in N
  <2>1. PICK f : AmongUpTo(f, n, s, S)
    BY <1>2
  <2> DEFINE g == [i \in 0..(n + 1) |-> IF i = n + 1 THEN Taken(f[n], s[n + 1], S)
                                        ELSE f[i]]
  <2>2. \A i \in 0..n : f[i] = IF i = 0 THEN <<>> ELSE Taken(f[i - 1], s[i], S)
    BY <2>1 DEF AmongUpTo, Taken
  <2>3. \A i \in 0..n : g[i] = f[i]
    OBVIOUS
  <2>4. \A i \in 0..(n + 1) : g[i] = IF i = 0 THEN <<>> ELSE Taken(g[i - 1], s[i], S)
    <3> SUFFICES ASSUME NEW i \in 0..(n + 1)
                 PROVE  g[i] = IF i = 0 THEN <<>> ELSE Taken(g[i - 1], s[i], S)
      OBVIOUS
    <3>1. CASE i = n + 1
      <4>1. n + 1 # 0 /\ i - 1 = n /\ n \in 0..n
        BY <3>1
      <4>2. g[i] = Taken(f[n], s[n + 1], S)
        BY <3>1
      <4> HIDE DEF g
      <4> QED
        BY <3>1, <4>1, <4>2, <2>3
    <3>2. CASE i \in 0..n
      <4>1. i # 0 => i - 1 \in 0..n
        BY <3>2
      <4> HIDE DEF g
      <4> QED
        BY <3>2, <4>1, <2>2, <2>3
    <3> QED
      BY <3>1, <3>2
  <2>5. AmongUpTo(g, n + 1, s, S)
    <3>1. g = [i \in 0..(n + 1) |-> g[i]]
      OBVIOUS
    <3> HIDE DEF g
    <3> QED
      BY <3>1, <2>4 DEF AmongUpTo, Taken
  <2> QED
    BY <2>5
<1>3. Nat \subseteq N
  <2> HIDE DEF N
  <2> QED
    BY <1>1, <1>2, NatInduct
<1> QED
  BY <1>3

\* r holds the elements of the first n of s that are in S, each once if s does.
Selected(r, n, s, S, T) ==
    /\ r \in Seq(T)
    /\ \A k \in DOMAIN r : \E i \in 1..n : r[k] = s[i] /\ s[i] \in S
    /\ \A i \in 1..n : s[i] \in S => \E k \in DOMAIN r : r[k] = s[i]
    /\ IsInjective(s) => IsInjective(r)

\* Taking one element more selects among one more.
LEMMA TakenSelects ==
    ASSUME NEW T, NEW s \in Seq(T), NEW S, NEW n \in Nat, n < Len(s),
           NEW r, Selected(r, n, s, S, T)
    PROVE  Selected(Taken(r, s[n + 1], S), n + 1, s, S, T)
<1>1. r \in Seq(T) /\ Len(s) \in Nat /\ DOMAIN s = 1..Len(s)
  BY DEF Selected
<1>2. n + 1 \in DOMAIN s /\ s[n + 1] \in T /\ \A i \in 1..n : i \in DOMAIN s /\ i # n + 1
  BY <1>1
<1>3. 1..(n + 1) = (1..n) \cup {n + 1}
  OBVIOUS
<1>4. CASE s[n + 1] \in S
  <2> DEFINE q == Append(r, s[n + 1])
             l == Len(r) + 1
  <2>1. /\ q \in Seq(T) /\ DOMAIN q = (DOMAIN r) \cup {l} /\ q[l] = s[n + 1]
        /\ \A k \in DOMAIN r : q[k] = r[k]
    BY <1>1, <1>2
  <2> HIDE DEF q, l
  <2>2. \A k \in DOMAIN q : \E i \in 1..(n + 1) : q[k] = s[i] /\ s[i] \in S
    BY <1>3, <1>4, <2>1 DEF Selected
  <2>3. \A i \in 1..(n + 1) : s[i] \in S => \E k \in DOMAIN q : q[k] = s[i]
    BY <1>3, <2>1 DEF Selected
  <2>4. ASSUME IsInjective(s) PROVE IsInjective(q)
    <3>1. \A k \in DOMAIN r : r[k] # s[n + 1]
      BY <1>2, <2>4 DEF Selected, IsInjective
    <3> QED
      BY <2>1, <2>4, <3>1 DEF Selected, IsInjective
  <2>5. Taken(r, s[n + 1], S) = q
    BY <1>4 DEF Taken, q
  <2> QED
    BY <2>1, <2>2, <2>3, <2>4, <2>5 DEF Selected
<1>5. CASE s[n + 1] \notin S
  BY <1>3, <1>5 DEF Selected, Taken
<1> QED
  BY <1>4, <1>5

\* What Among returns holds what the sequence and the set share, each once if
\* the sequence does.
LEMMA AmongSelects ==
    ASSUME NEW T, NEW s \in Seq(T), NEW S
    PROVE  /\ Among(s, S) \in Seq(T)
           /\ Range(Among(s, S)) = Range(s) \cap S
           /\ IsInjective(s) => IsInjective(Among(s, S))
<1> DEFINE F == CHOOSE f : AmongUpTo(f, Len(s), s, S)
           N == {n \in Nat : n <= Len(s) => Selected(F[n], n, s, S, T)}
<1>1. Len(s) \in Nat /\ DOMAIN s = 1..Len(s)
  OBVIOUS
<1>2. AmongUpTo(F, Len(s), s, S)
  <2>1. PICK f : AmongUpTo(f, Len(s), s, S)
    BY <1>1, AmongExists
  <2> QED
    BY <2>1
<1>3. Among(s, S) = F[Len(s)]
  BY DEF Among, AmongUpTo
<1> HIDE DEF F
<1>4. \A i \in 0..Len(s) : F[i] = IF i = 0 THEN <<>> ELSE Taken(F[i - 1], s[i], S)
  BY <1>2 DEF AmongUpTo, Taken
<1>5. 0 \in N
  <2>1. F[0] = <<>>
    BY <1>1, <1>4
  <2>2. Selected(<<>>, 0, s, S, T)
    BY DEF Selected, IsInjective
  <2> QED
    BY <2>1, <2>2
<1>6. ASSUME NEW n \in Nat, n \in N PROVE n + 1 \in N
  <2> SUFFICES ASSUME n + 1 <= Len(s) PROVE Selected(F[n + 1], n + 1, s, S, T)
    OBVIOUS
  <2>1. Selected(F[n], n, s, S, T)
    BY <1>1, <1>6
  <2>2. n + 1 \in 0..Len(s) /\ n + 1 # 0 /\ (n + 1) - 1 = n /\ n < Len(s)
    BY <1>1
  <2>3. F[n + 1] = Taken(F[n], s[n + 1], S)
    BY <1>4, <2>2
  <2> QED
    BY <2>1, <2>2, <2>3, TakenSelects
<1>7. Nat \subseteq N
  <2> HIDE DEF N
  <2> QED
    BY <1>5, <1>6, NatInduct
<1>8. Selected(F[Len(s)], Len(s), s, S, T)
  BY <1>1, <1>7
<1>9. Range(F[Len(s)]) \subseteq Range(s) \cap S
  <2> SUFFICES ASSUME NEW k \in DOMAIN F[Len(s)]
               PROVE  F[Len(s)][k] \in Range(s) /\ F[Len(s)][k] \in S
    BY DEF Range
  <2>1. PICK i \in 1..Len(s) : F[Len(s)][k] = s[i] /\ s[i] \in S
    BY <1>8 DEF Selected
  <2> QED
    BY <1>1, <2>1 DEF Range
<1>10. Range(s) \cap S \subseteq Range(F[Len(s)])
  <2> SUFFICES ASSUME NEW i \in 1..Len(s), s[i] \in S PROVE s[i] \in Range(F[Len(s)])
    BY <1>1 DEF Range
  <2>1. PICK k \in DOMAIN F[Len(s)] : F[Len(s)][k] = s[i]
    BY <1>8 DEF Selected
  <2> QED
    BY <2>1 DEF Range
<1> QED
  BY <1>3, <1>8, <1>9, <1>10 DEF Selected

-----------------------------------------------------------------------------
(* The invariant of the table and of the two tasks. *)

TableOK ==
    /\ tracked \in Seq(Ecu) /\ IsInjective(tracked)
    /\ mode \in [Ecu -> Mode \cup {Unknown}]
    /\ idle \in [Ecu -> 0..(IdleLimit + 1)]
    /\ refusing \subseteq Ecu
    /\ linkError \in BOOLEAN
    /\ phase \in {"opening", "running", "closing", "closed"}
    /\ limit \in 0..CloseLimit

EcusOK ==
    /\ session \in [Ecu -> Mode \cup {Default}]
    /\ s3 \in [Ecu -> 0..S3]
    /\ \A e \in Ecu : (s3[e] = 0) <=> (session[e] = Default)
    /\ late \in [Ecu -> 0..Patience]

CountsOK == spent \in [Bounded -> Nat] /\ \A b \in Bounded : spent[b] <= Most[b]

\* Only a read sends keepalives first; a TesterPresent is never a job of its own.
JobOK ==
    \/ job = NoJob
    \/ /\ job \in [step : Request \ {"tester"}, ecu : Ecu, mode : Mode \cup {Unknown},
                  tries : 1..2, inline : Seq(Ecu)]
       /\ job.step \in {"wake", "session"} => job.mode \in Mode
       /\ job.inline # <<>> => job.step = "read"

TaskOK ==
    /\ bg \in [pc : {"off", "sleep", "round"}, left : 0..Interval, rest : Seq(Ecu)]
    /\ bg.pc = "round" <=> bg.rest # <<>>
    /\ bg.pc = "off" => bg = Off

\* A task is in the queue of the terminal while it has a request to send.
LockOK ==
    \/ lock = <<>> /\ bg.pc # "round" /\ job = NoJob
    \/ lock = <<"fg">> /\ bg.pc # "round" /\ job # NoJob
    \/ lock = <<"bg">> /\ bg.pc = "round" /\ job = NoJob
    \/ lock \in {<<"fg", "bg">>, <<"bg", "fg">>} /\ bg.pc = "round" /\ job # NoJob

\* What is on the wire is the next request of the task at the head of the queue.
WireOK ==
    \/ wire = NoWire
    \/ /\ wire \in [by : {"fg", "bg"}, ecu : Ecu, req : Request, left : Nat,
                   verdict : {"ok", "nrc", "none", "broken"}]
       /\ lock # <<>> /\ wire.by = Head(lock)
       /\ wire.req = Step(wire.by).req /\ wire.ecu = Step(wire.by).ecu

\* The sessions are opened in the order of Steps, and the background task runs
\* between the opening and the closing.
PhaseOK ==
    /\ phase = "opening" =>
          /\ bg = Off
          /\ Len(tracked) <= Len(Steps) /\ \A i \in 1..Len(tracked) : tracked[i] = Steps[i]
          /\ \A e \in Ecu : e \notin Range(tracked) => mode[e] = Unknown
          /\ job # NoJob => /\ job.step \in {"wake", "session"}
                            /\ Len(tracked) < Len(Steps) /\ job.ecu = Steps[Len(tracked) + 1]
    /\ phase = "running" /\ job # NoJob => /\ job.step \in {"session", "read"}
                                           /\ job.step = "session" => job.ecu \in Range(tracked)
    /\ phase = "closing" => bg = Off /\ (job # NoJob => job.step = "default")
    /\ phase = "closed" => bg = Off /\ job = NoJob

KeeperInv == TableOK /\ EcusOK /\ CountsOK /\ JobOK /\ TaskOK /\ LockOK /\ WireOK /\ PhaseOK

-----------------------------------------------------------------------------
(* The queue and the constants. *)

\* A queue of at most two.
LEMMA Queues ==
    ASSUME NEW t, NEW u
    PROVE  /\ Append(<<>>, t) = <<t>> /\ Append(<<t>>, u) = <<t, u>>
           /\ Head(<<t>>) = t /\ Head(<<t, u>>) = t
           /\ Tail(<<t>>) = <<>> /\ Tail(<<t, u>>) = <<u>>
           /\ <<t>> # <<>> /\ <<t, u>> # <<>>
<1>1. Append(<<>>, t) = <<t>> /\ Append(<<t>>, u) = <<t, u>>
  <2>1. <<>> \in Seq({t, u}) /\ <<t>> \in Seq({t, u})
    OBVIOUS
  <2>2. Append(<<>>, t) = <<t>>
    BY <2>1
  <2>3. Append(<<t>>, u) = <<t, u>>
    <3> DEFINE a == Append(<<t>>, u)
    <3>1. /\ a \in Seq({t, u}) /\ Len(a) = Len(<<t>>) + 1
          /\ \A i \in 1..Len(<<t>>) : a[i] = <<t>>[i]
          /\ a[Len(<<t>>) + 1] = u
      BY <2>1, AppendProperties
    <3>2. <<t, u>> \in Seq({t, u}) /\ Len(<<t, u>>) = 2 /\ Len(<<t>>) = 1
      OBVIOUS
    <3>3. a[1] = t /\ a[2] = u /\ Len(a) = 2
      BY <3>1, <3>2
    <3> HIDE DEF a
    <3>4. \A i \in 1..Len(a) : a[i] = <<t, u>>[i]
      BY <3>3
    <3>5. a = <<t, u>>
      BY <3>1, <3>2, <3>3, <3>4, SeqEqual
    <3> QED
      BY <3>5 DEF a
  <2> QED
    BY <2>2, <2>3
<1>2. Head(<<t>>) = t /\ Head(<<t, u>>) = t
  OBVIOUS
<1>3. Tail(<<t>>) = <<>> /\ Tail(<<t, u>>) = <<u>>
  OBVIOUS
<1>4. <<t>> # <<>> /\ <<t, u>> # <<>>
  OBVIOUS
<1> QED
  BY <1>1, <1>2, <1>3, <1>4

\* The constants.
LEMMA Constants ==
    /\ Steps \in Seq(Ecu) /\ Len(Steps) \in Nat /\ DOMAIN Steps = 1..Len(Steps)
    /\ \A i, k \in 1..Len(Steps) : Steps[i] = Steps[k] => i = k
    /\ \A i \in 1..Len(Steps) : Steps[i] \in Ecu
    /\ \A e \in Ecu : \E i \in 1..Len(Steps) : Steps[i] = e
    /\ Default \notin Mode /\ Unknown \notin Mode
    /\ S3 \in Nat /\ S3 > 0 /\ Interval \in Nat /\ IdleLimit \in Nat /\ CloseLimit \in Nat
    /\ Delay \in Nat /\ Patience \in Nat
    /\ Most \in [Bounded -> Nat] /\ TimeoutOf \in [Request -> Nat]
<1>1. Steps \in Seq(Ecu)
  BY KeeperAssumption DEF KeeperAssumption, Ecu
<1>2. Len(Steps) \in Nat /\ DOMAIN Steps = 1..Len(Steps)
  BY <1>1
<1>3. \A i, k \in 1..Len(Steps) : Steps[i] = Steps[k] => i = k
  BY <1>2, KeeperAssumption DEF KeeperAssumption, IsInjective
<1>4. \A e \in Ecu : \E i \in 1..Len(Steps) : Steps[i] = e
  BY <1>2 DEF Ecu, Range
<1>5. \A n \in {S3, Interval, IdleLimit, Delay, CloseLimit} : n \in Nat
  BY KeeperAssumption DEF KeeperAssumption
<1>6. /\ S3 \in Nat /\ Interval \in Nat /\ IdleLimit \in Nat /\ CloseLimit \in Nat
      /\ Delay \in Nat
  BY <1>5
<1>7. Patience \in Nat
  BY <1>6 DEF Patience
<1> QED
  BY <1>1, <1>2, <1>3, <1>4, <1>6, <1>7, KeeperAssumption DEF KeeperAssumption

\* The parts of the records.
LEMMA Idles ==
    /\ NoJob \notin [step : Request \ {"tester"}, ecu : Ecu, mode : Mode \cup {Unknown},
                     tries : 1..2, inline : Seq(Ecu)]
    /\ NoWire \notin [by : {"fg", "bg"}, ecu : Ecu, req : Request, left : Nat,
                      verdict : {"ok", "nrc", "none", "broken"}]
    /\ Off \in [pc : {"off", "sleep", "round"}, left : 0..Interval, rest : Seq(Ecu)]
    /\ Off.pc = "off" /\ Off.rest = <<>> /\ Off.left = 0
    /\ Asleep \in [pc : {"off", "sleep", "round"}, left : 0..Interval, rest : Seq(Ecu)]
    /\ Asleep.pc = "sleep" /\ Asleep.rest = <<>> /\ Asleep.left = Interval
<1>1. Interval \in Nat
  BY Constants
<1> QED
  BY <1>1 DEF NoJob, NoWire, Off, Asleep, Request

\* What the two tasks send next.
LEMMA NextRequests ==
    ASSUME JobOK, TaskOK
    PROVE  /\ Step("bg") = [req |-> "tester", ecu |-> Head(bg.rest)]
           /\ job.inline # <<>> => Step("fg") = [req |-> "tester", ecu |-> Head(job.inline)]
           /\ job.inline = <<>> => Step("fg") = [req |-> job.step, ecu |-> job.ecu]
           /\ bg.pc = "round" => Head(bg.rest) \in Ecu
           /\ job # NoJob /\ job.inline # <<>> => Head(job.inline) \in Ecu /\ job.step = "read"
<1>1. /\ Step("bg") = [req |-> "tester", ecu |-> Head(bg.rest)]
      /\ job.inline # <<>> => Step("fg") = [req |-> "tester", ecu |-> Head(job.inline)]
      /\ job.inline = <<>> => Step("fg") = [req |-> job.step, ecu |-> job.ecu]
  BY DEF Step
<1>2. bg.pc = "round" => Head(bg.rest) \in Ecu
  BY DEF TaskOK
<1>3. job # NoJob /\ job.inline # <<>> => Head(job.inline) \in Ecu /\ job.step = "read"
  BY DEF JobOK
<1> QED
  BY <1>1, <1>2, <1>3

\* The task whose turn it is, and what it sends.
LEMMA Turn ==
    ASSUME KeeperInv, lock # <<>>
    PROVE  /\ Head(lock) \in {"fg", "bg"}
           /\ Step(Head(lock)) = [req |-> Step(Head(lock)).req, ecu |-> Step(Head(lock)).ecu]
           /\ Step(Head(lock)).ecu \in Ecu /\ Step(Head(lock)).req \in Request
           /\ Head(lock) = "bg" => /\ bg.pc = "round" /\ Step(Head(lock)).req = "tester"
                                   /\ Step(Head(lock)).ecu = Head(bg.rest)
                                   /\ Tail(lock) = IF job = NoJob THEN <<>> ELSE <<"fg">>
           /\ Head(lock) = "fg" => /\ job # NoJob
                                   /\ Tail(lock) = IF bg.pc = "round" THEN <<"bg">> ELSE <<>>
                                   /\ job.inline # <<>> => /\ Step(Head(lock)).req = "tester"
                                                           /\ Step(Head(lock)).ecu = Head(job.inline)
                                   /\ job.inline = <<>> => /\ Step(Head(lock)).req = job.step
                                                           /\ Step(Head(lock)).ecu = job.ecu
<1>1. \/ lock = <<"fg">> /\ bg.pc # "round" /\ job # NoJob
      \/ lock = <<"bg">> /\ bg.pc = "round" /\ job = NoJob
      \/ lock \in {<<"fg", "bg">>, <<"bg", "fg">>} /\ bg.pc = "round" /\ job # NoJob
  BY DEF KeeperInv, LockOK
<1>2. /\ Head(lock) \in {"fg", "bg"}
      /\ Head(lock) = "bg" => bg.pc = "round" /\ Tail(lock) = IF job = NoJob THEN <<>> ELSE <<"fg">>
      /\ Head(lock) = "fg" => job # NoJob /\ Tail(lock) = IF bg.pc = "round" THEN <<"bg">> ELSE <<>>
  <2>1. CASE lock = <<"fg">> /\ bg.pc # "round" /\ job # NoJob
    BY <2>1, Queues
  <2>2. CASE lock = <<"bg">> /\ bg.pc = "round" /\ job = NoJob
    BY <2>2, Queues
  <2>3. CASE lock = <<"fg", "bg">> /\ bg.pc = "round" /\ job # NoJob
    BY <2>3, Queues
  <2>4. CASE lock = <<"bg", "fg">> /\ bg.pc = "round" /\ job # NoJob
    BY <2>4, Queues
  <2> QED
    BY <1>1, <2>1, <2>2, <2>3, <2>4
<1>3. JobOK /\ TaskOK
  BY DEF KeeperInv
<1>4. "tester" \in Request
  BY DEF Request
<1>5. CASE Head(lock) = "bg"
  BY <1>2, <1>3, <1>4, <1>5, NextRequests
<1>6. CASE Head(lock) = "fg"
  <2>1. job # NoJob => job.step \in Request /\ job.ecu \in Ecu
    BY <1>3 DEF JobOK
  <2> QED
    BY <1>2, <1>3, <1>4, <1>6, <2>1, NextRequests
<1> QED
  BY <1>2, <1>5, <1>6

-----------------------------------------------------------------------------
(* What several steps do. *)

\* An event is counted once, and only below its bound.
LEMMA Spending ==
    ASSUME CountsOK, NEW b \in Bounded, Spend(b)
    PROVE  /\ CountsOK'
           /\ spent' = [spent EXCEPT ![b] = @ + 1]
           /\ spent'[b] = spent[b] + 1 /\ \A c \in Bounded : c # b => spent'[c] = spent[c]
<1>1. spent[b] < Most[b] /\ spent' = [spent EXCEPT ![b] = @ + 1]
  BY DEF Spend
<1>2. Most[b] \in Nat /\ spent[b] \in Nat
  <2>1. Most \in [Bounded -> Nat] /\ spent \in [Bounded -> Nat]
    BY Constants DEF CountsOK
  <2> QED
    BY <2>1
<1>3. spent[b] + 1 <= Most[b]
  BY <1>1, <1>2
<1>4. spent' \in [Bounded -> Nat]
  BY <1>1 DEF CountsOK
<1>5. spent'[b] = spent[b] + 1 /\ \A c \in Bounded : c # b => spent'[c] = spent[c]
  BY <1>1 DEF CountsOK
<1>6. \A c \in Bounded : spent'[c] <= Most[c]
  BY <1>3, <1>5 DEF CountsOK
<1> QED
  BY <1>1, <1>4, <1>5, <1>6 DEF CountsOK

\* The wire carries the same request while its sender is still the first in the
\* queue and has not changed its mind.
LEMMA WireStays ==
    ASSUME WireOK, wire' = wire,
           wire # NoWire => /\ lock' # <<>> /\ Head(lock') = Head(lock)
                            /\ wire.by = "fg" => job' = job
                            /\ wire.by = "bg" => bg' = bg
    PROVE  WireOK'
<1>1. CASE wire = NoWire
  BY <1>1 DEF WireOK
<1>2. CASE wire # NoWire
  <2>1. wire.by \in {"fg", "bg"}
    BY <1>2 DEF WireOK
  <2>2. CASE wire.by = "fg"
    BY <1>2, <2>2 DEF WireOK, Step
  <2>3. CASE wire.by = "bg"
    BY <1>2, <2>3 DEF WireOK, Step
  <2> QED
    BY <2>1, <2>2, <2>3
<1> QED
  BY <1>1, <1>2

\* A job begins at the end of the queue.
LEMMA Starting ==
    ASSUME KeeperInv, Free, NEW step \in Request \ {"tester"}, NEW e \in Ecu,
           NEW m \in Mode \cup {Unknown}, NEW inline \in Seq(Ecu),
           step \in {"wake", "session"} => m \in Mode,
           inline # <<>> => step = "read",
           Start(step, e, m, inline), UNCHANGED <<bg, wire>>
    PROVE  /\ JobOK' /\ LockOK' /\ WireOK' /\ job' # NoJob
           /\ job'.step = step /\ job'.ecu = e /\ job'.mode = m /\ job'.tries = 1
           /\ job'.inline = inline
<1>1. /\ job' = [step |-> step, ecu |-> e, mode |-> m, tries |-> 1, inline |-> inline]
      /\ lock' = Append(lock, "fg")
  BY DEF Start
<1>2. job' \in [step : Request \ {"tester"}, ecu : Ecu, mode : Mode \cup {Unknown},
                tries : 1..2, inline : Seq(Ecu)]
  BY <1>1
<1>3. job' # NoJob
  BY <1>2, Idles
<1>4. JobOK'
  BY <1>1, <1>2 DEF JobOK
<1>5. \/ lock = <<>> /\ bg.pc # "round" /\ lock' = <<"fg">>
      \/ lock = <<"bg">> /\ bg.pc = "round" /\ lock' = <<"bg", "fg">>
  BY <1>1, Queues DEF KeeperInv, LockOK, Free
<1>6. LockOK'
  BY <1>3, <1>5 DEF LockOK
<1>7. wire # NoWire => lock = <<"bg">> /\ lock' = <<"bg", "fg">> /\ wire.by = "bg"
  BY <1>5, Queues DEF KeeperInv, WireOK
<1>8. WireOK'
  BY <1>7, Queues, WireStays DEF KeeperInv
<1> QED
  BY <1>1, <1>3, <1>4, <1>6, <1>8

\* Only keepalives are sent for a session that has been idle.
LEMMA StaleOnes ==
    ASSUME TableOK
    PROVE  /\ StaleList \in Seq(Ecu)
           /\ Range(StaleList) = {e \in Range(tracked) : idle[e] > IdleLimit /\ e \notin refusing}
<1>1. tracked \in Seq(Ecu)
  BY DEF TableOK
<1>2. StaleList \in Seq(Ecu) /\ Range(StaleList) = Range(tracked) \cap Stale
  BY <1>1, AmongSelects DEF StaleList
<1>3. Range(tracked) \subseteq Ecu
  BY <1>1 DEF Range
<1> QED
  BY <1>2, <1>3 DEF Stale

\* An answer to the command: the exchange it answers, and the queue behind it.
LEMMA FgAnswer ==
    ASSUME KeeperInv, NEW R, Answered("fg", R)
    PROVE  /\ wire # NoWire /\ wire.left = 0 /\ wire.req \in R
           /\ wire \in [by : {"fg", "bg"}, ecu : Ecu, req : Request, left : Nat,
                        verdict : {"ok", "nrc", "none", "broken"}]
           /\ job # NoJob /\ lock # <<>> /\ Head(lock) = "fg"
           /\ job \in [step : Request \ {"tester"}, ecu : Ecu, mode : Mode \cup {Unknown},
                       tries : 1..2, inline : Seq(Ecu)]
           /\ \/ lock = <<"fg">> /\ bg.pc # "round" /\ Tail(lock) = <<>>
                 /\ Append(Tail(lock), "fg") = <<"fg">>
              \/ lock = <<"fg", "bg">> /\ bg.pc = "round" /\ Tail(lock) = <<"bg">>
                 /\ Append(Tail(lock), "fg") = <<"bg", "fg">>
           /\ job.inline # <<>> => /\ wire.req = "tester" /\ wire.ecu = Head(job.inline)
                                   /\ job.step = "read"
           /\ job.inline = <<>> => wire.req = job.step /\ wire.ecu = job.ecu
           /\ wire.req = "tester" <=> job.inline # <<>>
<1>1. /\ wire # NoWire /\ wire.left = 0 /\ wire.by = "fg" /\ wire.req \in R
      /\ wire \in [by : {"fg", "bg"}, ecu : Ecu, req : Request, left : Nat,
                   verdict : {"ok", "nrc", "none", "broken"}]
      /\ lock # <<>> /\ Head(lock) = "fg"
      /\ wire.req = Step("fg").req /\ wire.ecu = Step("fg").ecu
  BY DEF Answered, KeeperInv, WireOK
<1>2. /\ job # NoJob
      /\ \/ lock = <<"fg">> /\ bg.pc # "round" /\ Tail(lock) = <<>>
            /\ Append(Tail(lock), "fg") = <<"fg">>
         \/ lock = <<"fg", "bg">> /\ bg.pc = "round" /\ Tail(lock) = <<"bg">>
            /\ Append(Tail(lock), "fg") = <<"bg", "fg">>
  <2>1. \/ lock = <<"fg">> /\ bg.pc # "round" /\ job # NoJob
        \/ lock = <<"fg", "bg">> /\ bg.pc = "round" /\ job # NoJob
    BY <1>1, Queues DEF KeeperInv, LockOK
  <2>2. CASE lock = <<"fg">>
    BY <2>1, <2>2, Queues
  <2>3. CASE lock = <<"fg", "bg">>
    <3>1. Tail(lock) = <<"bg">> /\ Append(<<"bg">>, "fg") = <<"bg", "fg">> /\ lock # <<"fg">>
      BY <2>3, Queues
    <3> QED
      BY <2>1, <2>3, <3>1
  <2> QED
    BY <2>1, <2>2, <2>3
<1>3. /\ job \in [step : Request \ {"tester"}, ecu : Ecu, mode : Mode \cup {Unknown},
                  tries : 1..2, inline : Seq(Ecu)]
      /\ job.inline # <<>> => job.step = "read"
  BY <1>2 DEF KeeperInv, JobOK
<1>4. /\ job.inline # <<>> => wire.req = "tester" /\ wire.ecu = Head(job.inline)
      /\ job.inline = <<>> => wire.req = job.step /\ wire.ecu = job.ecu
  BY <1>1, NextRequests DEF KeeperInv
<1>5. job.step # "tester"
  BY <1>3
<1> QED
  BY <1>1, <1>2, <1>3, <1>4, <1>5

\* The command's exchange is over, and the queue moves up.
LEMMA FgLeaves ==
    ASSUME KeeperInv, NEW R, Answered("fg", R), job' = NoJob, Leave("fg"), bg' = bg
    PROVE  JobOK' /\ LockOK' /\ WireOK'
<1>1. wire' = NoWire /\ lock' = Tail(lock)
  BY DEF Leave
<1>2. LockOK'
  BY <1>1, FgAnswer DEF LockOK
<1> QED
  BY <1>1, <1>2 DEF JobOK, WireOK

\* The command asks again: it keeps its place in the queue.
LEMMA FgAgain ==
    ASSUME KeeperInv, NEW R, Answered("fg", R), job' # NoJob, wire' = NoWire,
           UNCHANGED <<bg, lock>>
    PROVE  LockOK' /\ WireOK'
<1>1. LockOK'
  BY FgAnswer DEF LockOK, KeeperInv
<1> QED
  BY <1>1 DEF WireOK

\* A session is tracked behind those before it.
LEMMA Appending ==
    ASSUME NEW T, NEW s \in Seq(T), IsInjective(s), NEW e \in T, e \notin Range(s)
    PROVE  /\ Append(s, e) \in Seq(T) /\ IsInjective(Append(s, e))
           /\ Range(Append(s, e)) = Range(s) \cup {e}
           /\ Len(Append(s, e)) = Len(s) + 1 /\ Append(s, e)[Len(s) + 1] = e
           /\ \A i \in 1..Len(s) : Append(s, e)[i] = s[i]
<1> DEFINE u == Append(s, e)
           l == Len(s) + 1
<1>1. DOMAIN s = 1..Len(s) /\ Len(s) \in Nat
  OBVIOUS
<1>2. /\ u \in Seq(T) /\ Len(u) = l /\ u[l] = e
      /\ \A i \in 1..Len(s) : u[i] = s[i]
  BY AppendProperties
<1>3. DOMAIN u = (DOMAIN s) \cup {l}
  BY <1>1, <1>2
<1> HIDE DEF u, l
<1>4. \A i \in DOMAIN s : u[i] = s[i] /\ s[i] # e
  BY <1>1, <1>2 DEF Range
<1>5. IsInjective(u)
  BY <1>2, <1>3, <1>4 DEF IsInjective
<1>6. Range(u) \subseteq Range(s) \cup {e}
  BY <1>2, <1>3, <1>4 DEF Range
<1>7. Range(s) \cup {e} \subseteq Range(u)
  BY <1>2, <1>3, <1>4 DEF Range
<1> QED
  BY <1>2, <1>5, <1>6, <1>7 DEF u, l

\* While the sessions are opened the next one is not tracked yet.
LEMMA NextIsNew ==
    ASSUME TableOK, PhaseOK, phase = "opening", Len(tracked) < Len(Steps)
    PROVE  Steps[Len(tracked) + 1] \notin Range(tracked)
<1>1. Len(tracked) \in Nat /\ DOMAIN tracked = 1..Len(tracked)
  BY DEF TableOK
<1>2. \A i \in 1..Len(tracked) : tracked[i] = Steps[i]
  BY DEF PhaseOK
<1>3. /\ Len(tracked) + 1 \in 1..Len(Steps)
      /\ \A i \in 1..Len(tracked) : i \in 1..Len(Steps) /\ i # Len(tracked) + 1
  BY <1>1, Constants
<1>4. \A i \in 1..Len(tracked) : Steps[i] # Steps[Len(tracked) + 1]
  BY <1>3, Constants
<1> QED
  BY <1>1, <1>2, <1>4 DEF Range

\* Spoiling a session's timer keeps within the bound.
LEMMA SpoiltType ==
    ASSUME KeeperInv, NEW e \in Ecu
    PROVE  /\ Spoilt(e) \in [Ecu -> 0..Patience] /\ Spoilt(e)[e] = Patience
           /\ \A f \in Ecu : f # e => Spoilt(e)[f] = late[f]
<1>1. Patience \in 0..Patience
  BY Constants
<1> QED
  BY <1>1 DEF Spoilt, KeeperInv, EcusOK

-----------------------------------------------------------------------------
(* Every step keeps the invariant. *)

\* A job that begins leaves the table and the ECUs alone.
LEMMA OpenKeeps == ASSUME KeeperInv, Open PROVE KeeperInv'
<1>1. PICK m \in Mode, step \in {"wake", "session"} : Start(step, Steps[Len(tracked) + 1], m, <<>>)
  BY DEF Open
<1>2. /\ phase = "opening" /\ Free /\ Len(tracked) < Len(Steps)
      /\ UNCHANGED <<table, bg, linkError, phase, wire, limit, ecus, spent>>
  BY DEF Open
<1> DEFINE e == Steps[Len(tracked) + 1]
<1>3. e \in Ecu
  <2>1. Len(tracked) \in Nat
    BY DEF KeeperInv, TableOK
  <2>2. Len(tracked) + 1 \in 1..Len(Steps)
    BY <1>2, <2>1, Constants
  <2> QED
    BY <2>2, Constants
<1>4. step \in Request \ {"tester"} /\ <<>> \in Seq(Ecu)
  BY DEF Request
<1> HIDE DEF e
<1>5. /\ JobOK' /\ LockOK' /\ WireOK' /\ job' # NoJob
      /\ job'.step = step /\ job'.ecu = e
  <2>1. Start(step, e, m, <<>>)
    BY <1>1 DEF e
  <2> QED
    BY <1>2, <1>3, <1>4, <2>1, Starting
<1>6. TableOK' /\ EcusOK' /\ CountsOK' /\ TaskOK'
  BY <1>2 DEF KeeperInv, TableOK, EcusOK, CountsOK, TaskOK, table, ecus
<1>7. PhaseOK'
  BY <1>2, <1>5 DEF KeeperInv, PhaseOK, table, e
<1> QED
  BY <1>5, <1>6, <1>7 DEF KeeperInv

\* A switch asks for the terminal, for a session that is tracked.
LEMMA SwitchKeeps == ASSUME KeeperInv, NEW e \in Ecu, Switch(e) PROVE KeeperInv'
<1>1. PICK m \in Mode : Start("session", e, m, <<>>)
  BY DEF Switch
<1>2. /\ phase = "running" /\ Free /\ e \in Range(tracked)
      /\ UNCHANGED <<table, bg, linkError, phase, wire, limit, ecus, spent>>
  BY DEF Switch, Has
<1>3. "session" \in Request \ {"tester"} /\ <<>> \in Seq(Ecu)
  BY DEF Request
<1>4. /\ JobOK' /\ LockOK' /\ WireOK' /\ job' # NoJob
      /\ job'.step = "session" /\ job'.ecu = e
  BY <1>1, <1>2, <1>3, Starting
<1>5. TableOK' /\ EcusOK' /\ CountsOK' /\ TaskOK'
  BY <1>2 DEF KeeperInv, TableOK, EcusOK, CountsOK, TaskOK, table, ecus
<1>6. PhaseOK'
  BY <1>2, <1>4 DEF PhaseOK, table
<1> QED
  BY <1>4, <1>5, <1>6 DEF KeeperInv

\* So does a read, with the keepalives that it sends first.
LEMMA ReadKeeps == ASSUME KeeperInv, NEW e \in Ecu, Read(e) PROVE KeeperInv'
<1>1. /\ phase = "running" /\ Free /\ Start("read", e, Unknown, StaleList)
      /\ UNCHANGED <<table, bg, linkError, phase, wire, limit, ecus, spent>>
  BY DEF Read
<1>2. "read" \in Request \ {"tester"} /\ StaleList \in Seq(Ecu)
  BY StaleOnes DEF Request, KeeperInv
<1>3. JobOK' /\ LockOK' /\ WireOK' /\ job'.step = "read"
  BY <1>1, <1>2, Starting
<1>4. TableOK' /\ EcusOK' /\ CountsOK' /\ TaskOK'
  BY <1>1 DEF KeeperInv, TableOK, EcusOK, CountsOK, TaskOK, table, ecus
<1>5. PhaseOK'
  BY <1>1, <1>3 DEF PhaseOK, table
<1> QED
  BY <1>3, <1>4, <1>5 DEF KeeperInv

\* The next session is closed, or none is left.
LEMMA CloseNextKeeps == ASSUME KeeperInv, CloseNext PROVE KeeperInv'
<1>1. /\ phase = "closing" /\ Free
      /\ UNCHANGED <<table, bg, linkError, wire, limit, ecus, spent>>
  BY DEF CloseNext
<1>2. bg = Off
  BY <1>1 DEF KeeperInv, PhaseOK
<1>3. EcusOK' /\ CountsOK' /\ TaskOK'
  BY <1>1 DEF KeeperInv, EcusOK, CountsOK, TaskOK, ecus
<1>4. CASE tracked # <<>> /\ Start("default", Head(tracked), Unknown, <<>>) /\ UNCHANGED phase
  <2>1. Head(tracked) \in Ecu /\ "default" \in Request \ {"tester"} /\ <<>> \in Seq(Ecu)
    BY <1>4 DEF KeeperInv, TableOK, Request
  <2>2. JobOK' /\ LockOK' /\ WireOK' /\ job'.step = "default"
    BY <1>1, <1>4, <2>1, Starting
  <2>3. TableOK'
    BY <1>1, <1>4 DEF KeeperInv, TableOK, table
  <2>4. PhaseOK'
    BY <1>1, <1>2, <1>4, <2>2 DEF PhaseOK
  <2> QED
    BY <1>3, <2>2, <2>3, <2>4 DEF KeeperInv
<1>5. CASE tracked = <<>> /\ phase' = "closed" /\ UNCHANGED <<job, lock>>
  <2>1. TableOK'
    BY <1>1, <1>5 DEF KeeperInv, TableOK, table
  <2>2. PhaseOK'
    BY <1>1, <1>2, <1>5 DEF PhaseOK, Free
  <2>3. JobOK' /\ LockOK' /\ WireOK'
    BY <1>1, <1>5 DEF KeeperInv, JobOK, LockOK, WireOK, Step
  <2> QED
    BY <1>3, <2>1, <2>2, <2>3 DEF KeeperInv
<1> QED
  BY <1>4, <1>5 DEF CloseNext

\* The background task begins asleep, once every session is open.
LEMMA StartBackgroundKeeps == ASSUME KeeperInv, StartBackground PROVE KeeperInv'
<1>1. /\ phase = "opening" /\ job = NoJob /\ phase' = "running" /\ bg' = Asleep
      /\ UNCHANGED <<table, linkError, job, lock, wire, limit, ecus, spent>>
  BY DEF StartBackground, Free
<1>2. bg.pc # "round"
  BY <1>1, Idles DEF KeeperInv, PhaseOK
<1>3. lock = <<>>
  BY <1>1, <1>2 DEF KeeperInv, LockOK
<1>4. wire = NoWire
  BY <1>3 DEF KeeperInv, WireOK
<1>5. TaskOK'
  BY <1>1, Idles DEF TaskOK
<1>6. JobOK' /\ LockOK' /\ WireOK' /\ PhaseOK'
  BY <1>1, <1>3, <1>4, Idles DEF JobOK, LockOK, WireOK, PhaseOK
<1>7. TableOK' /\ EcusOK' /\ CountsOK'
  BY <1>1 DEF KeeperInv, TableOK, EcusOK, CountsOK, table, ecus
<1> QED
  BY <1>5, <1>6, <1>7 DEF KeeperInv

\* Opening a session again touches only the time it was refreshed.
LEMMA OpenAgainKeeps == ASSUME KeeperInv, NEW e \in Ecu, OpenAgain(e) PROVE KeeperInv'
<1>1. /\ idle' = [idle EXCEPT ![e] = 0] /\ late' = Spoilt(e) /\ Spend("again")
      /\ UNCHANGED <<tracked, mode, refusing, bg, linkError, phase, job, lock, wire, limit,
                     session, s3>>
  BY DEF OpenAgain
<1>2. CountsOK'
  BY <1>1, Spending DEF KeeperInv, Bounded
<1>3. TableOK'
  <2>1. 0 \in 0..(IdleLimit + 1)
    BY Constants
  <2> QED
    BY <1>1, <2>1 DEF KeeperInv, TableOK
<1>4. EcusOK' /\ JobOK' /\ TaskOK' /\ LockOK' /\ PhaseOK'
  <2>1. EcusOK'
    BY <1>1, SpoiltType DEF KeeperInv, EcusOK
  <2> QED
    BY <1>1, <2>1 DEF KeeperInv, JobOK, TaskOK, LockOK, PhaseOK
<1>5. WireOK'
  BY <1>1 DEF KeeperInv, WireOK, Step
<1> QED
  BY <1>2, <1>3, <1>4, <1>5 DEF KeeperInv

\* Every way out of the command stops the background task and gives up the queue.
LEMMA LeavingKeeps ==
    ASSUME KeeperInv, Leaving,
           UNCHANGED <<mode, refusing, linkError, session, s3, spent>>
    PROVE  KeeperInv'
<1>1. /\ idle' = [e \in Ecu |-> 0] /\ late' = [e \in Ecu |-> 0]
      /\ bg' = Off /\ lock' = <<>> /\ wire' = NoWire /\ job' = NoJob
      /\ \/ phase' = "closing" /\ limit' = CloseLimit /\ UNCHANGED tracked
         \/ phase' = "closed" /\ UNCHANGED limit /\ tracked' = <<>>
  BY DEF Leaving
<1>2. TableOK'
  <2>1. 0 \in 0..(IdleLimit + 1) /\ CloseLimit \in 0..CloseLimit
    BY Constants
  <2>2. tracked' \in Seq(Ecu) /\ IsInjective(tracked')
    <3>1. CASE tracked' = tracked
      BY <3>1 DEF KeeperInv, TableOK
    <3>2. CASE tracked' = <<>>
      BY <3>2 DEF IsInjective
    <3> QED
      BY <1>1, <3>1, <3>2
  <2> QED
    BY <1>1, <2>1, <2>2 DEF KeeperInv, TableOK
<1>3. EcusOK' /\ CountsOK'
  <2>1. 0 \in 0..Patience
    BY Constants
  <2> QED
    BY <1>1, <2>1 DEF KeeperInv, EcusOK, CountsOK
<1>4. JobOK' /\ TaskOK' /\ LockOK' /\ WireOK' /\ PhaseOK'
  BY <1>1, Idles DEF JobOK, TaskOK, LockOK, WireOK, PhaseOK
<1> QED
  BY <1>2, <1>3, <1>4 DEF KeeperInv

\* Giving up on closing leaves the terminal to nobody.
LEMMA CloseCutKeeps == ASSUME KeeperInv, CloseCut PROVE KeeperInv'
<1>1. /\ phase = "closing" /\ phase' = "closed" /\ job' = NoJob /\ lock' = <<>> /\ wire' = NoWire
      /\ UNCHANGED <<table, bg, linkError, limit, ecus, spent>>
  BY DEF CloseCut
<1>2. bg' = Off
  BY <1>1 DEF KeeperInv, PhaseOK
<1>3. TableOK' /\ EcusOK' /\ CountsOK' /\ TaskOK'
  BY <1>1 DEF KeeperInv, TableOK, EcusOK, CountsOK, TaskOK, table, ecus
<1>4. JobOK' /\ LockOK' /\ WireOK' /\ PhaseOK'
  BY <1>1, <1>2, Idles DEF JobOK, LockOK, WireOK, PhaseOK
<1> QED
  BY <1>3, <1>4 DEF KeeperInv

\* The task wakes: it ends, sleeps on, or queues for a round.
LEMMA WakesKeeps == ASSUME KeeperInv, Wakes PROVE KeeperInv'
<1>1. /\ bg.pc = "sleep"
      /\ UNCHANGED <<table, linkError, phase, job, wire, limit, ecus, spent>>
  BY DEF Wakes
<1>2. phase = "running"
  BY <1>1, Idles DEF KeeperInv, TableOK, PhaseOK
<1>3. TableOK' /\ EcusOK' /\ CountsOK' /\ JobOK' /\ PhaseOK'
  BY <1>1, <1>2 DEF KeeperInv, TableOK, EcusOK, CountsOK, JobOK, PhaseOK, table, ecus
<1>4. wire # NoWire => wire.by = "fg" /\ lock = <<"fg">> /\ Head(lock) = "fg"
  BY <1>1, Queues DEF KeeperInv, LockOK, WireOK
<1>5. CASE (bg' = Off \/ bg' = Asleep) /\ UNCHANGED lock
  <2>1. TaskOK' /\ bg'.pc # "round"
    BY <1>5, Idles DEF TaskOK
  <2>2. LockOK'
    BY <1>1, <1>5, <2>1 DEF KeeperInv, LockOK
  <2>3. WireOK'
    BY <1>1, <1>4, <1>5, Queues, WireStays DEF KeeperInv
  <2> QED
    BY <1>3, <2>1, <2>2, <2>3 DEF KeeperInv
<1>6. CASE /\ StaleList # <<>> /\ lock' = Append(lock, "bg")
           /\ bg' = [pc |-> "round", left |-> 0, rest |-> StaleList]
  <2>1. TaskOK' /\ bg'.pc = "round"
    <3>1. StaleList \in Seq(Ecu) /\ 0 \in 0..Interval
      BY StaleOnes, Constants DEF KeeperInv
    <3> QED
      BY <1>6, <3>1 DEF TaskOK
  <2>2. \/ lock = <<>> /\ job = NoJob /\ lock' = <<"bg">>
        \/ lock = <<"fg">> /\ job # NoJob /\ lock' = <<"fg", "bg">>
    <3>1. \/ lock = <<>> /\ job = NoJob
          \/ lock = <<"fg">> /\ job # NoJob
      BY <1>1 DEF KeeperInv, LockOK
    <3>2. Append(<<>>, "bg") = <<"bg">>
      BY Queues
    <3>3. Append(<<"fg">>, "bg") = <<"fg", "bg">>
      BY Queues
    <3> QED
      BY <1>6, <3>1, <3>2, <3>3
  <2>3. LockOK'
    BY <1>1, <2>1, <2>2 DEF LockOK
  <2>4. WireOK'
    BY <1>1, <1>4, <2>2, Queues, WireStays DEF KeeperInv
  <2> QED
    BY <1>3, <2>1, <2>3, <2>4 DEF KeeperInv
<1> QED
  BY <1>5, <1>6 DEF Wakes

\* What an ECU hears leaves its timer running exactly in a session it was put in.
LEMMA Hearing ==
    ASSUME KeeperInv, lock # <<>>, NEW v \in Verdicts(Step(Head(lock))) \cup {"nrc"},
           Heard(Step(Head(lock)), v)
    PROVE  EcusOK'
<1> DEFINE r == Step(Head(lock))
<1>1. r.ecu \in Ecu /\ (r.req = "session" => job # NoJob /\ job.step = "session")
  BY Turn
<1>2. r.req = "session" => job.mode \in Mode
  BY <1>1, Idles DEF KeeperInv, JobOK
<1> HIDE DEF r
<1>3. After(r, v) \in Mode \cup {Default}
  BY <1>1, <1>2 DEF After, KeeperInv, EcusOK
<1>4. /\ session' = [session EXCEPT ![r.ecu] = After(r, v)]
      /\ s3' = [s3 EXCEPT ![r.ecu] = IF After(r, v) = Default THEN 0 ELSE S3]
      /\ late' = late \/ late' = [late EXCEPT ![r.ecu] = 0]
  BY DEF Heard, r
<1>5. S3 \in 0..S3 /\ 0 \in 0..S3 /\ S3 # 0 /\ 0 \in 0..Patience
  BY Constants
<1>6. session' \in [Ecu -> Mode \cup {Default}] /\ s3' \in [Ecu -> 0..S3]
  BY <1>3, <1>4, <1>5 DEF KeeperInv, EcusOK
<1>7. late' \in [Ecu -> 0..Patience]
  BY <1>4, <1>5 DEF KeeperInv, EcusOK
<1>8. ASSUME NEW e \in Ecu PROVE (s3'[e] = 0) <=> (session'[e] = Default)
  <2>1. CASE e = r.ecu
    BY <1>1, <1>4, <1>5, <2>1 DEF KeeperInv, EcusOK
  <2>2. CASE e # r.ecu
    BY <1>4, <2>2 DEF KeeperInv, EcusOK
  <2> QED
    BY <2>1, <2>2
<1> QED
  BY <1>6, <1>7, <1>8 DEF EcusOK

\* What may become of a request, by what comes back and when: who hears it, and
\* which bound it counts against.
Outcome(r, left, v) ==
    \/ v \in Verdicts(r) /\ Heard(r, v) /\ UNCHANGED spent
    \/ /\ v = "nrc" /\ Heard(r, "nrc") /\ left = 0
       /\ r.req = "tester" /\ Spend("refusal")
    \/ /\ v = "none" /\ Silent("answer", r)
       /\ \E u \in Verdicts(r) : Heard(r, u)
    \/ /\ v = "none" /\ UNCHANGED ecus
       /\ Silent(IF r.req = "tester" THEN "keepalive" ELSE "request", r)
    \/ v = "broken" /\ left = 0 /\ UNCHANGED ecus /\ Spend("broken")

\* A request that is sent has one of these outcomes.
LEMMA Outcomes ==
    ASSUME KeeperInv, Send
    PROVE  /\ lock # <<>> /\ wire = NoWire
           /\ UNCHANGED <<table, bg, linkError, phase, job, lock, limit>>
           /\ CountsOK'
           /\ \E left \in Nat, v \in {"ok", "nrc", "none", "broken"} :
                 /\ wire' = [by |-> Head(lock), ecu |-> Step(Head(lock)).ecu,
                             req |-> Step(Head(lock)).req, left |-> left, verdict |-> v]
                 /\ Outcome(Step(Head(lock)), left, v)
<1> DEFINE r == Step(Head(lock))
           Goes(left, v) == wire' = [by |-> Head(lock), ecu |-> r.ecu, req |-> r.req,
                                     left |-> left, verdict |-> v]
<1>1. /\ lock # <<>> /\ wire = NoWire
      /\ UNCHANGED <<table, bg, linkError, phase, job, lock, limit>>
  BY DEF Send
<1>2. \/ /\ \E v \in Verdicts(r), left \in 0..Delay : Heard(r, v) /\ Goes(left, v)
         /\ UNCHANGED spent
      \/ /\ r.req = "tester" /\ Spend("refusal")
         /\ Heard(r, "nrc") /\ Goes(0, "nrc")
      \/ /\ Silent("answer", r) /\ Goes(TimeoutOf[r.req], "none")
         /\ \E v \in Verdicts(r) : Heard(r, v)
      \/ /\ Silent(IF r.req = "tester" THEN "keepalive" ELSE "request", r)
         /\ Goes(TimeoutOf[r.req], "none")
         /\ UNCHANGED ecus
      \/ Spend("broken") /\ Goes(0, "broken") /\ UNCHANGED ecus
  BY DEF Send
<1>3. TimeoutOf[r.req] \in Nat /\ \A left \in 0..Delay : left \in Nat
  <2>1. r.req \in Request
    BY <1>1, Turn
  <2> QED
    BY <2>1, Constants
<1>4. \A v \in Verdicts(r) : v \in {"ok", "nrc"}
  BY DEF Verdicts
<1>5. "refusal" \in Bounded /\ "answer" \in Bounded
      /\ "keepalive" \in Bounded /\ "request" \in Bounded /\ "broken" \in Bounded
  BY DEF Bounded
<1> HIDE DEF r
<1>6. ASSUME NEW b \in {"answer", "keepalive", "request"}, Silent(b, r) PROVE CountsOK'
  <2>1. CASE UNCHANGED spent
    BY <2>1 DEF KeeperInv, CountsOK
  <2>2. CASE Spend(b)
    BY <1>5, <2>2, Spending DEF KeeperInv
  <2> QED
    BY <1>6, <2>1, <2>2 DEF Silent
<1>7. CountsOK'
  <2>1. CASE UNCHANGED spent
    BY <2>1 DEF KeeperInv, CountsOK
  <2>2. CASE \E b \in {"refusal", "broken"} : Spend(b)
    BY <1>5, <2>2, Spending DEF KeeperInv
  <2>3. CASE \E b \in {"answer", "keepalive", "request"} : Silent(b, r)
    BY <1>6, <2>3
  <2> QED
    BY <1>2, <2>1, <2>2, <2>3
<1>8. \E left \in Nat, v \in {"ok", "nrc", "none", "broken"} :
         /\ Goes(left, v)
         /\ Outcome(r, left, v)
  <2> HIDE DEF Goes
  <2> QED
    BY <1>2, <1>3, <1>4, Zenon DEF Outcome
<1> QED
  BY <1>1, <1>7, <1>8 DEF r

\* A request is sent by the task at the head of the queue.
LEMMA SendKeeps == ASSUME KeeperInv, Send PROVE KeeperInv'
<1>1. PICK left \in Nat, v \in {"ok", "nrc", "none", "broken"} :
         /\ wire' = [by |-> Head(lock), ecu |-> Step(Head(lock)).ecu,
                     req |-> Step(Head(lock)).req, left |-> left, verdict |-> v]
         /\ Outcome(Step(Head(lock)), left, v)
  BY Outcomes
<1>2. /\ lock # <<>> /\ CountsOK'
      /\ UNCHANGED <<table, bg, linkError, phase, job, lock, limit>>
  BY Outcomes
<1>3. TableOK' /\ JobOK' /\ TaskOK' /\ LockOK' /\ PhaseOK'
  BY <1>2 DEF KeeperInv, TableOK, JobOK, TaskOK, LockOK, PhaseOK, table
<1>4. WireOK'
  <2>1. PICK t : t = Head(lock)
    OBVIOUS
  <2>2. PICK q, e : q = Step(t).req /\ e = Step(t).ecu
    OBVIOUS
  <2>3. t \in {"fg", "bg"} /\ e \in Ecu /\ q \in Request
    BY <1>2, <2>1, <2>2, Turn
  <2>4. wire' = [by |-> t, ecu |-> e, req |-> q, left |-> left, verdict |-> v]
    BY <1>1, <2>1, <2>2
  <2>5. lock' # <<>> /\ t = Head(lock')
    BY <1>2, <2>1
  <2>6. q = Step(t)'.req /\ e = Step(t)'.ecu
    BY <1>2, <2>2 DEF Step
  <2>7. /\ wire' \in [by : {"fg", "bg"}, ecu : Ecu, req : Request, left : Nat,
                      verdict : {"ok", "nrc", "none", "broken"}]
        /\ wire'.by = t /\ wire'.req = q /\ wire'.ecu = e
    BY <2>3, <2>4
  <2>8. Step(wire.by)' = Step(t)'
    BY <2>7 DEF Step
  <2> QED
    BY <2>5, <2>6, <2>7, <2>8 DEF WireOK
<1>5. EcusOK'
  <2>1. CASE UNCHANGED ecus
    BY <2>1 DEF KeeperInv, EcusOK, ecus
  <2>2. CASE \E u \in Verdicts(Step(Head(lock))) \cup {"nrc"} : Heard(Step(Head(lock)), u)
    BY <1>2, <2>2, Hearing
  <2> QED
    BY <1>1, <2>1, <2>2 DEF Outcome
<1> QED
  BY <1>2, <1>3, <1>4, <1>5 DEF KeeperInv

\* What a keepalive does to the table.
LEMMA KeptTable ==
    ASSUME KeeperInv, wire # NoWire, Kept(wire.ecu), UNCHANGED <<phase, limit>>
    PROVE  TableOK' /\ (UNCHANGED <<session, s3>> => EcusOK')
<1>1. 0 \in 0..(IdleLimit + 1) /\ wire.ecu \in Ecu
  BY Constants DEF KeeperInv, WireOK
<1>2. /\ idle' = IF wire.ecu \in Range(tracked) THEN [idle EXCEPT ![wire.ecu] = 0] ELSE idle
      /\ refusing' \subseteq refusing \cup {wire.ecu}
      /\ late' = late \/ late' = Spoilt(wire.ecu)
      /\ UNCHANGED <<tracked, mode, linkError>>
  BY DEF Kept, Refresh, Has
<1>3. idle' \in [Ecu -> 0..(IdleLimit + 1)]
  BY <1>1, <1>2 DEF KeeperInv, TableOK
<1>4. TableOK'
  BY <1>1, <1>2, <1>3 DEF KeeperInv, TableOK
<1>5. late' \in [Ecu -> 0..Patience]
  BY <1>1, <1>2, SpoiltType DEF KeeperInv, EcusOK
<1> QED
  BY <1>4, <1>5 DEF KeeperInv, EcusOK

\* The background's keepalive ends its round or queues the next one.
LEMMA BackgroundKeptKeeps == ASSUME KeeperInv, BackgroundKept PROVE KeeperInv'
<1>1. /\ wire # NoWire /\ wire.by = "bg" /\ UNCHANGED <<phase, job, limit, session, s3, spent>>
  BY DEF BackgroundKept, Answered
<1>2. lock # <<>> /\ Head(lock) = "bg"
  BY <1>1 DEF KeeperInv, WireOK
<1>3. bg.pc = "round" /\ Tail(lock) = IF job = NoJob THEN <<>> ELSE <<"fg">>
  BY <1>2, Turn
<1>4. wire' = NoWire
  BY DEF BackgroundKept, Leave
<1>5. JobOK' /\ WireOK' /\ CountsOK'
  BY <1>1, <1>4 DEF KeeperInv, JobOK, WireOK, CountsOK
<1>6. phase = "running"
  BY <1>3, Idles DEF KeeperInv, TableOK, PhaseOK
<1>7. CASE wire.verdict # "broken" /\ Kept(wire.ecu)
  <2>1. TableOK' /\ EcusOK'
    BY <1>1, <1>7, KeptTable
  <2>2. tracked' = tracked
    BY <1>7 DEF Kept
  <2>3. PhaseOK'
    BY <1>1, <1>6, <2>2 DEF KeeperInv, PhaseOK
  <2>4. CASE bg' = Asleep /\ lock' = Tail(lock)
    <3>1. TaskOK' /\ bg'.pc = "sleep"
      BY <2>4, Idles DEF TaskOK
    <3>2. LockOK'
      BY <1>1, <1>3, <2>4, <3>1 DEF LockOK
    <3> QED
      BY <1>5, <2>1, <2>3, <3>1, <3>2 DEF KeeperInv
  <2>5. CASE Len(bg.rest) > 1 /\ bg' = [bg EXCEPT !.rest = Tail(@)] /\ lock' = Append(Tail(lock), "bg")
    <3>1. Tail(bg.rest) \in Seq(Ecu) /\ Tail(bg.rest) # <<>>
      <4>1. bg.rest \in Seq(Ecu) /\ bg.rest # <<>>
        BY <1>3 DEF KeeperInv, TaskOK
      <4>2. Tail(bg.rest) \in Seq(Ecu) /\ Len(Tail(bg.rest)) = Len(bg.rest) - 1
        BY <4>1, HeadTailProperties
      <4>3. Len(Tail(bg.rest)) > 0
        BY <2>5, <4>1, <4>2
      <4> QED
        BY <4>2, <4>3
    <3>2. bg'.pc = "round" /\ bg'.rest = Tail(bg.rest)
          /\ bg' \in [pc : {"off", "sleep", "round"}, left : 0..Interval, rest : Seq(Ecu)]
      BY <1>3, <2>5, <3>1 DEF KeeperInv, TaskOK
    <3>3. TaskOK'
      BY <3>1, <3>2 DEF TaskOK
    <3>4. LockOK'
      <4>1. Append(<<>>, "bg") = <<"bg">>
        BY Queues
      <4>2. Append(<<"fg">>, "bg") = <<"fg", "bg">>
        BY Queues
      <4> QED
        BY <1>1, <1>3, <2>5, <3>2, <4>1, <4>2 DEF LockOK
    <3> QED
      BY <1>5, <2>1, <2>3, <3>3, <3>4 DEF KeeperInv
  <2> QED
    BY <1>7, <2>4, <2>5 DEF BackgroundKept
<1>8. CASE linkError' = TRUE /\ bg' = Off /\ Leave("bg") /\ UNCHANGED <<table, late>>
  <2>1. TableOK' /\ EcusOK'
    BY <1>1, <1>8 DEF KeeperInv, TableOK, EcusOK, table
  <2>2. TaskOK' /\ bg'.pc = "off"
    BY <1>8, Idles DEF TaskOK
  <2>3. LockOK'
    BY <1>1, <1>3, <1>8, <2>2 DEF LockOK, Leave
  <2>4. PhaseOK'
    BY <1>1, <1>6, <1>8 DEF KeeperInv, PhaseOK, table
  <2> QED
    BY <1>5, <2>1, <2>2, <2>3, <2>4 DEF KeeperInv
<1> QED
  BY <1>7, <1>8 DEF BackgroundKept

\* The command's keepalive: it queues again for the next or for its read.
LEMMA InlineKeptKeeps == ASSUME KeeperInv, InlineKept PROVE KeeperInv'
<1>1. /\ Answered("fg", {"tester"}) /\ Kept(wire.ecu)
      /\ wire' = NoWire /\ lock' = Append(Tail(lock), "fg")
      /\ job' = [job EXCEPT !.inline = Tail(@)]
      /\ UNCHANGED <<bg, phase, limit, session, s3, spent>>
  BY DEF InlineKept
<1>2. /\ wire # NoWire /\ wire.req \in {"tester"} /\ job # NoJob
      /\ job \in [step : Request \ {"tester"}, ecu : Ecu, mode : Mode \cup {Unknown},
                  tries : 1..2, inline : Seq(Ecu)]
      /\ job.inline # <<>> /\ job.step = "read"
  BY <1>1, FgAnswer
<1>3. \/ bg.pc # "round" /\ lock' = <<"fg">>
      \/ bg.pc = "round" /\ lock' = <<"bg", "fg">>
  BY <1>1, FgAnswer
<1>4. TableOK' /\ EcusOK'
  BY <1>1, <1>2, KeptTable
<1>5. /\ job' \in [step : Request \ {"tester"}, ecu : Ecu, mode : Mode \cup {Unknown},
                   tries : 1..2, inline : Seq(Ecu)]
      /\ job'.step = "read"
  <2>1. Tail(job.inline) \in Seq(Ecu)
    BY <1>2
  <2> QED
    BY <1>1, <1>2, <2>1
<1>6. JobOK' /\ job' # NoJob
  BY <1>5, Idles DEF JobOK
<1>7. LockOK' /\ WireOK'
  BY <1>1, <1>3, <1>6 DEF LockOK, WireOK
<1>8. CountsOK' /\ TaskOK'
  BY <1>1 DEF KeeperInv, CountsOK, TaskOK
<1>9. PhaseOK'
  BY <1>1, <1>2, <1>5 DEF KeeperInv, TableOK, PhaseOK
<1> QED
  BY <1>4, <1>6, <1>7, <1>8, <1>9 DEF KeeperInv

\* The command goes on from the wake-up to the session, or wakes again.
LEMMA WokenKeeps == ASSUME KeeperInv, Woken PROVE KeeperInv'
<1>1. /\ Answered("fg", {"wake"}) /\ wire' = NoWire
      /\ job' = IF wire.verdict = "ok" \/ job.tries = 2
                THEN [job EXCEPT !.step = "session", !.tries = 1] ELSE [job EXCEPT !.tries = 2]
      /\ UNCHANGED <<table, bg, linkError, phase, lock, limit, ecus, spent>>
  BY DEF Woken
<1>2. /\ job \in [step : Request \ {"tester"}, ecu : Ecu, mode : Mode \cup {Unknown},
                  tries : 1..2, inline : Seq(Ecu)]
      /\ job # NoJob /\ job.step = "wake" /\ job.inline = <<>>
  <2>1. wire.req \in {"wake"}
    BY <1>1, FgAnswer
  <2> QED
    BY <1>1, <2>1, FgAnswer
<1>3. job.mode \in Mode
  BY <1>2 DEF KeeperInv, JobOK
<1>4. /\ job' \in [step : Request \ {"tester"}, ecu : Ecu, mode : Mode \cup {Unknown},
                   tries : 1..2, inline : Seq(Ecu)]
      /\ job'.step \in {"wake", "session"} /\ job'.ecu = job.ecu
      /\ job'.mode = job.mode /\ job'.inline = <<>>
  <2>1. "session" \in Request \ {"tester"} /\ 1 \in 1..2 /\ 2 \in 1..2
    BY DEF Request
  <2>2. CASE job' = [job EXCEPT !.step = "session", !.tries = 1]
    BY <1>2, <2>1, <2>2
  <2>3. CASE job' = [job EXCEPT !.tries = 2]
    BY <1>2, <2>1, <2>3
  <2> QED
    BY <1>1, <2>2, <2>3
<1>5. JobOK' /\ job' # NoJob
  BY <1>3, <1>4, Idles DEF JobOK
<1>6. LockOK' /\ WireOK'
  BY <1>1, <1>5, FgAgain
<1>7. TableOK' /\ EcusOK' /\ CountsOK' /\ TaskOK'
  BY <1>1 DEF KeeperInv, TableOK, EcusOK, CountsOK, TaskOK, table, ecus
<1>8. PhaseOK'
  BY <1>1, <1>2, <1>4, <1>5 DEF KeeperInv, TableOK, PhaseOK, table
<1> QED
  BY <1>5, <1>6, <1>7, <1>8 DEF KeeperInv

\* The session request is repeated once; then the ECU is in the table.
LEMMA OpenedKeeps == ASSUME KeeperInv, Opened PROVE KeeperInv'
<1>1. /\ Answered("fg", {"session"})
      /\ UNCHANGED <<refusing, bg, linkError, phase, limit, session, s3, spent>>
  BY DEF Opened
<1>2. /\ job \in [step : Request \ {"tester"}, ecu : Ecu, mode : Mode \cup {Unknown},
                  tries : 1..2, inline : Seq(Ecu)]
      /\ job # NoJob /\ job.step = "session" /\ job.inline = <<>> /\ wire.ecu = job.ecu
  <2>1. wire.req \in {"session"}
    BY <1>1, FgAnswer
  <2> QED
    BY <1>1, <2>1, FgAnswer
<1>3. job.mode \in Mode /\ job.ecu \in Ecu
  BY <1>2 DEF KeeperInv, JobOK
<1>4. EcusOK' /\ CountsOK' /\ TaskOK'
  <2>1. late' = late \/ late' = Spoilt(job.ecu)
    BY <1>2 DEF Opened
  <2>2. EcusOK'
    BY <1>1, <1>3, <2>1, SpoiltType DEF KeeperInv, EcusOK
  <2> QED
    BY <1>1, <2>2 DEF KeeperInv, CountsOK, TaskOK
<1>5. CASE /\ job' = [job EXCEPT !.tries = 2] /\ wire' = NoWire
           /\ UNCHANGED <<lock, tracked, mode, idle>>
  <2>1. /\ job' \in [step : Request \ {"tester"}, ecu : Ecu, mode : Mode \cup {Unknown},
                     tries : 1..2, inline : Seq(Ecu)]
        /\ job'.step = "session" /\ job'.ecu = job.ecu
        /\ job'.mode = job.mode /\ job'.inline = <<>>
    BY <1>2, <1>5
  <2>2. JobOK' /\ job' # NoJob
    BY <1>3, <2>1, Idles DEF JobOK
  <2>3. LockOK' /\ WireOK'
    BY <1>1, <1>5, <2>2, FgAgain
  <2>4. TableOK' /\ PhaseOK'
    BY <1>1, <1>2, <1>5, <2>1, <2>2 DEF KeeperInv, TableOK, PhaseOK
  <2> QED
    BY <1>4, <2>2, <2>3, <2>4 DEF KeeperInv
<1>6. CASE /\ job' = NoJob /\ Leave("fg")
           /\ tracked' = Track(wire.ecu) /\ idle' = [idle EXCEPT ![wire.ecu] = 0]
           /\ mode' = IF wire.verdict = "ok" THEN [mode EXCEPT ![wire.ecu] = job.mode] ELSE mode
  <2>1. JobOK' /\ LockOK' /\ WireOK'
    BY <1>1, <1>6, FgLeaves
  <2> DEFINE e == job.ecu
  <2>2. tracked' = IF e \in Range(tracked) THEN tracked ELSE Append(tracked, e)
    BY <1>2, <1>6 DEF Track, Has
  <2>3. /\ tracked' \in Seq(Ecu) /\ IsInjective(tracked')
        /\ Range(tracked') = Range(tracked) \cup {e}
        /\ e \notin Range(tracked) => /\ Len(tracked') = Len(tracked) + 1
                                      /\ tracked'[Len(tracked) + 1] = e
                                      /\ \A i \in 1..Len(tracked) : tracked'[i] = tracked[i]
    <3> HIDE DEF e
    <3>1. e \in Ecu /\ tracked \in Seq(Ecu) /\ IsInjective(tracked)
      BY <1>3 DEF KeeperInv, TableOK, e
    <3>2. CASE e \in Range(tracked)
      BY <2>2, <3>1, <3>2
    <3>3. CASE e \notin Range(tracked)
      <4>1. tracked' = Append(tracked, e)
        BY <2>2, <3>3
      <4>2. /\ Append(tracked, e) \in Seq(Ecu) /\ IsInjective(Append(tracked, e))
            /\ Range(Append(tracked, e)) = Range(tracked) \cup {e}
            /\ Len(Append(tracked, e)) = Len(tracked) + 1
            /\ Append(tracked, e)[Len(tracked) + 1] = e
            /\ \A i \in 1..Len(tracked) : Append(tracked, e)[i] = tracked[i]
        BY <3>1, <3>3, Appending
      <4> QED
        BY <4>1, <4>2
    <3> QED
      BY <3>2, <3>3
  <2>4. TableOK'
    <3>1. 0 \in 0..(IdleLimit + 1)
      BY Constants
    <3>2. mode' \in [Ecu -> Mode \cup {Unknown}] /\ idle' \in [Ecu -> 0..(IdleLimit + 1)]
      BY <1>2, <1>3, <1>6, <3>1 DEF KeeperInv, TableOK
    <3> QED
      BY <1>1, <2>3, <3>2 DEF KeeperInv, TableOK
  <2>5. PhaseOK'
    <3> HIDE DEF e
    <3>1. phase' \in {"running", "opening", "closing", "closed"} /\ phase' = phase /\ bg' = bg
      BY <1>1 DEF KeeperInv, TableOK
    <3>2. CASE phase = "opening"
      <4>1. /\ bg = Off /\ Len(tracked) < Len(Steps) /\ e = Steps[Len(tracked) + 1]
            /\ \A i \in 1..Len(tracked) : tracked[i] = Steps[i]
            /\ \A f \in Ecu : f \notin Range(tracked) => mode[f] = Unknown
        BY <1>2, <3>2 DEF KeeperInv, PhaseOK, e
      <4>2. e \notin Range(tracked)
        BY <3>2, <4>1, NextIsNew DEF KeeperInv
      <4>3. Len(tracked) \in Nat /\ Len(Steps) \in Nat
        BY Constants DEF KeeperInv, TableOK
      <4>4. Len(tracked') <= Len(Steps) /\ \A i \in 1..Len(tracked') : tracked'[i] = Steps[i]
        BY <2>3, <4>1, <4>2, <4>3
      <4>5. \A f \in Ecu : f \notin Range(tracked') => mode'[f] = Unknown
        BY <1>2, <1>6, <2>3, <4>1 DEF KeeperInv, TableOK, e
      <4> QED
        BY <1>6, <3>1, <3>2, <4>1, <4>4, <4>5 DEF PhaseOK
    <3>3. CASE phase # "opening"
      BY <1>6, <3>1, <3>3 DEF KeeperInv, PhaseOK
    <3> QED
      BY <3>2, <3>3
  <2> QED
    BY <1>4, <2>1, <2>4, <2>5 DEF KeeperInv
<1> QED
  BY <1>5, <1>6 DEF Opened

\* A read is asked once more, or it is done.
LEMMA ReadDoneKeeps == ASSUME KeeperInv, ReadDone PROVE KeeperInv'
<1>1. /\ Answered("fg", {"read"})
      /\ UNCHANGED <<tracked, mode, refusing, bg, linkError, phase, limit, ecus, spent>>
  BY DEF ReadDone
<1>2. /\ job \in [step : Request \ {"tester"}, ecu : Ecu, mode : Mode \cup {Unknown},
                  tries : 1..2, inline : Seq(Ecu)]
      /\ job # NoJob /\ job.step = "read" /\ wire.ecu \in Ecu
  <2>1. wire.req \in {"read"}
    BY <1>1, FgAnswer
  <2> QED
    BY <1>1, <2>1, FgAnswer
<1>3. EcusOK' /\ CountsOK' /\ TaskOK'
  BY <1>1 DEF KeeperInv, EcusOK, CountsOK, TaskOK, ecus
<1>4. CASE job' = [job EXCEPT !.tries = 2] /\ wire' = NoWire /\ UNCHANGED <<lock, idle>>
  <2>1. /\ job' \in [step : Request \ {"tester"}, ecu : Ecu, mode : Mode \cup {Unknown},
                     tries : 1..2, inline : Seq(Ecu)]
        /\ job'.step = "read"
    BY <1>2, <1>4
  <2>2. JobOK' /\ job' # NoJob
    BY <2>1, Idles DEF JobOK
  <2>3. LockOK' /\ WireOK'
    BY <1>1, <1>4, <2>2, FgAgain
  <2>4. TableOK'
    BY <1>1, <1>4 DEF KeeperInv, TableOK
  <2>5. PhaseOK'
    BY <1>1, <1>2, <2>1, <2>2 DEF KeeperInv, TableOK, PhaseOK
  <2> QED
    BY <1>3, <2>2, <2>3, <2>4, <2>5 DEF KeeperInv
<1>5. CASE /\ job' = NoJob /\ Leave("fg")
           /\ idle' = IF wire.verdict = "ok" THEN Refresh(wire.ecu) ELSE idle
  <2>1. JobOK' /\ LockOK' /\ WireOK'
    BY <1>1, <1>5, FgLeaves
  <2>2. TableOK'
    <3>1. 0 \in 0..(IdleLimit + 1)
      BY Constants
    <3>2. idle' \in [Ecu -> 0..(IdleLimit + 1)]
      BY <1>2, <1>5, <3>1 DEF KeeperInv, TableOK, Refresh
    <3> QED
      BY <1>1, <3>2 DEF KeeperInv, TableOK
  <2>3. PhaseOK'
    BY <1>1, <1>5 DEF KeeperInv, PhaseOK
  <2> QED
    BY <1>3, <2>1, <2>2, <2>3 DEF KeeperInv
<1> QED
  BY <1>4, <1>5 DEF ReadDone

\* A session is forgotten whatever the ECU says.
LEMMA ClosedKeeps == ASSUME KeeperInv, Closed PROVE KeeperInv'
<1>1. /\ Answered("fg", {"default"}) /\ job' = NoJob /\ Leave("fg")
      /\ tracked' = Among(tracked, Ecu \ {wire.ecu})
      /\ mode' = [mode EXCEPT ![wire.ecu] = Unknown]
      /\ UNCHANGED <<idle, refusing, bg, linkError, phase, limit, ecus, spent>>
  BY DEF Closed
<1>2. job # NoJob /\ job.step = "default"
  <2>1. wire.req \in {"default"}
    BY <1>1, FgAnswer
  <2> QED
    BY <1>1, <2>1, FgAnswer
<1>3. phase = "closing" /\ bg = Off
  BY <1>2 DEF KeeperInv, TableOK, PhaseOK
<1>4. JobOK' /\ LockOK' /\ WireOK'
  BY <1>1, FgLeaves
<1>5. TableOK'
  <2>1. tracked' \in Seq(Ecu) /\ IsInjective(tracked')
    BY <1>1, AmongSelects DEF KeeperInv, TableOK
  <2> QED
    BY <1>1, <2>1 DEF KeeperInv, TableOK
<1>6. EcusOK' /\ CountsOK' /\ TaskOK'
  BY <1>1 DEF KeeperInv, EcusOK, CountsOK, TaskOK, ecus
<1>7. PhaseOK'
  BY <1>1, <1>3 DEF PhaseOK
<1> QED
  BY <1>4, <1>5, <1>6, <1>7 DEF KeeperInv

\* A tick: the timers run down, and an ECU whose timer ends is in its default session.
LEMMA TickKeeps == ASSUME KeeperInv, Tick PROVE KeeperInv'
<1>1. /\ Waiting
      /\ idle' = [e \in Ecu |-> IF (phase = "opening" \/ bg # Off) /\ Has(e) /\ idle[e] <= IdleLimit
                                THEN idle[e] + 1 ELSE idle[e]]
      /\ late' = [e \in Ecu |-> IF Late(e) /\ late[e] < Patience THEN late[e] + 1 ELSE late[e]]
      /\ s3' = [e \in Ecu |-> Max1(s3[e])]
      /\ session' = [e \in Ecu |-> IF s3[e] <= 1 THEN Default ELSE session[e]]
      /\ wire' = IF wire = NoWire THEN wire ELSE [wire EXCEPT !.left = @ - 1]
      /\ bg' = IF bg.pc = "sleep" THEN [bg EXCEPT !.left = @ - 1] ELSE bg
      /\ limit' = IF phase = "closing" THEN limit - 1 ELSE limit
      /\ UNCHANGED <<tracked, mode, refusing, linkError, phase, job, lock, spent>>
  BY DEF Tick
<1>2. TableOK'
  <2>1. IdleLimit \in Nat /\ CloseLimit \in Nat
    BY Constants
  <2>2. ASSUME NEW e \in Ecu PROVE idle'[e] \in 0..(IdleLimit + 1)
    <3>1. idle[e] \in 0..(IdleLimit + 1)
      BY DEF KeeperInv, TableOK
    <3>2. \/ idle'[e] = idle[e]
          \/ idle'[e] = idle[e] + 1 /\ idle[e] <= IdleLimit
      BY <1>1
    <3> QED
      BY <2>1, <3>1, <3>2
  <2>3. idle' \in [Ecu -> 0..(IdleLimit + 1)]
    BY <1>1, <2>2
  <2>4. limit' \in 0..CloseLimit
    BY <1>1, <2>1 DEF KeeperInv, TableOK, Waiting
  <2> QED
    BY <1>1, <2>3, <2>4 DEF KeeperInv, TableOK
<1>3. EcusOK'
  <2>1. S3 \in Nat
    BY Constants
  <2>2. ASSUME NEW e \in Ecu
        PROVE  /\ s3'[e] \in 0..S3 /\ session'[e] \in Mode \cup {Default}
               /\ (s3'[e] = 0) <=> (session'[e] = Default)
    <3>1. /\ s3[e] \in 0..S3 /\ session[e] \in Mode \cup {Default}
          /\ (s3[e] = 0) <=> (session[e] = Default)
      BY DEF KeeperInv, EcusOK
    <3>2. /\ s3'[e] = IF s3[e] > 0 THEN s3[e] - 1 ELSE 0
          /\ session'[e] = IF s3[e] <= 1 THEN Default ELSE session[e]
      BY <1>1 DEF Max1
    <3> QED
      BY <2>1, <3>1, <3>2
  <2>3. s3' \in [Ecu -> 0..S3] /\ session' \in [Ecu -> Mode \cup {Default}]
    BY <1>1, <2>2
  <2>4. ASSUME NEW e \in Ecu PROVE late'[e] \in 0..Patience
    <3>1. late[e] \in 0..Patience /\ Patience \in Nat
      BY Constants DEF KeeperInv, EcusOK
    <3>2. late'[e] = late[e] \/ (late'[e] = late[e] + 1 /\ late[e] < Patience)
      BY <1>1
    <3> QED
      BY <3>1, <3>2
  <2>5. late' \in [Ecu -> 0..Patience]
    BY <1>1, <2>4
  <2> QED
    BY <2>2, <2>3, <2>5 DEF EcusOK
<1>4. TaskOK' /\ bg'.pc = bg.pc /\ bg'.rest = bg.rest
  <2>1. CASE bg.pc = "sleep"
    <3>1. bg.left \in 0..Interval /\ bg.left > 0 /\ Interval \in Nat
      BY <1>1, <2>1, Constants DEF KeeperInv, TaskOK, Waiting
    <3>2. bg.left - 1 \in 0..Interval
      BY <3>1
    <3>3. /\ bg' \in [pc : {"off", "sleep", "round"}, left : 0..Interval, rest : Seq(Ecu)]
          /\ bg'.pc = bg.pc /\ bg'.rest = bg.rest
      BY <1>1, <2>1, <3>2 DEF KeeperInv, TaskOK
    <3> QED
      BY <2>1, <3>3 DEF KeeperInv, TaskOK
  <2>2. CASE bg.pc # "sleep"
    BY <1>1, <2>2 DEF KeeperInv, TaskOK
  <2> QED
    BY <2>1, <2>2
<1>5. JobOK' /\ LockOK' /\ CountsOK'
  BY <1>1, <1>4 DEF KeeperInv, JobOK, LockOK, CountsOK
<1>6. PhaseOK'
  <2>1. bg = Off => bg' = Off
    BY <1>1, Idles
  <2> QED
    BY <1>1, <2>1 DEF KeeperInv, PhaseOK
<1>7. WireOK'
  <2>1. CASE wire = NoWire
    BY <1>1, <2>1 DEF WireOK
  <2>2. CASE wire # NoWire
    <3>1. /\ wire \in [by : {"fg", "bg"}, ecu : Ecu, req : Request, left : Nat,
                       verdict : {"ok", "nrc", "none", "broken"}]
          /\ lock # <<>> /\ wire.by = Head(lock)
          /\ wire.req = Step(wire.by).req /\ wire.ecu = Step(wire.by).ecu
      BY <2>2 DEF KeeperInv, WireOK
    <3>2. wire.left - 1 \in Nat
      BY <1>1, <2>2, <3>1 DEF Waiting
    <3>3. /\ wire' \in [by : {"fg", "bg"}, ecu : Ecu, req : Request, left : Nat,
                        verdict : {"ok", "nrc", "none", "broken"}]
          /\ wire'.by = wire.by /\ wire'.req = wire.req /\ wire'.ecu = wire.ecu
      BY <1>1, <2>2, <3>1, <3>2
    <3>4. Step(wire.by)' = Step(wire.by)
      BY <1>1, <1>4, <3>3 DEF Step
    <3> QED
      BY <1>1, <3>1, <3>3, <3>4 DEF WireOK
  <2> QED
    BY <2>1, <2>2
<1> QED
  BY <1>2, <1>3, <1>4, <1>5, <1>6, <1>7 DEF KeeperInv

\* Nothing changes.
LEMMA StutterKeeps == ASSUME KeeperInv, UNCHANGED vars PROVE KeeperInv'
<1>1. TableOK' /\ EcusOK' /\ CountsOK' /\ JobOK' /\ TaskOK' /\ LockOK' /\ PhaseOK'
  BY DEF KeeperInv, TableOK, EcusOK, CountsOK, JobOK, TaskOK, LockOK, PhaseOK, vars
<1>2. WireOK'
  BY DEF KeeperInv, WireOK, Step, vars
<1> QED
  BY <1>1, <1>2 DEF KeeperInv

\* At first nothing is tracked and nobody uses the terminal.
LEMMA InitKeeper == Init => KeeperInv
<1> SUFFICES ASSUME Init PROVE KeeperInv
  OBVIOUS
<1>1. TableOK
  <2>1. 0 \in 0..(IdleLimit + 1) /\ 0 \in 0..CloseLimit
    BY Constants
  <2>2. IsInjective(<<>>) /\ <<>> \in Seq(Ecu)
    BY DEF IsInjective
  <2> QED
    BY <2>1, <2>2 DEF Init, TableOK
<1>2. EcusOK
  <2>1. 0 \in 0..S3 /\ 0 \in 0..Patience
    BY Constants
  <2> QED
    BY <2>1 DEF Init, EcusOK
<1>3. CountsOK
  <2>1. Most \in [Bounded -> Nat]
    BY Constants
  <2>2. \A b \in Bounded : 0 <= Most[b]
    BY <2>1
  <2> QED
    BY <2>2 DEF Init, CountsOK
<1>4. JobOK /\ TaskOK /\ LockOK /\ WireOK
  BY Idles DEF Init, JobOK, TaskOK, LockOK, WireOK
<1>5. PhaseOK
  <2>1. Len(<<>>) = 0 /\ 0 <= Len(Steps)
    BY Constants
  <2> QED
    BY <2>1 DEF Init, PhaseOK
<1> QED
  BY <1>1, <1>2, <1>3, <1>4, <1>5 DEF KeeperInv

\* The command and the background task take turns: every step, of either of
\* them, of the wire or of the clock, keeps the invariant.
LEMMA StepKeeps == ASSUME KeeperInv, [Next]_vars PROVE KeeperInv'
<1>1. CASE UNCHANGED vars
  BY <1>1, StutterKeeps
<1>2. CASE Tick
  BY <1>2, TickKeeps
<1>3. CASE Send \/ InlineKept \/ Woken \/ Opened \/ ReadDone \/ Closed
  BY <1>3, SendKeeps, InlineKeptKeeps, WokenKeeps, OpenedKeeps, ReadDoneKeeps, ClosedKeeps
<1>4. CASE Raised \/ ReadRaises \/ Stop
  <2>1. Leaving /\ UNCHANGED <<mode, refusing, linkError, session, s3, spent>>
    BY <1>4 DEF Raised, ReadRaises, Stop
  <2> QED
    BY <2>1, LeavingKeeps
<1>5. CASE BackgroundKept \/ Wakes \/ Open \/ StartBackground \/ CloseNext \/ CloseCut
  BY <1>5, BackgroundKeptKeeps, WakesKeeps, OpenKeeps, StartBackgroundKeeps, CloseNextKeeps,
     CloseCutKeeps
<1>6. CASE \E e \in Ecu : Read(e) \/ Switch(e) \/ OpenAgain(e)
  BY <1>6, ReadKeeps, SwitchKeeps, OpenAgainKeeps
<1> QED
  BY <1>1, <1>2, <1>3, <1>4, <1>5, <1>6 DEF Next, Work, Exchange, Poll

\* The invariant holds throughout, for any ECUs, session types, timers and bounds.
THEOREM KeeperInvariant == Spec => []KeeperInv
<1>1. Init => KeeperInv
  BY InitKeeper
<1>2. KeeperInv /\ [Next]_vars => KeeperInv'
  BY StepKeeps
<1> QED
  BY <1>1, <1>2, PTL DEF Spec

\* The members of the queue.
LEMMA QueueMembers ==
    /\ Range(<<>>) = {} /\ Range(<<"fg">>) = {"fg"} /\ Range(<<"bg">>) = {"bg"}
    /\ Range(<<"fg", "bg">>) = {"fg", "bg"} /\ Range(<<"bg", "fg">>) = {"fg", "bg"}
    /\ \A q \in {<<>>, <<"fg">>, <<"bg">>, <<"fg", "bg">>, <<"bg", "fg">>} :
          q \in Seq({"fg", "bg"}) /\ IsInjective(q)
<1>1. Range(<<>>) = {}
  BY DEF Range
<1>2. Range(<<"fg">>) = {"fg"} /\ Range(<<"bg">>) = {"bg"}
  BY DEF Range
<1>3. Range(<<"fg", "bg">>) = {"fg", "bg"}
  BY DEF Range
<1>4. Range(<<"bg", "fg">>) = {"fg", "bg"}
  BY DEF Range
<1>5. \A q \in {<<>>, <<"fg">>, <<"bg">>, <<"fg", "bg">>, <<"bg", "fg">>} : q \in Seq({"fg", "bg"})
  <2>1. <<>> \in Seq({"fg", "bg"})
    OBVIOUS
  <2>2. <<"fg">> \in Seq({"fg", "bg"}) /\ <<"bg">> \in Seq({"fg", "bg"})
    OBVIOUS
  <2>3. <<"fg", "bg">> \in Seq({"fg", "bg"})
    OBVIOUS
  <2>4. <<"bg", "fg">> \in Seq({"fg", "bg"})
    OBVIOUS
  <2> QED
    BY <2>1, <2>2, <2>3, <2>4
<1>6. \A q \in {<<>>, <<"fg">>, <<"bg">>, <<"fg", "bg">>, <<"bg", "fg">>} : IsInjective(q)
  BY DEF IsInjective
<1> QED
  BY <1>1, <1>2, <1>3, <1>4, <1>5, <1>6

\* The table, the two tasks, the queue, the wire and the ECUs' timers keep their types.
THEOREM TypeCorrect == Spec => []TypeOK
<1>1. KeeperInv => TypeOK
  <2> SUFFICES ASSUME KeeperInv PROVE TypeOK
    OBVIOUS
  <2>1. /\ bg.pc \in {"off", "sleep", "round"} /\ bg.left \in 0..Interval /\ bg.rest \in Seq(Ecu)
    BY DEF KeeperInv, TaskOK
  <2>2. job = NoJob \/ (job.step \in Request /\ job.ecu \in Ecu /\ job.tries \in 1..2
                        /\ job.mode \in Mode \cup {Unknown} /\ job.inline \in Seq(Ecu))
    BY DEF KeeperInv, JobOK
  <2>3. lock \in Seq({"fg", "bg"}) /\ IsInjective(lock)
    BY QueueMembers DEF KeeperInv, LockOK
  <2>4. /\ ("bg" \in Range(lock)) = (bg.pc = "round")
        /\ ("fg" \in Range(lock)) = (job # NoJob)
    BY QueueMembers DEF KeeperInv, LockOK
  <2>5. wire = NoWire \/ (lock # <<>> /\ wire.by = Head(lock))
    BY DEF KeeperInv, WireOK
  <2>6. \A e \in Ecu : (s3[e] = 0) = (session[e] = Default)
    BY DEF KeeperInv, EcusOK
  <2> QED
    BY <2>1, <2>2, <2>3, <2>4, <2>5, <2>6 DEF KeeperInv, TableOK, EcusOK, CountsOK, TypeOK
<1> QED
  BY <1>1, KeeperInvariant, PTL

-----------------------------------------------------------------------------
(* The sessions are refreshed in time. *)

\* The sessions are minded: they are being opened or the background task runs.
Busy == phase = "opening" \/ bg.pc # "off"

\* How long a session has been idle, rounds and exchanges apart: its idle ticks up
\* to the limit, and from there the ticks that the task has slept or, once the
\* session is one of the round, all of the sleep.
Age(e) ==
    IF idle[e] <= IdleLimit THEN idle[e]
    ELSE IF bg.pc = "sleep" THEN IdleLimit + (Interval - bg.left)
    ELSE IF bg.pc = "round" /\ e \in Range(bg.rest) THEN IdleLimit + Interval
    ELSE IdleLimit

\* The ECU's timer has run no longer than its session was idle and exchanges took.
Fresh(e) == s3[e] + Age(e) + late[e] >= S3

\* Nothing of what is claimed of a session was spoilt.
Sound(e) == e \notin refusing /\ late[e] < Patience
Minded(e) == e \in Range(tracked) /\ Sound(e) /\ mode[e] # Unknown

\* An ECU that answered the request on the wire restarted its timer then.
WireHeard ==
    wire # NoWire /\ wire.verdict \in {"ok", "nrc"} /\ Sound(wire.ecu) =>
        /\ session[wire.ecu] # Default => s3[wire.ecu] + late[wire.ecu] >= S3
        /\ wire.req = "session" /\ wire.verdict = "ok" => session[wire.ecu] = job.mode

\* The ECU may have switched, which the command has yet to learn: its answer is on
\* the wire, or was lost and it is asked again.
Switched(e) ==
    /\ Switching(e) /\ session[e] = job.mode
    /\ \/ job.tries = 2
       \/ wire # NoWire /\ wire.by = "fg" /\ wire.verdict \in {"ok", "none"}

\* The table is right about a session, but for the switch that is under way.
InMode(e) == session[e] = mode[e] \/ Switched(e)

AllMinded == \A e \in Ecu : Minded(e) => InMode(e) /\ Fresh(e)

TimerInv == Busy => WireHeard /\ AllMinded

\* The numbers of every session.
IdleBounds ==
    \A e \in Ecu : /\ s3[e] \in Nat /\ late[e] \in Nat /\ late[e] <= Patience
                   /\ idle[e] \in Nat /\ idle[e] <= IdleLimit + 1
                   /\ Age(e) \in Nat /\ Age(e) <= IdleLimit + Interval

\* In a state of the invariant they are bounded,
LEMMA IdleBounded == KeeperInv => IdleBounds
<1> SUFFICES ASSUME KeeperInv PROVE IdleBounds
  OBVIOUS
<1>1. S3 \in Nat /\ Interval \in Nat /\ IdleLimit \in Nat /\ Patience \in Nat
  BY Constants
<1>2. bg.left \in 0..Interval
  BY DEF KeeperInv, TaskOK
<1>3. \A e \in Ecu : s3[e] \in 0..S3 /\ late[e] \in 0..Patience /\ idle[e] \in 0..(IdleLimit + 1)
  BY DEF KeeperInv, EcusOK, TableOK
<1>4. \A e \in Ecu : \/ Age(e) = idle[e] /\ idle[e] <= IdleLimit
                     \/ Age(e) \in {IdleLimit, IdleLimit + (Interval - bg.left), IdleLimit + Interval}
  BY DEF Age
<1>5. \A e \in Ecu : Age(e) \in Nat /\ Age(e) <= IdleLimit + Interval
  BY <1>1, <1>2, <1>3, <1>4
<1> QED
  BY <1>1, <1>3, <1>5 DEF IdleBounds

\* and so they are in the next one.
LEMMA IdleBoundedNext == KeeperInv' => IdleBounds'
BY IdleBounded, PTL

\* Once the sessions are given up nothing is claimed.
LEMMA GivenUp ==
    ASSUME phase' # "opening", bg'.pc = "off"
    PROVE  TimerInv'
BY DEF TimerInv, Busy

\* A session that nothing touched is as old as before.
LEMMA AgeStays ==
    ASSUME NEW e \in Ecu, idle'[e] = idle[e], bg' = bg
    PROVE  Age(e)' = Age(e)
BY DEF Age

\* A session refreshed by an answer that its ECU gave is fresh.
LEMMA FreshAgain ==
    ASSUME KeeperInv, NEW e \in Ecu, idle'[e] = 0, late'[e] = late[e],
           s3'[e] = s3[e], s3[e] + late[e] >= S3
    PROVE  Fresh(e)'
<1>1. IdleLimit \in Nat /\ S3 \in Nat
  BY Constants
<1>2. Age(e)' = 0
  BY <1>1 DEF Age
<1>3. s3[e] \in Nat /\ late[e] \in Nat
  BY IdleBounded DEF IdleBounds
<1> QED
  BY <1>1, <1>2, <1>3 DEF Fresh

\* A session that the table vouches for is one the ECU was put in.
LEMMA NotDefault ==
    ASSUME KeeperInv, NEW e \in Ecu, Minded(e), InMode(e)
    PROVE  mode[e] \in Mode /\ session[e] # Default
<1>1. mode[e] \in Mode
  BY DEF Minded, KeeperInv, TableOK
<1>2. Switched(e) => session[e] \in Mode
  BY DEF Switched, Switching, KeeperInv, JobOK
<1> QED
  BY <1>1, <1>2, Constants DEF InMode

\* The command's request while it switches a session.
LEMMA SwitchOnWire ==
    ASSUME KeeperInv, wire # NoWire, wire.by = "fg", NEW e, Switching(e)
    PROVE  wire.req = "session" /\ wire.ecu = e
<1>1. lock # <<>> /\ Head(lock) = "fg" /\ wire.req = Step("fg").req /\ wire.ecu = Step("fg").ecu
  BY DEF KeeperInv, WireOK
<1>2. job # NoJob /\ job.step = "session" /\ job.ecu = e /\ job.inline = <<>>
  BY DEF Switching, KeeperInv, JobOK
<1> QED
  BY <1>1, <1>2, Turn

\* The command begins a job, and nothing else changes.
LEMMA JobBegins ==
    ASSUME KeeperInv, TimerInv, Free,
           UNCHANGED <<table, bg, phase, wire, ecus, spent>>
    PROVE  TimerInv'
<1> SUFFICES ASSUME Busy' PROVE WireHeard' /\ AllMinded'
  BY DEF TimerInv
<1>1. WireHeard /\ AllMinded
  BY DEF TimerInv, Busy
<1>2. wire # NoWire => wire.req = "tester"
  <2>1. wire # NoWire => lock # <<>> /\ wire.by = Head(lock) /\ wire.req = Step(wire.by).req
    BY DEF KeeperInv, WireOK
  <2>2. lock # <<>> => Head(lock) = "bg" /\ Step(Head(lock)).req = "tester"
    BY Turn DEF Free
  <2> QED
    BY <2>1, <2>2
<1>3. WireHeard'
  BY <1>1, <1>2 DEF WireHeard, Sound, table, ecus
<1>4. ASSUME NEW e \in Ecu, Minded(e)' PROVE InMode(e)' /\ Fresh(e)'
  <2>1. Minded(e)
    BY <1>4 DEF Minded, Sound, table, ecus
  <2>2. session[e] = mode[e] /\ Fresh(e)
    BY <1>1, <2>1 DEF AllMinded, InMode, Switched, Switching, Free
  <2>3. Age(e)' = Age(e)
    BY AgeStays DEF table
  <2> QED
    BY <2>2, <2>3 DEF InMode, Fresh, table, ecus
<1> QED
  BY <1>3, <1>4 DEF AllMinded

\* The elements of a sequence but its first are those of its tail.
LEMMA RestOf ==
    ASSUME NEW T, NEW s \in Seq(T), s # <<>>, NEW e, e # Head(s)
    PROVE  /\ e \in Range(Tail(s)) <=> e \in Range(s)
           /\ Len(s) = 1 => e \notin Range(s)
<1>1. /\ Len(s) \in Nat /\ Len(s) > 0 /\ DOMAIN s = 1..Len(s) /\ Head(s) = s[1]
      /\ Tail(s) \in Seq(T) /\ Len(Tail(s)) = Len(s) - 1
      /\ \A i \in 1..Len(Tail(s)) : Tail(s)[i] = s[i + 1]
  BY HeadTailProperties
<1>2. DOMAIN Tail(s) = 1..(Len(s) - 1)
  BY <1>1
<1>3. e \in Range(Tail(s)) => e \in Range(s)
  <2> SUFFICES ASSUME NEW i \in 1..(Len(s) - 1), e = Tail(s)[i] PROVE e \in Range(s)
    BY <1>2 DEF Range
  <2>1. i + 1 \in 1..Len(s) /\ e = s[i + 1]
    BY <1>1
  <2> QED
    BY <1>1, <2>1 DEF Range
<1>4. ASSUME e \in Range(s) PROVE e \in Range(Tail(s)) /\ Len(s) # 1
  <2>1. PICK i \in 1..Len(s) : e = s[i]
    BY <1>1, <1>4 DEF Range
  <2>2. i # 1
    BY <1>1, <2>1
  <2>3. i - 1 \in 1..(Len(s) - 1) /\ (i - 1) + 1 = i
    BY <1>1, <2>2
  <2>4. Tail(s)[i - 1] = e
    BY <1>1, <2>1, <2>3
  <2>5. e \in Range(Tail(s))
    BY <1>2, <2>3, <2>4 DEF Range
  <2>6. Len(s) # 1
    BY <1>1, <2>1, <2>2
  <2> QED
    BY <2>5, <2>6
<1> QED
  BY <1>3, <1>4

\* The background task begins its sleep: no session is older for it yet.
LEMMA StartMinds == ASSUME KeeperInv, TimerInv, StartBackground PROVE TimerInv'
<1> SUFFICES ASSUME Busy' PROVE WireHeard' /\ AllMinded'
  BY DEF TimerInv
<1>1. /\ phase = "opening" /\ job = NoJob /\ bg' = Asleep
      /\ UNCHANGED <<table, job, lock, wire, ecus, spent>>
  BY DEF StartBackground, Free
<1>2. WireHeard /\ AllMinded
  BY <1>1 DEF TimerInv, Busy
<1>3. WireHeard'
  BY <1>1, <1>2 DEF WireHeard, Sound, table, ecus
<1>4. bg.pc = "off"
  BY <1>1, Idles DEF KeeperInv, PhaseOK
<1>5. ASSUME NEW e \in Ecu, Minded(e)' PROVE InMode(e)' /\ Fresh(e)'
  <2>1. Minded(e)
    BY <1>1, <1>5 DEF Minded, Sound, table, ecus
  <2>2. session[e] = mode[e] /\ Fresh(e)
    BY <1>1, <1>2, <2>1 DEF AllMinded, InMode, Switched, Switching
  <2>3. Age(e)' = Age(e)
    <3>1. Interval \in Nat /\ IdleLimit \in Nat /\ idle[e] \in Nat /\ idle'[e] = idle[e]
      BY <1>1, Constants, IdleBounded DEF IdleBounds, table
    <3>2. bg'.pc = "sleep" /\ bg'.left = Interval
      BY <1>1, Idles
    <3> QED
      BY <1>4, <3>1, <3>2 DEF Age
  <2> QED
    BY <1>1, <2>2, <2>3 DEF InMode, Fresh, table, ecus
<1> QED
  BY <1>3, <1>5 DEF AllMinded

\* A session opened again, unheard, is not one of those promised; the others stay.
LEMMA OpenAgainMinds == ASSUME KeeperInv, TimerInv, NEW e \in Ecu, OpenAgain(e) PROVE TimerInv'
<1> SUFFICES ASSUME Busy' PROVE WireHeard' /\ AllMinded'
  BY DEF TimerInv
<1>1. /\ idle' = [idle EXCEPT ![e] = 0] /\ late' = Spoilt(e)
      /\ UNCHANGED <<tracked, mode, refusing, bg, phase, job, lock, wire, session, s3>>
  BY DEF OpenAgain
<1>2. WireHeard /\ AllMinded
  BY <1>1 DEF TimerInv, Busy
<1>3. late'[e] = Patience /\ \A f \in Ecu : f # e => late'[f] = late[f]
  BY <1>1, SpoiltType
<1>4. \A f \in Ecu : Sound(f)' => Sound(f) /\ f # e
  BY <1>1, <1>3, Constants DEF Sound
<1>5. WireHeard'
  <2>1. wire # NoWire => wire.ecu \in Ecu
    BY DEF KeeperInv, WireOK
  <2>2. PICK w : w = wire.ecu
    OBVIOUS
  <2>3. w = wire'.ecu
    BY <1>1, <2>2
  <2>4. WireHeard => (wire # NoWire /\ wire.verdict \in {"ok", "nrc"} /\ Sound(w) =>
                        /\ session[w] # Default => s3[w] + late[w] >= S3
                        /\ wire.req = "session" /\ wire.verdict = "ok" => session[w] = job.mode)
    BY <2>2 DEF WireHeard
  <2>5. (wire # NoWire /\ wire.verdict \in {"ok", "nrc"} /\ Sound(w)' =>
            /\ session[w] # Default => s3[w] + late'[w] >= S3
            /\ wire.req = "session" /\ wire.verdict = "ok" => session[w] = job.mode)
    BY <1>2, <1>3, <1>4, <2>1, <2>2, <2>4
  <2> QED
    BY <1>1, <2>3, <2>5 DEF WireHeard, Sound
<1>6. ASSUME NEW f \in Ecu, Minded(f)' PROVE InMode(f)' /\ Fresh(f)'
  <2>1. Minded(f) /\ f # e
    BY <1>1, <1>4, <1>6 DEF Minded
  <2>2. InMode(f) /\ Fresh(f)
    BY <1>2, <2>1 DEF AllMinded
  <2>3. idle'[f] = idle[f]
    BY <1>1, <2>1 DEF KeeperInv, TableOK
  <2>4. Age(f)' = Age(f) /\ late'[f] = late[f]
    BY <1>1, <1>3, <2>1, <2>3, AgeStays
  <2> QED
    BY <1>1, <2>2, <2>4 DEF InMode, Switched, Switching, Fresh
<1> QED
  BY <1>5, <1>6 DEF AllMinded

\* The task wakes: a stale session is in its round, and has slept all of the sleep.
LEMMA WakesMinds == ASSUME KeeperInv, TimerInv, Wakes PROVE TimerInv'
<1>1. /\ bg.pc = "sleep" /\ bg.left = 0
      /\ UNCHANGED <<table, phase, job, wire, ecus, spent>>
      /\ \/ bg' = Off
         \/ StaleList = <<>> /\ bg' = Asleep
         \/ bg' = [pc |-> "round", left |-> 0, rest |-> StaleList]
  BY DEF Wakes
<1>2. phase # "opening"
  BY <1>1, Idles DEF KeeperInv, PhaseOK
<1>3. CASE bg' = Off
  BY <1>1, <1>2, <1>3, GivenUp, Idles
<1>4. ASSUME \/ StaleList = <<>> /\ bg' = Asleep
             \/ bg' = [pc |-> "round", left |-> 0, rest |-> StaleList]
      PROVE  TimerInv'
  <2> SUFFICES ASSUME Busy' PROVE WireHeard' /\ AllMinded'
    BY DEF TimerInv
  <2>1. WireHeard /\ AllMinded
    BY <1>1 DEF TimerInv, Busy
  <2>2. WireHeard'
    BY <1>1, <2>1 DEF WireHeard, Sound, table, ecus
  <2>3. ASSUME NEW e \in Ecu, Minded(e)' PROVE InMode(e)' /\ Fresh(e)'
    <3>1. Minded(e)
      BY <1>1, <2>3 DEF Minded, Sound, table, ecus
    <3>2. InMode(e) /\ Fresh(e)
      BY <2>1, <3>1 DEF AllMinded
    <3>3. Interval \in Nat
      BY Constants
    <3>4. idle[e] > IdleLimit => e \in Range(StaleList)
      BY <3>1, StaleOnes DEF KeeperInv, Minded, Sound
    <3>5. idle'[e] = idle[e] /\ idle[e] \in Nat /\ IdleLimit \in Nat
      BY <1>1, IdleBounded, Constants DEF IdleBounds, table
    <3>6. Age(e)' = Age(e)
      <4>1. CASE idle[e] <= IdleLimit
        BY <3>5, <4>1 DEF Age
      <4>2. CASE idle[e] > IdleLimit
        <5>1. StaleList # <<>>
          BY <3>4, <4>2, QueueMembers
        <5>2. bg'.pc = "round" /\ bg'.rest = StaleList
          BY <1>4, <5>1
        <5>3. Age(e)' = IdleLimit + Interval
          BY <3>4, <3>5, <4>2, <5>2 DEF Age
        <5>4. Age(e) = IdleLimit + Interval
          BY <1>1, <3>3, <3>5, <4>2 DEF Age
        <5> QED
          BY <5>3, <5>4
      <4> QED
        BY <3>5, <4>1, <4>2
    <3> QED
      BY <1>1, <3>2, <3>6 DEF InMode, Switched, Switching, Fresh, table, ecus
  <2> QED
    BY <2>2, <2>3 DEF AllMinded
<1> QED
  BY <1>1, <1>3, <1>4

\* A keepalive that was answered refreshes its session, and one that was not leaves
\* it to nobody's promise; the task's round goes on without it, or ends and the
\* sleep begins.
LEMMA KeptMinds ==
    ASSUME KeeperInv, TimerInv, Busy, wire # NoWire,
           wire.verdict \in {"ok", "nrc", "none"}, Kept(wire.ecu), wire' = NoWire,
           UNCHANGED <<session, s3>>,
           \A e : Switched(e) => Switched(e)',
           \/ bg' = bg
           \/ /\ bg.pc = "round" /\ wire.ecu = Head(bg.rest)
              /\ \/ Len(bg.rest) = 1 /\ bg' = Asleep
                 \/ bg' = [bg EXCEPT !.rest = Tail(@)]
    PROVE  TimerInv'
<1>1. WireHeard /\ AllMinded
  BY DEF TimerInv
<1>2. WireHeard'
  BY DEF WireHeard
<1>3. PICK w \in Ecu : w = wire.ecu
  BY DEF KeeperInv, WireOK
<1>4. /\ idle' = IF w \in Range(tracked) THEN [idle EXCEPT ![w] = 0] ELSE idle
      /\ refusing \subseteq refusing'
      /\ late' = IF wire.verdict = "none" THEN Spoilt(w) ELSE late
      /\ UNCHANGED <<tracked, mode>>
  BY <1>3 DEF Kept, Refresh, Has
<1>5. \A e \in Ecu : e # w \/ wire.verdict # "none" => late'[e] = late[e]
  BY <1>4, SpoiltType
<1>6. wire.verdict = "none" => ~Sound(w)'
  BY <1>4, SpoiltType, Constants DEF Sound
<1>7. ASSUME NEW e \in Ecu, Minded(e)' PROVE InMode(e)' /\ Fresh(e)'
  <2>1. Minded(e) /\ late'[e] = late[e]
    BY <1>4, <1>5, <1>6, <1>7 DEF Minded, Sound
  <2>2. InMode(e) /\ Fresh(e)
    BY <1>1, <2>1 DEF AllMinded
  <2>3. InMode(e)'
    BY <1>4, <2>2 DEF InMode
  <2>4. CASE e = w
    <3>1. idle'[e] = 0
      BY <1>4, <2>1, <2>4 DEF Minded, KeeperInv, TableOK
    <3>2. wire.verdict \in {"ok", "nrc"}
      BY <1>6, <1>7, <2>4 DEF Minded
    <3>3. session[e] # Default
      BY <2>1, <2>2, NotDefault
    <3>4. s3[e] + late[e] >= S3
      BY <1>1, <1>3, <2>1, <2>4, <3>2, <3>3 DEF WireHeard, Minded
    <3> QED
      BY <2>1, <2>3, <3>1, <3>4, FreshAgain
  <2>5. CASE e # w
    <3>1. idle'[e] = idle[e] /\ idle[e] \in Nat /\ IdleLimit \in Nat /\ Interval \in Nat
      BY <1>4, <2>5, IdleBounded, Constants DEF IdleBounds, KeeperInv, TableOK
    <3>2. Age(e)' = Age(e)
      <4>1. CASE bg' = bg
        BY <3>1, <4>1, AgeStays
      <4>2. CASE bg.pc = "round" /\ wire.ecu = Head(bg.rest) /\ Len(bg.rest) = 1 /\ bg' = Asleep
        <5>1. bg'.pc = "sleep" /\ bg'.left = Interval
          BY <4>2, Idles
        <5>2. Age(e)' = IF idle[e] <= IdleLimit THEN idle[e] ELSE IdleLimit
          BY <3>1, <5>1 DEF Age
        <5>3. e \notin Range(bg.rest)
          BY <1>3, <2>5, <4>2, RestOf DEF KeeperInv, TaskOK
        <5>4. Age(e) = IF idle[e] <= IdleLimit THEN idle[e] ELSE IdleLimit
          BY <4>2, <5>3 DEF Age
        <5> QED
          BY <5>2, <5>4
      <4>3. CASE bg.pc = "round" /\ wire.ecu = Head(bg.rest) /\ bg' = [bg EXCEPT !.rest = Tail(@)]
        <5>1. bg'.pc = "round" /\ bg'.rest = Tail(bg.rest)
          BY <4>3 DEF KeeperInv, TaskOK
        <5>2. e \in Range(Tail(bg.rest)) <=> e \in Range(bg.rest)
          BY <1>3, <2>5, <4>3, RestOf DEF KeeperInv, TaskOK
        <5> QED
          BY <3>1, <4>3, <5>1, <5>2 DEF Age
      <4> QED
        BY <4>1, <4>2, <4>3
    <3> QED
      BY <2>1, <2>2, <2>3, <3>1, <3>2 DEF Fresh
  <2> QED
    BY <2>4, <2>5
<1> QED
  BY <1>2, <1>7 DEF TimerInv, AllMinded

\* The keepalive of the background task refreshes its session.
LEMMA BackgroundKeptMinds ==
    ASSUME KeeperInv, TimerInv, BackgroundKept
    PROVE  TimerInv'
<1>1. /\ wire # NoWire /\ wire.by = "bg"
      /\ UNCHANGED <<phase, job, session, s3>>
  BY DEF BackgroundKept, Answered
<1>2. lock # <<>> /\ Head(lock) = "bg" /\ wire.ecu = Step("bg").ecu
  BY <1>1 DEF KeeperInv, WireOK
<1>3. bg.pc = "round" /\ wire.ecu = Head(bg.rest)
  BY <1>2, Turn
<1>4. wire' = NoWire
  BY DEF BackgroundKept, Leave
<1>5. CASE wire.verdict = "broken" /\ bg' = Off
  <2>1. phase # "opening"
    BY <1>3, Idles DEF KeeperInv, PhaseOK
  <2> QED
    BY <1>1, <1>5, <2>1, GivenUp, Idles
<1>6. CASE /\ wire.verdict # "broken" /\ Kept(wire.ecu)
           /\ \/ Len(bg.rest) = 1 /\ bg' = Asleep
              \/ bg' = [bg EXCEPT !.rest = Tail(@)]
  <2>1. wire.verdict \in {"ok", "nrc", "none"}
    BY <1>1, <1>6 DEF KeeperInv, WireOK
  <2>2. \A e : Switched(e) => Switched(e)'
    BY <1>1 DEF Switched, Switching
  <2>3. Busy
    BY <1>3 DEF Busy
  <2> QED
    BY <1>1, <1>3, <1>4, <1>6, <2>1, <2>2, <2>3, KeptMinds
<1> QED
  BY <1>5, <1>6 DEF BackgroundKept

\* So does the one that a read sends first.
LEMMA InlineKeptMinds ==
    ASSUME KeeperInv, TimerInv, InlineKept
    PROVE  TimerInv'
<1>1. /\ Answered("fg", {"tester"}) /\ wire.verdict # "broken" /\ Kept(wire.ecu)
      /\ wire' = NoWire
      /\ UNCHANGED <<bg, phase, session, s3>>
  BY DEF InlineKept
<1>2. /\ wire # NoWire /\ wire.req \in {"tester"} /\ job # NoJob /\ job.step = "read"
      /\ wire.verdict \in {"ok", "nrc", "none", "broken"}
  BY <1>1, FgAnswer
<1>3. \A e : ~Switched(e)
  BY <1>2 DEF Switched, Switching
<1>4. CASE Busy
  BY <1>1, <1>2, <1>3, <1>4, KeptMinds
<1>5. CASE ~Busy
  BY <1>1, <1>5 DEF TimerInv, Busy
<1> QED
  BY <1>4, <1>5

\* The wake-up is of an ECU that is not tracked yet.
LEMMA WokenMinds == ASSUME KeeperInv, TimerInv, Woken PROVE TimerInv'
<1> SUFFICES ASSUME Busy' PROVE WireHeard' /\ AllMinded'
  BY DEF TimerInv
<1>1. /\ Answered("fg", {"wake"}) /\ wire' = NoWire
      /\ UNCHANGED <<table, bg, phase, ecus, spent>>
  BY DEF Woken
<1>2. AllMinded
  BY <1>1 DEF TimerInv, Busy
<1>3. job.step = "wake"
  <2>1. wire.req \in {"wake"}
    BY <1>1, FgAnswer
  <2> QED
    BY <1>1, <2>1, FgAnswer
<1>4. WireHeard'
  BY <1>1 DEF WireHeard
<1>5. ASSUME NEW e \in Ecu, Minded(e)' PROVE InMode(e)' /\ Fresh(e)'
  <2>1. Minded(e)
    BY <1>1, <1>5 DEF Minded, Sound, table, ecus
  <2>2. session[e] = mode[e] /\ Fresh(e)
    BY <1>2, <1>3, <2>1 DEF AllMinded, InMode, Switched, Switching
  <2>3. Age(e)' = Age(e)
    BY <1>1, AgeStays DEF table
  <2> QED
    BY <1>1, <2>2, <2>3 DEF InMode, Fresh, table, ecus
<1> QED
  BY <1>4, <1>5 DEF AllMinded

\* The session the table records is the one the ECU answered it is in.  An ECU that
\* did not answer, or refused when it was asked again, is promised nothing.
LEMMA OpenedMinds == ASSUME KeeperInv, TimerInv, Opened PROVE TimerInv'
<1> SUFFICES ASSUME Busy' PROVE WireHeard' /\ AllMinded'
  BY DEF TimerInv
<1>1. /\ Answered("fg", {"session"}) /\ wire.verdict # "broken" /\ wire' = NoWire
      /\ UNCHANGED <<refusing, bg, phase, session, s3>>
  BY DEF Opened, Leave
<1>2. WireHeard /\ AllMinded
  BY <1>1 DEF TimerInv, Busy
<1>3. /\ wire # NoWire /\ wire.req = "session" /\ job # NoJob /\ job.inline = <<>>
      /\ wire.verdict \in {"ok", "nrc", "none", "broken"}
      /\ job \in [step : Request \ {"tester"}, ecu : Ecu, mode : Mode \cup {Unknown},
                  tries : 1..2, inline : Seq(Ecu)]
      /\ job.step = "session" /\ wire.ecu = job.ecu
  <2>1. wire.req \in {"session"}
    BY <1>1, FgAnswer
  <2> QED
    BY <1>1, <2>1, FgAnswer
<1>4. WireHeard'
  BY <1>1 DEF WireHeard
<1>5. PICK w \in Ecu : w = job.ecu
  BY <1>3
<1>6. CASE /\ wire.verdict = "none" /\ job.tries = 1
           /\ job' = [job EXCEPT !.tries = 2]
           /\ UNCHANGED <<tracked, mode, idle, late>>
  <2>1. job' # NoJob /\ job'.step = "session" /\ job'.ecu = w /\ job'.mode = job.mode /\ job'.tries = 2
    <3>1. job' \in [step : Request \ {"tester"}, ecu : Ecu, mode : Mode \cup {Unknown},
                    tries : 1..2, inline : Seq(Ecu)]
      BY <1>3, <1>6
    <3> QED
      BY <1>3, <1>5, <1>6, <3>1, Idles
  <2>2. ASSUME NEW e \in Ecu, Minded(e)' PROVE InMode(e)' /\ Fresh(e)'
    <3>1. Minded(e)
      BY <1>1, <1>6, <2>2 DEF Minded, Sound
    <3>2. InMode(e) /\ Fresh(e)
      BY <1>2, <3>1 DEF AllMinded
    <3>3. Age(e)' = Age(e)
      BY <1>1, <1>6, AgeStays
    <3>4. Switched(e) => Switched(e)'
      BY <1>1, <1>5, <2>1 DEF Switched, Switching
    <3> QED
      BY <1>1, <1>6, <3>2, <3>3, <3>4 DEF InMode, Fresh
  <2> QED
    BY <1>4, <2>2 DEF AllMinded
<1>7. CASE /\ job' = NoJob
           /\ tracked' = Track(wire.ecu) /\ idle' = [idle EXCEPT ![wire.ecu] = 0]
           /\ mode' = IF wire.verdict = "ok" THEN [mode EXCEPT ![wire.ecu] = job.mode] ELSE mode
           /\ late' = IF wire.verdict = "none" \/ (wire.verdict # "ok" /\ job.tries = 2)
                        THEN Spoilt(wire.ecu) ELSE late
  <2>1. /\ tracked' = Track(w) /\ idle' = [idle EXCEPT ![w] = 0]
        /\ mode' = IF wire.verdict = "ok" THEN [mode EXCEPT ![w] = job.mode] ELSE mode
        /\ late' = IF wire.verdict = "none" \/ (wire.verdict # "ok" /\ job.tries = 2)
                     THEN Spoilt(w) ELSE late
    BY <1>3, <1>5, <1>7
  <2>2. \A e \in Ecu : e # w => idle'[e] = idle[e] /\ mode'[e] = mode[e] /\ late'[e] = late[e]
    BY <2>1, SpoiltType DEF KeeperInv, TableOK
  <2>3. /\ idle'[w] = 0
        /\ mode'[w] = IF wire.verdict = "ok" THEN job.mode ELSE mode[w]
    BY <2>1 DEF KeeperInv, TableOK
  <2>4. \A e \in Ecu : e # w => (e \in Range(tracked') <=> e \in Range(tracked))
    <3>1. CASE w \in Range(tracked)
      BY <2>1, <3>1 DEF Track, Has
    <3>2. CASE w \notin Range(tracked)
      <4>1. Range(Append(tracked, w)) = Range(tracked) \cup {w}
        BY <3>2, Appending DEF KeeperInv, TableOK
      <4>2. tracked' = Append(tracked, w)
        BY <2>1, <3>2 DEF Track, Has
      <4> QED
        BY <4>1, <4>2
    <3> QED
      BY <3>1, <3>2
  <2>5. w \notin Range(tracked) => mode[w] = Unknown
    BY <1>3, <1>5 DEF KeeperInv, TableOK, PhaseOK
  <2>6. ASSUME NEW e \in Ecu, Minded(e)', e # w PROVE InMode(e)' /\ Fresh(e)'
    <3>1. Minded(e)
      BY <1>1, <2>2, <2>4, <2>6 DEF Minded, Sound
    <3>2. session[e] = mode[e] /\ Fresh(e)
      BY <1>2, <1>5, <2>6, <3>1 DEF AllMinded, InMode, Switched, Switching
    <3>3. Age(e)' = Age(e)
      BY <1>1, <2>2, <2>6, AgeStays
    <3> QED
      BY <1>1, <2>2, <2>6, <3>2, <3>3 DEF InMode, Fresh
  <2>7. ASSUME Minded(w)' PROVE InMode(w)' /\ Fresh(w)'
    <3>1. wire.verdict = "ok" \/ (wire.verdict = "nrc" /\ job.tries = 1)
      <4>1. late' # Spoilt(w)
        BY <2>7, SpoiltType, Constants DEF Minded, Sound
      <4>2. job.tries \in 1..2
        BY <1>3
      <4> QED
        BY <1>1, <1>3, <2>1, <4>1, <4>2
    <3>2. late' = late /\ Sound(w)
      BY <1>1, <2>1, <2>7, <3>1 DEF Minded, Sound
    <3>3. session[w] = mode'[w]
      <4>1. CASE wire.verdict = "ok"
        BY <1>2, <1>3, <1>5, <2>3, <3>2, <4>1 DEF WireHeard
      <4>2. CASE wire.verdict = "nrc" /\ job.tries = 1
        <5>1. Minded(w)
          BY <2>3, <2>5, <2>7, <3>2, <4>2 DEF Minded
        <5>2. ~Switched(w)
          BY <4>2 DEF Switched
        <5> QED
          BY <1>2, <2>3, <4>2, <5>1, <5>2 DEF AllMinded, InMode
      <4> QED
        BY <3>1, <4>1, <4>2
    <3>4. mode'[w] \in Mode
      <4>1. job.mode \in Mode
        BY <1>3 DEF KeeperInv, JobOK
      <4> QED
        BY <2>3, <2>7, <4>1 DEF Minded, KeeperInv, TableOK
    <3>5. session[w] # Default
      BY <3>3, <3>4, Constants
    <3>6. s3[w] + late[w] >= S3
      BY <1>2, <1>3, <1>5, <3>1, <3>2, <3>5 DEF WireHeard
    <3>7. Fresh(w)'
      BY <1>1, <2>3, <3>2, <3>6, FreshAgain
    <3> QED
      BY <1>1, <3>3, <3>7 DEF InMode
  <2> QED
    BY <1>4, <2>6, <2>7 DEF AllMinded
<1> QED
  BY <1>6, <1>7 DEF Opened

\* A read that was answered refreshes its session, and one that was not does not.
LEMMA ReadDoneMinds == ASSUME KeeperInv, TimerInv, ReadDone PROVE TimerInv'
<1> SUFFICES ASSUME Busy' PROVE WireHeard' /\ AllMinded'
  BY DEF TimerInv
<1>1. /\ Answered("fg", {"read"}) /\ wire' = NoWire
      /\ UNCHANGED <<tracked, mode, refusing, bg, phase, ecus, spent>>
  BY DEF ReadDone, Leave
<1>2. WireHeard /\ AllMinded
  BY <1>1 DEF TimerInv, Busy
<1>3. wire # NoWire /\ job # NoJob /\ job.step = "read"
  <2>1. wire.req \in {"read"}
    BY <1>1, FgAnswer
  <2> QED
    BY <1>1, <2>1, FgAnswer
<1>4. \/ idle' = idle
      \/ idle' = Refresh(wire.ecu) /\ wire.verdict = "ok"
  BY DEF ReadDone
<1>5. WireHeard'
  BY <1>1 DEF WireHeard
<1>6. ASSUME NEW e \in Ecu, Minded(e)' PROVE InMode(e)' /\ Fresh(e)'
  <2>1. Minded(e)
    BY <1>1, <1>6 DEF Minded, Sound, ecus
  <2>2. session[e] = mode[e] /\ Fresh(e)
    BY <1>2, <1>3, <2>1 DEF AllMinded, InMode, Switched, Switching
  <2>3. InMode(e)'
    BY <1>1, <2>2 DEF InMode, ecus
  <2>4. CASE idle'[e] = idle[e]
    <3>1. Age(e)' = Age(e)
      BY <1>1, <2>4, AgeStays
    <3> QED
      BY <1>1, <2>2, <2>3, <3>1 DEF Fresh, ecus
  <2>5. CASE idle'[e] # idle[e]
    <3>1. e = wire.ecu /\ idle'[e] = 0 /\ wire.verdict = "ok"
      BY <1>4, <2>5 DEF Refresh, KeeperInv, TableOK
    <3>2. session[e] # Default
      BY <2>1, <2>2, NotDefault DEF InMode
    <3>3. s3[e] + late[e] >= S3
      BY <1>2, <1>3, <2>1, <3>1, <3>2 DEF WireHeard, Minded
    <3> QED
      BY <1>1, <2>3, <3>1, <3>3, FreshAgain DEF ecus
  <2> QED
    BY <2>4, <2>5
<1> QED
  BY <1>5, <1>6 DEF AllMinded

\* What becomes of the ECU that is asked: it restarts its timer in the session its
\* answer says, and is late no more if that is the one it is held for; or it hears
\* nothing.
LEMMA Asked ==
    ASSUME KeeperInv, Send, NEW r, r = Step(Head(lock))
    PROVE  \E v \in {"ok", "nrc", "none", "broken"}, u \in {"ok", "nrc", "lost"} :
              /\ wire' # NoWire /\ wire'.by = Head(lock) /\ wire'.ecu = r.ecu
              /\ wire'.req = r.req /\ wire'.verdict = v
              /\ u = "lost" => UNCHANGED ecus /\ v \in {"none", "broken"}
              /\ u # "lost" => Heard(r, u) /\ v \in {u, "none"}
<1>1. PICK left \in Nat, v \in {"ok", "nrc", "none", "broken"} :
         /\ wire' = [by |-> Head(lock), ecu |-> r.ecu, req |-> r.req, left |-> left, verdict |-> v]
         /\ Outcome(r, left, v)
  BY Outcomes
<1>2. /\ wire' # NoWire /\ wire'.by = Head(lock) /\ wire'.ecu = r.ecu
      /\ wire'.req = r.req /\ wire'.verdict = v
  <2>1. PICK t : t = Head(lock)
    OBVIOUS
  <2>2. t \in {"fg", "bg"}
    BY <2>1, Outcomes, Turn
  <2>3. wire' = [by |-> t, ecu |-> r.ecu, req |-> r.req, left |-> left, verdict |-> v]
    BY <1>1, <2>1
  <2> QED
    BY <2>1, <2>2, <2>3 DEF NoWire
<1>3. \A u : u \in Verdicts(r) => u \in {"ok", "nrc"}
  BY DEF Verdicts
<1>4. CASE v \in Verdicts(r) /\ Heard(r, v)
  BY <1>2, <1>3, <1>4
<1>5. CASE v = "nrc" /\ Heard(r, "nrc")
  BY <1>2, <1>5
<1>6. CASE v = "none" /\ \E u \in Verdicts(r) : Heard(r, u)
  BY <1>2, <1>3, <1>6
<1>7. CASE v \in {"none", "broken"} /\ UNCHANGED ecus
  BY <1>2, <1>7
<1> QED
  BY <1>1, <1>4, <1>5, <1>6, <1>7 DEF Outcome

\* A request that an ECU hears restarts its timer in the session the answer says,
\* and one that it does not hear changes nothing.
LEMMA SendMinds == ASSUME KeeperInv, TimerInv, Send PROVE TimerInv'
<1> SUFFICES ASSUME Busy' PROVE WireHeard' /\ AllMinded'
  BY DEF TimerInv
<1>1. /\ lock # <<>> /\ wire = NoWire
      /\ UNCHANGED <<table, bg, phase, job, lock>>
  BY Outcomes
<1>2. AllMinded
  BY <1>1 DEF TimerInv, Busy
<1>3. PICK r : r = Step(Head(lock))
  OBVIOUS
<1>4. /\ r.ecu \in Ecu
      /\ r.req # "tester" => Head(lock) = "fg" /\ job # NoJob /\ r.req = job.step /\ r.ecu = job.ecu
  BY <1>1, <1>3, Turn
<1>5. PICK v \in {"ok", "nrc", "none", "broken"}, u \in {"ok", "nrc", "lost"} :
         /\ wire' # NoWire /\ wire'.by = Head(lock) /\ wire'.ecu = r.ecu
         /\ wire'.req = r.req /\ wire'.verdict = v
         /\ u = "lost" => UNCHANGED ecus /\ v \in {"none", "broken"}
         /\ u # "lost" => Heard(r, u) /\ v \in {u, "none"}
  BY <1>3, Asked
<1>6. \A e \in Ecu : e # r.ecu \/ u = "lost" =>
         session'[e] = session[e] /\ s3'[e] = s3[e] /\ late'[e] = late[e]
  BY <1>5 DEF Heard, KeeperInv, EcusOK, ecus
<1>7. u # "lost" => /\ session'[r.ecu] = After(r, u)
                    /\ After(r, u) # Default => s3'[r.ecu] = S3
                    /\ late'[r.ecu] = IF After(r, u) = mode[r.ecu] \/ (r.req = "session" /\ u = "ok")
                                       THEN 0 ELSE late[r.ecu]
  BY <1>4, <1>5 DEF Heard, KeeperInv, EcusOK
<1>8. late[r.ecu] \in Nat /\ S3 \in Nat /\ \A e \in Ecu : late[e] \in Nat /\ Age(e) \in Nat
  BY <1>4, Constants, IdleBounded DEF IdleBounds
<1>9. WireHeard'
  <2>1. r.req = "session" /\ u = "ok" => After(r, u) = job.mode
    BY DEF After
  <2> SUFFICES ASSUME v \in {"ok", "nrc"}
               PROVE  /\ session'[r.ecu] # Default => s3'[r.ecu] + late'[r.ecu] >= S3
                      /\ r.req = "session" /\ v = "ok" => session'[r.ecu] = job'.mode
    BY <1>5 DEF WireHeard
  <2>2. u # "lost" /\ v = u
    BY <1>5
  <2>3. late'[r.ecu] \in Nat
    BY <1>7, <1>8, <2>2
  <2> QED
    BY <1>1, <1>7, <1>8, <2>1, <2>2, <2>3
<1>10. ASSUME NEW e \in Ecu, Minded(e)', e # r.ecu \/ u = "lost" PROVE InMode(e)' /\ Fresh(e)'
  <2>1. Minded(e) /\ idle'[e] = idle[e] /\ mode'[e] = mode[e]
    BY <1>1, <1>6, <1>10 DEF Minded, Sound, table
  <2>2. InMode(e) /\ Fresh(e)
    BY <1>2, <2>1 DEF AllMinded
  <2>3. Age(e)' = Age(e)
    BY <1>1, <2>1, AgeStays
  <2>4. Switched(e) => Switched(e)'
    BY <1>1, <1>6, <1>10 DEF Switched, Switching
  <2> QED
    BY <1>6, <1>10, <2>1, <2>2, <2>3, <2>4 DEF InMode, Fresh
<1>11. ASSUME NEW e \in Ecu, Minded(e)', e = r.ecu, u # "lost" PROVE InMode(e)' /\ Fresh(e)'
  <2>1. /\ idle'[e] = idle[e] /\ mode'[e] = mode[e] /\ e \in Range(tracked)
        /\ mode[e] # Unknown /\ e \notin refusing
    BY <1>1, <1>11 DEF Minded, Sound, table
  <2>2. r.req # "wake" /\ r.req # "default"
    <3>1. ASSUME r.req = "wake" PROVE FALSE
      <4>1. job # NoJob /\ job.step = "wake" /\ job.ecu = e
        BY <1>4, <1>11, <3>1
      <4>2. /\ phase = "opening" /\ Len(tracked) < Len(Steps)
            /\ e = Steps[Len(tracked) + 1]
        BY <4>1 DEF KeeperInv, TableOK, PhaseOK
      <4>3. e \notin Range(tracked)
        BY <4>2, NextIsNew DEF KeeperInv
      <4> QED
        BY <2>1, <4>3
    <3>2. ASSUME r.req = "default" PROVE FALSE
      <4>1. job # NoJob /\ job.step = "default"
        BY <1>4, <3>2
      <4>2. phase = "closing" /\ bg = Off
        BY <4>1 DEF KeeperInv, TableOK, PhaseOK
      <4> QED
        BY <1>1, <4>2, Idles DEF Busy
    <3> QED
      BY <3>1, <3>2
  <2>3. mode[e] \in Mode
    BY <2>1 DEF KeeperInv, TableOK
  <2>4. Age(e)' = Age(e)
    BY <1>1, <2>1, AgeStays
  <2>5. ASSUME After(r, u) # Default PROVE Fresh(e)'
    <3>1. s3'[e] = S3
      BY <1>7, <1>11, <2>5
    <3>2. late'[e] \in Nat
      BY <1>7, <1>8, <1>11
    <3> QED
      BY <1>8, <2>4, <3>1, <3>2 DEF Fresh
  <2>6. CASE r.req = "session" /\ u = "ok"
    <3>1. Head(lock) = "fg" /\ job # NoJob /\ job.step = "session" /\ job.ecu = e
      BY <1>4, <1>11, <2>6
    <3>2. After(r, u) = job.mode /\ job.mode \in Mode
      BY <2>6, <3>1 DEF After, KeeperInv, JobOK
    <3>3. Switched(e)'
      <4>1. Switching(e)'
        BY <1>1, <3>1 DEF Switching
      <4>2. session'[e] = job'.mode
        BY <1>1, <1>7, <1>11, <3>2
      <4>3. wire' # NoWire /\ wire'.by = "fg" /\ wire'.verdict \in {"ok", "none"}
        BY <1>5, <1>11, <2>6, <3>1
      <4> QED
        BY <4>1, <4>2, <4>3 DEF Switched
    <3> QED
      BY <2>5, <3>2, <3>3, Constants DEF InMode
  <2>7. CASE ~(r.req = "session" /\ u = "ok")
    <3>1. After(r, u) = session[e]
      BY <1>11, <2>2, <2>7 DEF After
    <3>2. CASE session[e] = mode[e]
      <4>1. session'[e] = mode'[e]
        BY <1>7, <1>11, <2>1, <3>1, <3>2
      <4> QED
        BY <2>3, <2>5, <3>1, <3>2, <4>1, Constants DEF InMode
    <3>3. CASE session[e] # mode[e]
      <4>1. late'[e] = late[e]
        BY <1>7, <1>11, <2>7, <3>1, <3>3
      <4>2. Minded(e)
        BY <1>1, <1>11, <2>1, <4>1 DEF Minded, Sound
      <4>3. Switched(e) /\ session[e] # Default
        BY <1>2, <3>3, <4>2, NotDefault DEF AllMinded, InMode
      <4>4. Switched(e)'
        BY <1>1, <1>7, <1>11, <3>1, <4>3 DEF Switched, Switching
      <4> QED
        BY <2>5, <3>1, <4>3, <4>4 DEF InMode
    <3> QED
      BY <3>2, <3>3
  <2> QED
    BY <2>6, <2>7
<1> QED
  BY <1>9, <1>10, <1>11 DEF AllMinded

\* A timer that has run no longer than a session may be old, and exchanges may take,
\* is not up.
LEMMA NotUp ==
    ASSUME NEW s \in Nat, NEW a \in Nat, a <= IdleLimit + Interval,
           NEW t \in Nat, t < Patience, s + a + t >= S3
    PROVE  s >= 1
<1>1. S3 \in Nat /\ Interval \in Nat /\ IdleLimit \in Nat
  BY Constants
<1> QED
  BY <1>1 DEF Patience

\* While the background task sleeps a tick makes every session a tick older.
LEMMA Ageing ==
    ASSUME KeeperInv, KeeperInv', Tick, NEW e \in Ecu, e \in Range(tracked)
    PROVE  Age(e)' >= Age(e) /\ (bg.pc = "sleep" => Age(e)' >= Age(e) + 1)
<1>1. /\ Waiting
      /\ idle'[e] = IF (phase = "opening" \/ bg # Off) /\ Has(e) /\ idle[e] <= IdleLimit
                    THEN idle[e] + 1 ELSE idle[e]
      /\ bg' = IF bg.pc = "sleep" THEN [bg EXCEPT !.left = @ - 1] ELSE bg
  BY DEF Tick
<1>2. /\ bg'.pc = bg.pc /\ bg'.rest = bg.rest
      /\ bg'.left = IF bg.pc = "sleep" THEN bg.left - 1 ELSE bg.left
  BY <1>1 DEF KeeperInv, TaskOK
<1>3. Interval \in Nat /\ IdleLimit \in Nat
  BY Constants
<1>4. /\ idle[e] \in Nat /\ Age(e) \in Nat
      /\ idle'[e] \in Nat /\ idle'[e] <= IdleLimit + 1 /\ Age(e)' \in Nat
  BY IdleBounded, IdleBoundedNext DEF IdleBounds
<1>5. bg.left \in Nat /\ bg.left <= Interval
  BY <1>3 DEF KeeperInv, TaskOK
<1>6. \/ idle'[e] = idle[e] + 1 /\ idle[e] <= IdleLimit
      \/ idle'[e] = idle[e] /\ (idle[e] > IdleLimit \/ bg = Off)
  BY <1>1, <1>3, <1>4 DEF Has
<1>7. Age(e)' >= Age(e)
  <2>1. CASE idle[e] <= IdleLimit
    <3>1. Age(e) = idle[e] /\ idle'[e] >= idle[e]
      BY <1>4, <1>6, <2>1 DEF Age
    <3>2. Age(e)' = idle'[e] \/ Age(e)' >= IdleLimit
      BY <1>2, <1>3, <1>4, <1>5 DEF Age
    <3> QED
      BY <1>3, <1>4, <2>1, <3>1, <3>2
  <2>2. CASE idle[e] > IdleLimit
    <3>1. idle'[e] = idle[e]
      BY <1>3, <1>4, <1>6, <2>2
    <3> QED
      BY <1>2, <1>3, <1>4, <1>5, <2>2, <3>1 DEF Age
  <2> QED
    BY <1>3, <1>4, <2>1, <2>2
<1>8. ASSUME bg.pc = "sleep" PROVE Age(e)' >= Age(e) + 1
  <2>1. bg.left > 0 /\ bg # Off
    BY <1>1, <1>8, Idles DEF Waiting
  <2>2. idle'[e] > IdleLimit => Age(e)' = IdleLimit + (Interval - (bg.left - 1))
    BY <1>2, <1>3, <1>4, <1>8 DEF Age
  <2>3. idle'[e] <= IdleLimit => Age(e)' = idle'[e]
    BY DEF Age
  <2>4. CASE idle[e] <= IdleLimit
    <3>1. Age(e) = idle[e] /\ idle'[e] = idle[e] + 1
      BY <1>3, <1>4, <1>6, <2>1, <2>4 DEF Age
    <3> QED
      BY <1>3, <1>4, <1>5, <2>1, <2>2, <2>3, <2>4, <3>1
  <2>5. CASE idle[e] > IdleLimit
    <3>1. idle'[e] = idle[e]
      BY <1>3, <1>4, <1>6, <2>5
    <3>2. Age(e) = IdleLimit + (Interval - bg.left)
      BY <1>3, <1>4, <1>8, <2>5 DEF Age
    <3> QED
      BY <1>3, <1>4, <1>5, <2>2, <2>5, <3>1, <3>2
  <2> QED
    BY <1>3, <1>4, <2>4, <2>5
<1> QED
  BY <1>7, <1>8

\* A tick is spent asleep or in an exchange: the timers that run are paid for.
LEMMA TickMinds == ASSUME KeeperInv, KeeperInv', TimerInv, Tick PROVE TimerInv'
<1> SUFFICES ASSUME Busy' PROVE WireHeard' /\ AllMinded'
  BY DEF TimerInv
<1>1. /\ Waiting
      /\ late' = [e \in Ecu |-> IF Late(e) /\ late[e] < Patience THEN late[e] + 1 ELSE late[e]]
      /\ s3' = [e \in Ecu |-> Max1(s3[e])]
      /\ session' = [e \in Ecu |-> IF s3[e] <= 1 THEN Default ELSE session[e]]
      /\ wire' = IF wire = NoWire THEN wire ELSE [wire EXCEPT !.left = @ - 1]
      /\ bg' = IF bg.pc = "sleep" THEN [bg EXCEPT !.left = @ - 1] ELSE bg
      /\ UNCHANGED <<tracked, mode, refusing, phase, job, lock>>
  BY DEF Tick
<1>2. Busy
  <2>1. bg'.pc = bg.pc
    BY <1>1 DEF KeeperInv, TaskOK
  <2> QED
    BY <1>1, <2>1 DEF Busy
<1>3. WireHeard /\ AllMinded
  BY <1>2 DEF TimerInv
<1>4. S3 \in Nat /\ Interval \in Nat /\ IdleLimit \in Nat /\ Patience \in Nat
  BY Constants
<1>5. \A e \in Ecu : /\ s3[e] \in Nat /\ (s3[e] = 0 <=> session[e] = Default)
                     /\ late[e] \in Nat /\ Age(e) \in Nat
                     /\ s3'[e] \in Nat /\ late'[e] \in Nat
                     /\ Age(e)' \in Nat /\ Age(e)' <= IdleLimit + Interval
  BY IdleBounded, IdleBoundedNext DEF IdleBounds, KeeperInv, EcusOK
<1>6. \A e \in Ecu : /\ s3'[e] = IF s3[e] > 0 THEN s3[e] - 1 ELSE 0
                     /\ session'[e] = IF s3[e] <= 1 THEN Default ELSE session[e]
                     /\ late'[e] = IF Late(e) /\ late[e] < Patience THEN late[e] + 1 ELSE late[e]
  BY <1>1 DEF Max1
<1>7. \A e \in Ecu : Sound(e)' => Sound(e) /\ late'[e] = IF Late(e) THEN late[e] + 1 ELSE late[e]
  BY <1>1, <1>4, <1>5, <1>6 DEF Sound
<1>8. wire # NoWire => /\ wire' # NoWire /\ wire'.by = wire.by /\ wire'.ecu = wire.ecu
                       /\ wire'.req = wire.req /\ wire'.verdict = wire.verdict
                       /\ wire.ecu \in Ecu
  <2> SUFFICES ASSUME wire # NoWire
               PROVE  /\ wire' # NoWire /\ wire'.by = wire.by /\ wire'.ecu = wire.ecu
                      /\ wire'.req = wire.req /\ wire'.verdict = wire.verdict
                      /\ wire.ecu \in Ecu
    OBVIOUS
  <2>1. wire \in [by : {"fg", "bg"}, ecu : Ecu, req : Request, left : Nat,
                  verdict : {"ok", "nrc", "none", "broken"}]
    BY DEF KeeperInv, WireOK
  <2>2. wire' = [wire EXCEPT !.left = @ - 1]
    BY <1>1
  <2>3. /\ wire'.by = wire.by /\ wire'.ecu = wire.ecu
        /\ wire'.req = wire.req /\ wire'.verdict = wire.verdict
    BY <2>1, <2>2
  <2>4. wire'.by \in {"fg", "bg"}
    BY <2>1, <2>3
  <2> QED
    BY <2>1, <2>3, <2>4 DEF NoWire, KeeperInv, WireOK
<1>9. ASSUME NEW e \in Ecu, Sound(e)', session[e] # Default,
             s3[e] + late[e] >= S3, wire # NoWire, wire.ecu = e
      PROVE  s3'[e] + late'[e] >= S3 /\ session'[e] = session[e]
  <2>1. Late(e)
    <3>1. bg.pc \in {"off", "sleep", "round"}
      BY DEF KeeperInv, TaskOK
    <3> QED
      BY <1>2, <1>7, <1>9, <3>1 DEF Late, Busy, Sound
  <2>2. late'[e] = late[e] + 1 /\ late'[e] < Patience
    BY <1>7, <1>9, <2>1 DEF Sound
  <2>3. s3[e] > 0 /\ s3'[e] = s3[e] - 1
    BY <1>5, <1>6, <1>9
  <2>4. s3'[e] + late'[e] >= S3
    BY <1>4, <1>5, <1>9, <2>2, <2>3
  <2>5. s3'[e] >= 1
    <3>1. s3'[e] + 0 + late'[e] >= S3 /\ 0 <= IdleLimit + Interval /\ 0 \in Nat
      BY <1>4, <1>5, <2>4
    <3> QED
      BY <1>5, <2>2, <3>1, NotUp
  <2> QED
    BY <1>5, <1>6, <2>3, <2>4, <2>5
<1>10. WireHeard'
  <2> SUFFICES ASSUME wire' # NoWire, wire'.verdict \in {"ok", "nrc"}, Sound(wire.ecu)'
               PROVE  /\ session'[wire'.ecu] # Default => s3'[wire'.ecu] + late'[wire'.ecu] >= S3
                      /\ wire'.req = "session" /\ wire'.verdict = "ok"
                         => session'[wire'.ecu] = job'.mode
    BY DEF WireHeard, Sound
  <2>1. wire # NoWire
    BY <1>1
  <2>2. PICK e \in Ecu : e = wire.ecu
    BY <1>8, <2>1
  <2>3. wire'.ecu = e /\ wire.verdict \in {"ok", "nrc"}
    BY <1>8, <2>1, <2>2
  <2>4. Sound(e)'
    BY <2>3 DEF Sound
  <2>5. Sound(e)
    BY <1>7, <2>4
  <2>6. /\ session[e] # Default => s3[e] + late[e] >= S3
        /\ wire.req = "session" /\ wire.verdict = "ok" => session[e] = job.mode
    BY <1>3, <2>1, <2>2, <2>3, <2>5 DEF WireHeard
  <2>7. session'[e] # Default => s3'[e] + late'[e] >= S3
    <3>1. session'[e] # Default => session[e] # Default
      BY <1>6
    <3> QED
      BY <1>9, <2>1, <2>2, <2>4, <2>6, <3>1
  <2>8. ASSUME wire'.req = "session", wire'.verdict = "ok" PROVE session'[e] = job'.mode
    <3>1. wire.req = "session" /\ wire.verdict = "ok"
      BY <1>8, <2>1, <2>8
    <3>2. job.mode \in Mode
      <4>1. lock # <<>> /\ Head(lock) = wire.by /\ wire.req = Step(wire.by).req
        BY <2>1 DEF KeeperInv, WireOK
      <4>2. job # NoJob /\ job.step = "session"
        BY <3>1, <4>1, Turn
      <4> QED
        BY <4>2 DEF KeeperInv, JobOK
    <3>3. session[e] = job.mode /\ session[e] # Default
      BY <2>6, <3>1, <3>2, Constants
    <3> QED
      BY <1>1, <1>9, <2>1, <2>2, <2>4, <2>6, <3>3
  <2> QED
    BY <2>3, <2>7, <2>8
<1>11. ASSUME NEW e \in Ecu, Minded(e)' PROVE InMode(e)' /\ Fresh(e)'
  <2>1. Minded(e) /\ Sound(e)'
    BY <1>1, <1>7, <1>11 DEF Minded
  <2>2. InMode(e) /\ Fresh(e)
    BY <1>3, <2>1 DEF AllMinded
  <2>3. session[e] # Default
    BY <2>1, <2>2, NotDefault
  <2>4. s3'[e] = s3[e] - 1 /\ s3[e] \in Nat /\ s3'[e] \in Nat
    BY <1>5, <1>6, <2>3
  <2>5. late'[e] < Patience /\ late'[e] = IF Late(e) THEN late[e] + 1 ELSE late[e]
    BY <1>7, <2>1 DEF Sound
  <2>6. Age(e)' >= Age(e) /\ (bg.pc = "sleep" => Age(e)' >= Age(e) + 1)
    BY <2>1, Ageing DEF Minded
  <2>7. Late(e) \/ bg.pc = "sleep"
    <3>1. bg.pc \in {"off", "sleep", "round"}
      BY DEF KeeperInv, TaskOK
    <3> QED
      BY <1>2, <2>1, <2>3, <3>1 DEF Late, Busy, Minded, Sound
  <2>8. s3'[e] + Age(e)' + late'[e] >= S3
    <3>1. s3[e] + Age(e) + late[e] >= S3
      BY <2>2 DEF Fresh
    <3>2. Age(e)' + late'[e] >= Age(e) + late[e] + 1
      BY <1>5, <2>5, <2>6, <2>7
    <3> QED
      BY <1>4, <1>5, <2>4, <3>1, <3>2
  <2>9. s3'[e] >= 1
    BY <1>5, <2>5, <2>8, NotUp
  <2>10. session'[e] = session[e]
    BY <1>6, <2>4, <2>9
  <2>11. InMode(e)'
    BY <1>1, <1>8, <2>2, <2>10 DEF InMode, Switched, Switching
  <2> QED
    BY <2>8, <2>11 DEF Fresh
<1> QED
  BY <1>10, <1>11 DEF AllMinded

\* Every step keeps the timers of the sessions it does not give up.
LEMMA StepMinds ==
    ASSUME KeeperInv, KeeperInv', TimerInv, [Next]_vars
    PROVE  TimerInv'
<1>1. CASE UNCHANGED vars
  <2>1. UNCHANGED <<tracked, mode, idle, refusing, bg, phase, job, wire, session, s3, late>>
    BY <1>1 DEF vars
  <2>2. \A e \in Ecu : Age(e)' = Age(e)
    BY <2>1, AgeStays
  <2>3. \A e \in Ecu : (Minded(e)' <=> Minded(e)) /\ (InMode(e)' <=> InMode(e))
                       /\ (Fresh(e)' <=> Fresh(e))
    BY <2>1, <2>2 DEF Minded, Sound, InMode, Switched, Switching, Fresh
  <2>4. (Busy' <=> Busy) /\ (WireHeard' <=> WireHeard)
    BY <2>1 DEF Busy, WireHeard, Sound
  <2> QED
    BY <2>3, <2>4 DEF TimerInv, AllMinded
<1>2. CASE Tick
  BY <1>2, TickMinds
<1>3. CASE Send
  BY <1>3, SendMinds
<1>4. CASE InlineKept
  BY <1>4, InlineKeptMinds
<1>5. CASE Woken
  BY <1>5, WokenMinds
<1>6. CASE Opened
  BY <1>6, OpenedMinds
<1>7. CASE ReadDone
  BY <1>7, ReadDoneMinds
<1>8. CASE BackgroundKept
  BY <1>8, BackgroundKeptMinds
<1>9. CASE Wakes
  BY <1>9, WakesMinds
<1>10. CASE StartBackground
  BY <1>10, StartMinds
<1>11. ASSUME NEW e \in Ecu, OpenAgain(e) PROVE TimerInv'
  BY <1>11, OpenAgainMinds
<1>12. CASE Raised \/ ReadRaises \/ Stop
  <2>1. Leaving
    BY <1>12 DEF Raised, ReadRaises, Stop
  <2>2. phase' # "opening" /\ bg' = Off
    BY <2>1 DEF Leaving
  <2> QED
    BY <2>2, GivenUp, Idles
<1>13. CASE CloseNext \/ CloseCut \/ Closed
  <2>1. phase = "closing" /\ bg' = bg /\ phase' # "opening"
    <3>1. CASE CloseNext \/ CloseCut
      BY <3>1 DEF CloseNext, CloseCut
    <3>2. CASE Closed
      <4>1. Answered("fg", {"default"}) /\ bg' = bg /\ phase' = phase
        BY <3>2 DEF Closed
      <4>2. wire.req = "default"
        BY <4>1 DEF Answered
      <4>3. job # NoJob /\ job.step = "default"
        BY <4>1, <4>2, FgAnswer
      <4> QED
        BY <4>1, <4>3 DEF KeeperInv, TableOK, PhaseOK
    <3> QED
      BY <1>13, <3>1, <3>2
  <2>2. bg'.pc = "off"
    BY <2>1, Idles DEF KeeperInv, PhaseOK
  <2> QED
    BY <2>1, <2>2, GivenUp
<1>14. CASE Open
  <2>1. Free /\ UNCHANGED <<table, bg, phase, wire, ecus, spent>>
    BY <1>14 DEF Open
  <2> QED
    BY <2>1, JobBegins
<1>15. ASSUME NEW e \in Ecu, Switch(e) \/ Read(e) PROVE TimerInv'
  <2>1. Free /\ UNCHANGED <<table, bg, phase, wire, ecus, spent>>
    BY <1>15 DEF Switch, Read
  <2> QED
    BY <2>1, JobBegins
<1> QED
  BY <1>1, <1>2, <1>3, <1>4, <1>5, <1>6, <1>7, <1>8, <1>9, <1>10, <1>11, <1>12, <1>13, <1>14,
     <1>15 DEF Next, Work, Exchange, Poll

\* No session is tracked at first.
LEMMA InitMinds == Init => TimerInv
<1> SUFFICES ASSUME Init PROVE TimerInv
  OBVIOUS
<1>1. tracked = <<>> /\ wire = NoWire
  BY DEF Init
<1>2. WireHeard
  BY <1>1 DEF WireHeard
<1>3. AllMinded
  BY <1>1 DEF AllMinded, Minded, Range
<1> QED
  BY <1>2, <1>3 DEF TimerInv

\* The keepalives come in time, for any timers and whatever is lost: while the
\* background task runs, each ECU the table vouches for is in the session the table
\* records, unless a switch of it is under way or rounds and exchanges have taken
\* all that the timer leaves them (SessionManager._keepalive_loop, SessionTable.stale).
THEOREM KeptInTime == Spec => []SessionsKept
<1>1. Init => KeeperInv /\ TimerInv
  BY InitKeeper, InitMinds
<1>2. KeeperInv /\ [Next]_vars => KeeperInv'
  BY StepKeeps
<1>3. KeeperInv /\ KeeperInv' /\ TimerInv /\ [Next]_vars => TimerInv'
  BY StepMinds
<1>4. KeeperInv /\ TimerInv => SessionsKept
  <2> SUFFICES ASSUME KeeperInv, TimerInv, bg.pc # "off",
                      NEW e \in Range(tracked) \ refusing, late[e] < Patience,
                      mode[e] # Unknown, ~Switching(e)
               PROVE  session[e] = mode[e]
    BY DEF SessionsKept, BelievedRightly
  <2>1. e \in Ecu
    <3>1. tracked \in Seq(Ecu)
      BY DEF KeeperInv, TableOK
    <3>2. PICK i \in DOMAIN tracked : e = tracked[i]
      BY DEF Range
    <3>3. DOMAIN tracked = 1..Len(tracked)
      BY <3>1
    <3> QED
      BY <3>1, <3>2, <3>3
  <2>2. Minded(e)
    BY DEF Minded, Sound
  <2> QED
    BY <2>1, <2>2 DEF TimerInv, Busy, AllMinded, InMode, Switched
<1> QED
  BY <1>1, <1>2, <1>3, <1>4, PTL DEF Spec
=============================================================================
