-------------------------- MODULE ElmTerminalProofs -------------------------
(***************************************************************************)
(* The shared terminal, for any tasks, ECUs, retries, rounds and faults:   *)
(* its cache is coherent with the adapter, and a task is given replies of  *)
(* the ECU it has addressed.                                               *)
(*                                                                         *)
(* Neither is inductive.  TerminalInv adds that one task at a time is in a *)
(* transaction, with its ECU addressed and a plan for that ECU left, and   *)
(* what the blocks on their way mean: up to the first banner there are no  *)
(* more of them than the ledger counts, and the one that would pay the     *)
(* last debt is the answer to the command that waits.                      *)
(***************************************************************************)
EXTENDS ElmTerminal, ResponsePipeProofs, SequenceTheorems

-----------------------------------------------------------------------------
(* Blocks *)

\* A whole block is the text of one reply.
OneText == {<<x>> : x \in Text}

\* The ledger as the terminal uses it: whole blocks of one text each.
Pipe == [owed : 0..MaxOwed, dirty : BOOLEAN, tail : {<<>>}, done : Seq(OneText)]

\* The fields of such a ledger.
LEMMA PipeFields ==
    ASSUME NEW p \in Pipe
    PROVE  /\ p.owed \in 0..MaxOwed /\ p.dirty \in BOOLEAN /\ p.tail = <<>>
           /\ p.done \in Seq(OneText) /\ Len(p.done) \in Nat /\ DOMAIN p.done = 1..Len(p.done)
           /\ p.owed \in Nat /\ (p.done = <<>> <=> Len(p.done) = 0)
<1>1. /\ p.owed \in 0..MaxOwed /\ p.dirty \in BOOLEAN /\ p.tail = <<>>
      /\ p.done \in Seq(OneText)
  BY DEF Pipe
<1> DEFINE d == p.done
<1>2. d \in Seq(OneText)
  BY <1>1
<1> HIDE DEF d
<1>3. Len(d) \in Nat /\ DOMAIN d = 1..Len(d) /\ (d = <<>> <=> Len(d) = 0)
  BY <1>2
<1>4. p.owed \in Nat
  BY <1>1, MaxOwedAssumption
<1> QED
  BY <1>1, <1>3, <1>4 DEF d

\* A block's text.
LEMMA OneTextIs ==
    ASSUME NEW b \in OneText
    PROVE  b[1] \in Text /\ b = <<b[1]>> /\ b # <<>> /\ Last(b) = b[1]
<1>1. PICK x \in Text : b = <<x>>
  BY DEF OneText
<1>2. b[1] = x /\ Len(b) = 1
  BY <1>1
<1> QED
  BY <1>1, <1>2 DEF Last

\* A text and its prompt complete one block.
LEMMA AbsorbPair ==
    ASSUME NEW p \in Pipe, NEW x \in Text
    PROVE  Absorb(Absorb(p, x), [kind |-> "prompt"]) = [p EXCEPT !.done = Append(@, <<x>>)]
<1> DEFINE q == Absorb(p, x)
           prompt == [kind |-> "prompt"]
<1>1. x.kind # "prompt" /\ x.kind # "pending"
  BY DEF Text
<1>2. p.tail = <<>> /\ Append(<<>>, x) = <<x>>
  BY PipeFields
<1>3. q = [p EXCEPT !.tail = <<x>>]
  BY <1>1, <1>2 DEF Absorb
<1>4. q.tail = <<x>> /\ q.done = p.done
  BY <1>3 DEF Pipe
<1>5. ~IsPending(<<x>>)
  <2>1. <<x>> # <<>> /\ Len(<<x>>) = 1 /\ <<x>>[1] = x
    OBVIOUS
  <2> QED
    BY <2>1, <1>1 DEF IsPending, Last
<1>6. prompt.kind = "prompt"
  OBVIOUS
<1> HIDE DEF q, prompt
<1>7. Absorb(q, prompt) = [q EXCEPT !.done = Append(q.done, q.tail), !.tail = <<>>]
  BY <1>4, <1>5, <1>6 DEF Absorb
<1>8. Absorb(q, prompt) = [q EXCEPT !.done = Append(p.done, <<x>>), !.tail = <<>>]
  BY <1>4, <1>7
<1> DEFINE d == Append(p.done, <<x>>)
<1> HIDE DEF d
<1>9. [q EXCEPT !.done = d, !.tail = <<>>] = [p EXCEPT !.done = d]
  BY <1>2, <1>3 DEF Pipe
<1> QED
  BY <1>8, <1>9 DEF d, q, prompt

\* s with the first n of the texts added, as blocks.
Grown(s, texts, n) == s \o [i \in 1..n |-> <<texts[i]>>]

\* The blocks of the first n texts are a sequence of blocks.
LEMMA GrownIs ==
    ASSUME NEW s \in Seq(OneText), NEW texts \in Seq(Text), NEW n \in 0..Len(texts)
    PROVE  /\ Grown(s, texts, n) \in Seq(OneText)
           /\ Len(Grown(s, texts, n)) = Len(s) + n
           /\ \A i \in 1..Len(s) : Grown(s, texts, n)[i] = s[i]
           /\ \A i \in 1..n : Grown(s, texts, n)[Len(s) + i] = <<texts[i]>>
<1> DEFINE b == [i \in 1..n |-> <<texts[i]>>]
<1>1. n \in Nat /\ \A i \in 1..n : texts[i] \in Text
  OBVIOUS
<1>2. \A i \in 1..n : <<texts[i]>> \in OneText
  BY <1>1 DEF OneText
<1>3. b \in Seq(OneText) /\ Len(b) = n /\ \A i \in 1..n : b[i] = <<texts[i]>>
  BY <1>1, <1>2
<1>4. Grown(s, texts, n) = s \o b
  BY DEF Grown
<1> HIDE DEF b
<1> DEFINE c == s \o b
           m == Len(s)
<1>5. /\ c \in Seq(OneText) /\ Len(c) = m + n /\ m \in Nat
      /\ \A i \in 1..(m + n) : c[i] = IF i <= m THEN s[i] ELSE b[i - m]
  <2>1. b \in Seq(OneText) /\ Len(b) = n
    BY <1>3
  <2>2. /\ c \in Seq(OneText) /\ Len(c) = Len(s) + Len(b)
        /\ \A i \in 1..(Len(s) + Len(b)) : c[i] = IF i <= Len(s) THEN s[i] ELSE b[i - Len(s)]
    BY <2>1, ConcatProperties
  <2> HIDE DEF c
  <2> QED
    BY <2>1, <2>2
<1> HIDE DEF c, m
<1>6. \A i \in 1..m : c[i] = s[i]
  BY <1>1, <1>5
<1>7. \A i \in 1..n : c[m + i] = b[i]
  <2> TAKE i \in 1..n
  <2>1. m + i \in 1..(m + n) /\ ~(m + i <= m) /\ (m + i) - m = i
    BY <1>1, <1>5
  <2> QED
    BY <1>5, <2>1
<1> QED
  BY <1>3, <1>4, <1>5, <1>6, <1>7 DEF c, m

\* Equal sequences, element by element.
LEMMA SameSequence ==
    ASSUME NEW S, NEW s \in Seq(S), NEW t \in Seq(S), Len(s) = Len(t),
           \A i \in 1..Len(s) : s[i] = t[i]
    PROVE  s = t
OBVIOUS

\* One text more is one block more.
LEMMA GrownAppend ==
    ASSUME NEW s \in Seq(OneText), NEW texts \in Seq(Text), NEW n \in Nat, n < Len(texts)
    PROVE  Append(Grown(s, texts, n), <<texts[n + 1]>>) = Grown(s, texts, n + 1)
<1> DEFINE a == Grown(s, texts, n)
           c == Grown(s, texts, n + 1)
           x == <<texts[n + 1]>>
<1>1. Len(texts) \in Nat /\ n \in 0..Len(texts) /\ n + 1 \in 0..Len(texts) /\ Len(s) \in Nat
  OBVIOUS
<1>2. /\ a \in Seq(OneText) /\ Len(a) = Len(s) + n
      /\ \A i \in 1..Len(s) : a[i] = s[i]
      /\ \A i \in 1..n : a[Len(s) + i] = <<texts[i]>>
  BY <1>1, GrownIs
<1>3. /\ c \in Seq(OneText) /\ Len(c) = Len(s) + (n + 1)
      /\ \A i \in 1..Len(s) : c[i] = s[i]
      /\ \A i \in 1..(n + 1) : c[Len(s) + i] = <<texts[i]>>
  BY <1>1, GrownIs
<1>4. x \in OneText
  <2>1. texts[n + 1] \in Text
    BY <1>1
  <2> QED
    BY <2>1 DEF OneText
<1>5. c[Len(s) + (n + 1)] = x
  <2>1. n + 1 \in 1..(n + 1)
    OBVIOUS
  <2> HIDE DEF c
  <2> QED
    BY <1>3, <2>1
<1> HIDE DEF a, c, x
<1> DEFINE m == Len(s)
           e == Append(a, x)
<1>6. /\ e \in Seq(OneText) /\ Len(e) = Len(a) + 1
      /\ \A i \in 1..Len(a) : e[i] = a[i]
      /\ e[Len(a) + 1] = x
  <2>1. \A y \in OneText : \A s1 \in Seq(OneText) :
           /\ Append(s1, y) \in Seq(OneText) /\ Len(Append(s1, y)) = Len(s1) + 1
           /\ \A i \in 1..Len(s1) : Append(s1, y)[i] = s1[i]
           /\ Append(s1, y)[Len(s1) + 1] = y
    BY AppendProperties
  <2>2. a \in Seq(OneText)
    BY <1>2
  <2> QED
    BY <1>4, <2>1, <2>2
<1>7. ASSUME NEW i \in 1..Len(e) PROVE e[i] = c[i]
  <2> HIDE DEF e
  <2>1. i \in 1..((m + n) + 1) /\ m \in Nat
    BY <1>1, <1>2, <1>6
  <2>2. CASE i \in 1..m
    <3>1. i \in 1..Len(a)
      BY <1>1, <1>2, <2>2
    <3> QED
      BY <1>2, <1>3, <1>6, <2>2, <3>1
  <2>3. CASE i \in (m + 1)..(m + n)
    <3> DEFINE k == i - m
    <3>1. k \in 1..n /\ k \in 1..(n + 1) /\ i = m + k /\ i \in 1..Len(a)
      BY <2>1, <2>3, <1>2
    <3> HIDE DEF k
    <3>2. a[m + k] = c[m + k]
      BY <1>2, <1>3, <3>1
    <3> QED
      BY <1>6, <3>1, <3>2
  <2>4. CASE i = m + (n + 1)
    BY <1>2, <1>5, <1>6, <2>1, <2>4
  <2> HIDE DEF m
  <2> QED
    BY <2>1, <2>2, <2>3, <2>4
<1>8. Len(e) = Len(c)
  <2> HIDE DEF e, m
  <2> QED
    BY <1>1, <1>2, <1>3, <1>6 DEF m
<1>9. e = c
  <2> HIDE DEF e
  <2> QED
    BY <1>3, <1>6, <1>7, <1>8, SameSequence
<1> QED
  BY <1>9 DEF a, c, x

\* Every text is followed by its prompt.
LEMMA PromptedTokens ==
    ASSUME NEW texts \in Seq(Text)
    PROVE  /\ Len(Prompted(texts)) = 2 * Len(texts)
           /\ \A k \in 1..Len(texts) : /\ Prompted(texts)[2 * k - 1] = texts[k]
                                       /\ Prompted(texts)[2 * k] = [kind |-> "prompt"]
<1> DEFINE m == Len(texts)
           f == Prompted(texts)
<1>1. m \in Nat /\ 2 * m \in Nat
  OBVIOUS
<1>2. f = [k \in 1..2 * m |->
              IF k % 2 = 1 THEN texts[(k + 1) \div 2] ELSE [kind |-> "prompt"]]
  BY DEF Prompted
<1>3. Len(f) = 2 * m
  BY <1>1, <1>2
<1>4. ASSUME NEW k \in 1..m
      PROVE  f[2 * k - 1] = texts[k] /\ f[2 * k] = [kind |-> "prompt"]
  <2> HIDE DEF m, f
  <2>1. /\ 2 * k - 1 \in 1..2 * m /\ 2 * k \in 1..2 * m
        /\ (2 * k - 1) % 2 = 1 /\ (2 * k) % 2 = 0
        /\ ((2 * k - 1) + 1) \div 2 = k
    BY <1>1
  <2> QED
    BY <1>2, <2>1
<1> QED
  BY <1>3, <1>4

\* Texts that arrive with their prompts are blocks added to those completed.
LEMMA FeedPrompted ==
    ASSUME NEW p \in Pipe, NEW texts \in Seq(Text)
    PROVE  Feed(p, Prompted(texts)) = [p EXCEPT !.done = Grown(p.done, texts, Len(texts))]
<1> DEFINE toks == Prompted(texts)
           h == Harvest(p, toks)
           m == Len(texts)
           S == {k \in Nat : k <= m => h[2 * k] = [p EXCEPT !.done = Grown(p.done, texts, k)]}
<1>1. m \in Nat /\ Len(toks) = 2 * m /\ 2 * m \in Nat
      /\ \A k \in 1..m : toks[2 * k - 1] = texts[k] /\ toks[2 * k] = [kind |-> "prompt"]
  BY PromptedTokens
<1>2. h[0] = p /\ \A i \in 1..2 * m : h[i] = Absorb(h[i - 1], toks[i])
  <2>1. Len(toks) \in Nat
    BY <1>1
  <2> QED
    BY <1>1, <2>1, HarvestSteps
<1> HIDE DEF toks, h
<1>3. p.done \in Seq(OneText) /\ p.tail = <<>>
  BY PipeFields
<1>4. 0 \in S
  <2>1. Grown(p.done, texts, 0) = p.done
    <3>1. 0 \in 0..Len(texts) /\ Len(p.done) \in Nat /\ Len(p.done) + 0 = Len(p.done)
      BY <1>1, PipeFields
    <3>2. /\ Grown(p.done, texts, 0) \in Seq(OneText)
          /\ Len(Grown(p.done, texts, 0)) = Len(p.done)
          /\ \A i \in 1..Len(p.done) : Grown(p.done, texts, 0)[i] = p.done[i]
      BY <1>3, <3>1, GrownIs
    <3> QED
      BY <1>3, <3>2, SameSequence
  <2>2. p = [p EXCEPT !.done = p.done]
    BY DEF Pipe
  <2>3. 2 * 0 = 0
    OBVIOUS
  <2> QED
    BY <1>2, <2>1, <2>2, <2>3
<1>5. ASSUME NEW k \in Nat, k \in S PROVE k + 1 \in S
  <2> SUFFICES ASSUME k + 1 <= m
               PROVE  h[2 * (k + 1)] = [p EXCEPT !.done = Grown(p.done, texts, k + 1)]
    OBVIOUS
  <2> HIDE DEF m
  <2> DEFINE q == [p EXCEPT !.done = Grown(p.done, texts, k)]
             x == texts[k + 1]
  <2>1. h[2 * k] = q
    BY <1>1, <1>5
  <2>2. /\ 2 * (k + 1) \in 1..2 * m /\ 2 * (k + 1) - 1 \in 1..2 * m
        /\ (2 * (k + 1) - 1) - 1 = 2 * k /\ k + 1 \in 1..m /\ k < m
    BY <1>1
  <2>3. toks[2 * (k + 1) - 1] = x /\ toks[2 * (k + 1)] = [kind |-> "prompt"]
    BY <1>1, <2>2
  <2>4. q \in Pipe
    <3>1. k \in 0..Len(texts)
      BY <1>1, <2>2 DEF m
    <3>2. Grown(p.done, texts, k) \in Seq(OneText)
      BY <1>3, <3>1, GrownIs
    <3> QED
      BY <3>2 DEF Pipe
  <2>5. x \in Text
    BY <2>2 DEF m
  <2> HIDE DEF q, x
  <2>6. h[2 * (k + 1) - 1] = Absorb(q, x)
    BY <1>2, <2>1, <2>2, <2>3
  <2>7. h[2 * (k + 1)] = Absorb(Absorb(q, x), [kind |-> "prompt"])
    BY <1>2, <2>2, <2>3, <2>6
  <2>8. h[2 * (k + 1)] = [q EXCEPT !.done = Append(q.done, <<x>>)]
    BY <2>4, <2>5, <2>7, AbsorbPair
  <2>9. Append(q.done, <<x>>) = Grown(p.done, texts, k + 1)
    <3>1. q.done = Grown(p.done, texts, k)
      BY DEF q, Pipe
    <3>2. Append(Grown(p.done, texts, k), <<texts[k + 1]>>) = Grown(p.done, texts, k + 1)
      BY <1>3, <2>2, GrownAppend DEF m
    <3> QED
      BY <3>1, <3>2 DEF x
  <2>10. [q EXCEPT !.done = Grown(p.done, texts, k + 1)]
          = [p EXCEPT !.done = Grown(p.done, texts, k + 1)]
    BY DEF q, Pipe
  <2> QED
    BY <2>8, <2>9, <2>10
<1>6. Nat \subseteq S
  <2> HIDE DEF S
  <2> QED
    BY <1>4, <1>5, NatInduct
<1>7. h[2 * m] = [p EXCEPT !.done = Grown(p.done, texts, m)]
  BY <1>1, <1>6
<1>8. Feed(p, toks) = [p EXCEPT !.tail = h[2 * m].tail, !.done = h[2 * m].done]
  BY <1>1 DEF Feed, h
<1> DEFINE g == Grown(p.done, texts, m)
<1> HIDE DEF g, m
<1>9. h[2 * m].tail = <<>> /\ h[2 * m].done = g
  BY <1>3, <1>7 DEF Pipe, g
<1>10. [p EXCEPT !.tail = <<>>, !.done = g] = [p EXCEPT !.done = g]
  BY <1>3 DEF Pipe
<1> QED
  BY <1>8, <1>9, <1>10 DEF g, m, toks

-----------------------------------------------------------------------------
(* One task at a time *)

Cache == [header : Ecu \cup {Nobody}, fc : Ecu \cup {Nobody}]

Active(t) == local[t].at # "idle"
Asking(t) == local[t].at \in {"collect", "probe"}

\* The plans, and the request, of task t for ECU e.
Todos(t, e) ==
    { <<[op |-> "request", ecu |-> Nobody, by |-> t]>>, <<Set("header", e)>>,
      <<Set("fc", e)>>, <<Set("header", e), Set("fc", e)>> }

\* What a task's locals, the cache and the ledger have to do with each other.
Fits(t, l) ==
    /\ l.at # "plan" => l.round < Rounds
    /\ l.at \in {"issue", "collect"} \/ (l.at \in {"drain", "probe"} /\ l.next = "issue") =>
          l.todo \in Todos(t, l.goal)
    /\ l.at \in {"issue", "collect"} /\ Head(l.todo).op = "request" =>
          cache.header \in {Nobody, l.goal}
    /\ l.at = "collect" => ~reinit
    /\ l.at = "probe" => cache.header = Nobody /\ pipe.owed = 1

TaskOK(t) ==
    /\ Active(t) <=> owner = t
    /\ Active(t) => local[t].goal \in Ecu /\ addressed = local[t].goal
    /\ Fits(t, local[t])

AtRest(p) == p.done = <<>> /\ (IF p.dirty THEN p.owed > 0 ELSE p.owed = 0)

LedgerOK ==
    /\ pipe \in Pipe
    /\ link = "dead" => owner = Nobody
    /\ link # "dead" /\ (\A t \in Task : ~Asking(t)) => AtRest(pipe)
    /\ (\E t \in Task : Asking(t)) => pipe.owed > 0

SerialInv == TypeOK /\ (\A t \in Task : TaskOK(t)) /\ LedgerOK

\* The bounds are numbers, and Nobody is nobody.
LEMMA Bounds ==
    /\ MaxOwed \in Nat \ {0} /\ Rounds \in Nat \ {0} /\ Retries \in Nat
    /\ Backlog \in Nat \ {0} /\ MaxFaults \in Nat
    /\ Nobody \notin Ecu /\ \A t \in Task : t # Nobody
BY MaxOwedAssumption, TerminalAssumption

\* Idle locals fit whatever is shared.
LEMMA IdleFits ==
    /\ Idle \in Local
    /\ \A t \in Task : Fits(t, Idle) /\ Fits(t, Idle)'
<1>1. <<>> \in Seq(Command)
  OBVIOUS
<1>2. Idle \in Local
  BY <1>1, Bounds DEF Idle, Local
<1> QED
  BY <1>2, Bounds DEF Fits, Idle

\* While t is in its transaction nobody else is in one.
LEMMA OthersIdle ==
    ASSUME SerialInv, NEW t \in Task, Active(t)
    PROVE  /\ owner = t
           /\ \A u \in Task \ {t} : local[u].at = "idle"
           /\ link # "dead"
BY Bounds DEF SerialInv, TaskOK, Active, LedgerOK

\* The others stay as they are while t goes on or leaves.
LEMMA OthersStay ==
    ASSUME SerialInv, NEW t \in Task, Active(t), owner' \in {t, Nobody},
           \A u \in Task \ {t} : local'[u] = local[u]
    PROVE  \A u \in Task \ {t} : TaskOK(u)' /\ local'[u].at = "idle"
<1> SUFFICES ASSUME NEW u \in Task \ {t} PROVE TaskOK(u)' /\ local'[u].at = "idle"
  OBVIOUS
<1>1. local[u].at = "idle" /\ local'[u] = local[u]
  BY OthersIdle
<1>2. local[u].round < Rounds
  BY <1>1 DEF SerialInv, TaskOK, Fits
<1>3. owner' # u
  BY Bounds
<1> QED
  BY <1>1, <1>2, <1>3 DEF TaskOK, Fits, Active

\* A task that goes on with locals that fit.
LEMMA GoesOn ==
    ASSUME SerialInv, NEW t \in Task, Active(t), NEW l \in Local, Becomes(t, l),
           l.at # "idle", l.goal = local[t].goal, addressed' = addressed, Fits(t, l)'
    PROVE  /\ local' \in [Task -> Local] /\ local'[t] = l
           /\ owner' = owner /\ owner' = t /\ owner' \in Task \cup {Nobody}
           /\ \A u \in Task : TaskOK(u)'
           /\ \A u \in Task \ {t} : local'[u].at = "idle"
<1>1. local \in [Task -> Local] /\ owner = t
  BY OthersIdle DEF SerialInv, TypeOK
<1>2. local' = [local EXCEPT ![t] = l] /\ owner' = owner
  BY DEF Becomes
<1>3. /\ local' \in [Task -> Local] /\ local'[t] = l
      /\ \A u \in Task \ {t} : local'[u] = local[u]
  BY <1>1, <1>2
<1>4. \A u \in Task \ {t} : TaskOK(u)' /\ local'[u].at = "idle"
  BY <1>1, <1>2, <1>3, OthersStay
<1>5. TaskOK(t)'
  <2>1. local[t].goal \in Ecu /\ addressed = local[t].goal
    BY DEF SerialInv, TaskOK
  <2> QED
    BY <1>1, <1>2, <1>3, <2>1 DEF TaskOK, Active
<1> QED
  BY <1>1, <1>2, <1>3, <1>4, <1>5

\* A task that leaves its transaction.
LEMMA Leaving ==
    ASSUME SerialInv, NEW t \in Task, Active(t), Leaves(t)
    PROVE  /\ local' \in [Task -> Local] /\ local'[t] = Idle /\ owner' = Nobody
           /\ \A u \in Task : TaskOK(u)'
           /\ \A u \in Task : local'[u].at = "idle"
<1>1. local \in [Task -> Local] /\ owner = t
  BY OthersIdle DEF SerialInv, TypeOK
<1>2. local' = [local EXCEPT ![t] = Idle] /\ owner' = Nobody
  BY <1>1 DEF Leaves
<1>3. /\ local' \in [Task -> Local] /\ local'[t] = Idle
      /\ \A u \in Task \ {t} : local'[u] = local[u]
  BY <1>1, <1>2, IdleFits
<1>4. \A u \in Task \ {t} : TaskOK(u)' /\ local'[u].at = "idle"
  BY <1>1, <1>2, <1>3, OthersStay
<1>5. TaskOK(t)' /\ Idle.at = "idle"
  <2>1. Fits(t, Idle)'
    BY IdleFits
  <2>2. Fits(t, local[t])'
    BY <1>3, <2>1 DEF Fits
  <2> QED
    BY <1>2, <1>3, <2>2, Bounds DEF TaskOK, Active, Idle
<1> QED
  BY <1>2, <1>3, <1>4, <1>5

\* begin() adds the command's own prompt.
LEMMA BeginIs ==
    ASSUME NEW p \in Pipe, p.owed < MaxOwed
    PROVE  /\ Begin(p) \in Pipe /\ Begin(p).owed = p.owed + 1 /\ Begin(p).owed > 0
           /\ Begin(p).done = <<>> /\ Begin(p).dirty = p.dirty
<1>1. p.owed \in Nat /\ p.owed + 1 \in 0..MaxOwed /\ <<>> \in Seq(OneText)
  BY PipeFields, Bounds
<1>2. Begin(p) = [p EXCEPT !.owed = p.owed + 1, !.done = <<>>]
  BY DEF Begin
<1> DEFINE n == p.owed + 1
<1>3. n \in 0..MaxOwed /\ n > 0
  BY <1>1
<1> HIDE DEF n
<1> QED
  BY <1>1, <1>2, <1>3 DEF Pipe, n

\* finish() settles the ledger or lets it stand.
LEMMA FinishIs ==
    ASSUME NEW p \in Pipe, p.owed > 0
    PROVE  /\ Finish(p) \in Pipe /\ AtRest(Finish(p)) /\ Finish(p).done = <<>>
           /\ Finish(p).owed = IF p.done = <<>> THEN p.owed ELSE 0
<1>1. <<>> \in Seq(OneText) /\ 0 \in 0..MaxOwed /\ p.owed \in 0..MaxOwed
  BY PipeFields, Bounds
<1>2. CASE p.done = <<>>
  <2>1. Finish(p) = [p EXCEPT !.dirty = TRUE, !.owed = p.owed, !.done = <<>>]
    BY <1>2 DEF Finish
  <2> QED
    BY <1>1, <1>2, <2>1 DEF Pipe, AtRest
<1>3. CASE p.done # <<>>
  <2>1. Finish(p) = [p EXCEPT !.dirty = FALSE, !.owed = 0, !.done = <<>>]
    BY <1>3 DEF Finish
  <2> QED
    BY <1>1, <1>3, <2>1 DEF Pipe, AtRest
<1> QED
  BY <1>2, <1>3

\* A resync begins with nothing owed but the answer to its probe.
LEMMA ProbedIs ==
    ASSUME NEW p \in Pipe
    PROVE  /\ Begin(ClearBacklog(p)) \in Pipe /\ Begin(ClearBacklog(p)).owed = 1
           /\ Begin(ClearBacklog(p)).done = <<>>
<1> DEFINE q == ClearBacklog(p)
<1>1. 0 \in 0..MaxOwed /\ 0 < MaxOwed
  BY Bounds
<1>2. q \in Pipe /\ q.owed = 0
  BY <1>1 DEF ClearBacklog, Pipe
<1> HIDE DEF q
<1> QED
  BY <1>1, <1>2, BeginIs DEF q

\* A fresh pipe is at rest.
LEMMA FreshIs == FreshPipe \in Pipe /\ AtRest(FreshPipe) /\ FreshPipe.owed = 0 /\ FreshPipe.done = <<>>
<1>1. <<>> \in Seq(OneText) /\ 0 \in 0..MaxOwed
  BY Bounds
<1> QED
  BY <1>1 DEF FreshPipe, Pipe, AtRest

\* What the cache becomes is a cache.
LEMMA ObserveIs ==
    ASSUME NEW known \in Cache, NEW c \in Command, NEW kind, NEW answered \in BOOLEAN
    PROVE  Observe(known, c, kind, answered) \in Cache
BY DEF Observe, Cache, Command

\* A cache of nothing is a cache.
LEMMA UnknownIs == Unknown \in Cache /\ Unknown.header = Nobody
BY DEF Unknown, Cache

\* The commands of a task are commands, and there is one.
LEMMA TodosAre ==
    ASSUME NEW t \in Task, NEW e \in Ecu, NEW todo \in Todos(t, e)
    PROVE  /\ todo \in Seq(Command) /\ todo # <<>> /\ Head(todo) \in Command
           /\ Len(todo) \in {1, 2}
           /\ Head(todo).op \in {"header", "fc", "request"}
           /\ Head(todo).op # "request" => Head(todo).ecu = e
           /\ Head(todo).op = "request" => Head(todo).by = t /\ Len(todo) = 1
           /\ Len(todo) > 1 => Tail(todo) \in Todos(t, e) /\ Head(Tail(todo)).op = "fc"
           /\ Tail(todo) \in Seq(Command)
<1> DEFINE r == [op |-> "request", ecu |-> Nobody, by |-> t]
           h == Set("header", e)
           f == Set("fc", e)
<1>1. /\ r \in Command /\ h \in Command /\ f \in Command
      /\ r.op = "request" /\ r.by = t /\ h.op = "header" /\ h.ecu = e /\ f.op = "fc" /\ f.ecu = e
  BY DEF Set, Command
<1>2. todo \in {<<r>>, <<h>>, <<f>>, <<h, f>>} /\ Todos(t, e) = {<<r>>, <<h>>, <<f>>, <<h, f>>}
  BY DEF Todos
<1> HIDE DEF r, h, f
<1>3. ASSUME NEW c \in {r, h, f}, todo = <<c>>
      PROVE  /\ todo \in Seq(Command) /\ todo # <<>> /\ Head(todo) = c /\ Len(todo) = 1
             /\ Tail(todo) \in Seq(Command)
  BY <1>1, <1>3
<1>4. ASSUME todo = <<h, f>>
      PROVE  /\ todo \in Seq(Command) /\ todo # <<>> /\ Head(todo) = h /\ Len(todo) = 2
             /\ Tail(todo) = <<f>> /\ Head(Tail(todo)) = f /\ Tail(todo) \in Seq(Command)
  BY <1>1, <1>4
<1> QED
  BY <1>1, <1>2, <1>3, <1>4

\* The plan for an ECU, when there is one.
LEMMA PlanIs ==
    ASSUME NEW t \in Task, NEW e \in Ecu, cache \in Cache
    PROVE  /\ Plan(e) # <<>> => Plan(e) \in Todos(t, e) /\ Head(Plan(e)).op # "request"
           /\ Plan(e) = <<>> => cache.header = e
<1> DEFINE h == Set("header", e)
           f == Set("fc", e)
<1>1. h.op = "header" /\ f.op = "fc"
  BY DEF Set
<1> HIDE DEF h, f
<1>2. Plan(e) = (IF cache.header = e THEN <<>> ELSE <<h>>) \o (IF cache.fc = e THEN <<>> ELSE <<f>>)
  BY DEF Plan, IfDiffers, h, f, Cache
<1>3. /\ <<>> \o <<>> = <<>> /\ <<h>> \o <<>> = <<h>> /\ <<>> \o <<f>> = <<f>>
      /\ <<h>> \o <<f>> = <<h, f>> /\ <<h>> # <<>> /\ <<h, f>> # <<>>
      /\ Head(<<h>>) = h /\ Head(<<f>>) = f /\ Head(<<h, f>>) = h
  <2>1. <<>> \in Seq({h, f}) /\ <<h>> \in Seq({h, f}) /\ <<f>> \in Seq({h, f}) /\ f \in {h, f}
    OBVIOUS
  <2>2. <<>> \o <<>> = <<>> /\ <<h>> \o <<>> = <<h>> /\ <<>> \o <<f>> = <<f>>
    BY <2>1, ConcatEmptySeq
  <2>3. <<h>> \o <<f>> = Append(<<h>>, f)
    BY <2>1, AppendIsConcat
  <2>4. Append(<<h>>, f) = <<h, f>>
    <3> DEFINE s == Append(<<h>>, f)
               d == <<h, f>>
    <3>1. s \in Seq({h, f}) /\ Len(s) = Len(<<h>>) + 1 /\ s[1] = <<h>>[1] /\ s[Len(<<h>>) + 1] = f
      <4>1. Len(<<h>>) = 1 /\ 1 \in 1..Len(<<h>>)
        OBVIOUS
      <4> QED
        BY <2>1, <4>1, AppendProperties
    <3>2. Len(<<h>>) = 1 /\ <<h>>[1] = h
      OBVIOUS
    <3>3. d \in Seq({h, f}) /\ Len(d) = 2 /\ d[1] = h /\ d[2] = f
      OBVIOUS
    <3> HIDE DEF s, d
    <3>4. Len(s) = Len(d) /\ \A i \in 1..Len(s) : s[i] = d[i]
      BY <3>1, <3>2, <3>3
    <3>5. s = d
      BY <3>1, <3>3, <3>4, SameSequence
    <3> QED
      BY <3>5 DEF s, d
  <2>5. <<h>> # <<>> /\ <<h, f>> # <<>>
    <3>1. Len(<<h>>) = 1 /\ Len(<<h, f>>) = 2 /\ Len(<<>>) = 0
      OBVIOUS
    <3> QED
      BY <3>1
  <2>6. Head(<<h>>) = h /\ Head(<<f>>) = f
    OBVIOUS
  <2>7. Head(<<h, f>>) = h
    OBVIOUS
  <2> QED
    BY <2>2, <2>3, <2>4, <2>5, <2>6, <2>7
<1>4. Plan(e) \in {<<>>, <<h>>, <<f>>, <<h, f>>} /\ (Plan(e) = <<>> => cache.header = e)
  BY <1>2, <1>3
<1>5. <<h>> \in Todos(t, e) /\ <<f>> \in Todos(t, e) /\ <<h, f>> \in Todos(t, e)
  BY DEF Todos, h, f
<1> QED
  BY <1>1, <1>3, <1>4, <1>5

-----------------------------------------------------------------------------
(* The steps keep it *)

\* With the lock free nobody is in a transaction.
LEMMA AllIdle ==
    ASSUME SerialInv, owner = Nobody
    PROVE  \A u \in Task : local[u].at = "idle" /\ local[u].round < Rounds
<1> SUFFICES ASSUME NEW u \in Task PROVE local[u].at = "idle" /\ local[u].round < Rounds
  OBVIOUS
<1>1. local[u].at = "idle"
  BY Bounds DEF SerialInv, TaskOK, Active
<1> QED
  BY <1>1 DEF SerialInv, TaskOK, Fits

\* The types of what a command of a task leaves alone.
OtherTypes ==
    /\ overtaken \in BOOLEAN /\ cache \in Cache /\ reinit \in BOOLEAN
    /\ link \in {"up", "doubted", "dead"} /\ pipe \in Pipe
    /\ header \in Ecu \cup {Nobody} /\ adapter \in Seq(Command) /\ wire \in Seq(Text)
    /\ faults \in 0..MaxFaults /\ doubt \in BOOLEAN

\* The types, as the steps need them.
LEMMA Typed == SerialInv => OtherTypes /\ addressed \in Ecu \cup {Nobody}
BY DEF SerialInv, TypeOK, LedgerOK, OtherTypes, Cache

\* And back: the parts make up the type invariant.
LEMMA Retyped ==
    ASSUME OtherTypes', local' \in [Task -> Local], owner' \in Task \cup {Nobody},
           addressed' \in Ecu \cup {Nobody}
    PROVE  TypeOK'
<1>1. pipe'.owed \in 0..MaxOwed /\ pipe'.dirty \in BOOLEAN
  <2>1. pipe' \in Pipe
    BY DEF OtherTypes
  <2> QED
    BY <2>1, PipeFields
<1> QED
  BY <1>1 DEF TypeOK, OtherTypes, Cache

\* The ledger's part of the invariant, when t is the only one who may be asking.
LEMMA Ledgered ==
    ASSUME NEW t \in Task, \A u \in Task \ {t} : local'[u].at = "idle", pipe' \in Pipe,
           link' = "dead" => owner' = Nobody,
           local'[t].at \in {"collect", "probe"} => pipe'.owed > 0,
           local'[t].at \notin {"collect", "probe"} => link' = "dead" \/ AtRest(pipe')
    PROVE  LedgerOK'
<1>1. \A u \in Task \ {t} : ~Asking(u)'
  BY DEF Asking
<1> QED
  BY <1>1 DEF LedgerOK, Asking, AtRest

\* While t is at work, the ledger is at rest unless t is asking.
LEMMA LedgerOf ==
    ASSUME SerialInv, NEW t \in Task, Active(t)
    PROVE  /\ pipe \in Pipe
           /\ Asking(t) => pipe.owed > 0
           /\ ~Asking(t) => AtRest(pipe)
<1>1. \A u \in Task \ {t} : ~Asking(u)
  BY OthersIdle DEF Asking
<1>2. link # "dead"
  BY OthersIdle
<1> QED
  BY <1>1, <1>2 DEF SerialInv, LedgerOK

\* transaction(): the task that enters has the lock, and the others are out.
LEMMA EnterSerial ==
    ASSUME SerialInv, NEW t \in Task, Enter(t)
    PROVE  SerialInv'
<1>1. PICK e \in Ecu :
        /\ local' = [local EXCEPT ![t] = [Idle EXCEPT !.at = "plan", !.goal = e]]
        /\ addressed' = e
  BY DEF Enter
<1>2. /\ local[t].at = "idle" /\ owner = Nobody /\ link # "dead" /\ owner' = t
      /\ cache' \in {cache, Unknown} /\ link' = link /\ pipe' = pipe
      /\ UNCHANGED <<overtaken, reinit, header, adapter, wire, faults, doubt>>
  BY DEF Enter, adapterVars
<1>3. PICK l : l = [Idle EXCEPT !.at = "plan", !.goal = e]
  OBVIOUS
<1>4. l \in Local /\ l.at = "plan" /\ l.goal = e
  BY <1>3, IdleFits DEF Local, Idle
<1>5. local \in [Task -> Local] /\ OtherTypes
  BY Typed DEF SerialInv, TypeOK
<1>6. /\ local' \in [Task -> Local] /\ local'[t] = l
      /\ \A u \in Task \ {t} : local'[u] = local[u]
  BY <1>1, <1>3, <1>4, <1>5
<1>7. \A u \in Task \ {t} : local'[u].at = "idle" /\ TaskOK(u)'
  <2> SUFFICES ASSUME NEW u \in Task \ {t} PROVE local'[u].at = "idle" /\ TaskOK(u)'
    OBVIOUS
  <2> QED
    BY <1>2, <1>6, AllIdle DEF TaskOK, Active, Fits
<1>8. TaskOK(t)'
  BY <1>1, <1>2, <1>4, <1>6 DEF TaskOK, Active, Fits
<1>9. AtRest(pipe)
  BY <1>2, AllIdle DEF SerialInv, LedgerOK, Asking
<1>10. LedgerOK'
  BY <1>2, <1>4, <1>5, <1>6, <1>7, <1>9, Ledgered DEF OtherTypes
<1>11. TypeOK'
  BY <1>1, <1>2, <1>5, <1>6, Retyped, UnknownIs DEF OtherTypes
<1> QED
  BY <1>7, <1>8, <1>10, <1>11 DEF SerialInv

\* What a task that goes on has to show.
LEMMA OnwardSerial ==
    ASSUME SerialInv, NEW t \in Task, Active(t), NEW l \in Local, Becomes(t, l),
           l.at # "idle", l.goal = local[t].goal, addressed' = addressed, Fits(t, l)',
           OtherTypes', link' = "dead" => FALSE,
           l.at \in {"collect", "probe"} => pipe'.owed > 0,
           l.at \notin {"collect", "probe"} => AtRest(pipe')
    PROVE  SerialInv'
<1>1. /\ local' \in [Task -> Local] /\ local'[t] = l
      /\ owner' \in Task \cup {Nobody}
      /\ \A u \in Task : TaskOK(u)'
      /\ \A u \in Task \ {t} : local'[u].at = "idle"
  BY GoesOn
<1>2. LedgerOK'
  BY <1>1, Ledgered DEF OtherTypes
<1>3. TypeOK'
  BY <1>1, Typed, Retyped
<1> QED
  BY <1>1, <1>2, <1>3 DEF SerialInv

\* What a task that leaves has to show.
LEMMA LeavingSerial ==
    ASSUME SerialInv, NEW t \in Task, Active(t), Leaves(t), OtherTypes', addressed' = addressed,
           link' = "dead" \/ AtRest(pipe')
    PROVE  SerialInv'
<1>1. /\ local' \in [Task -> Local] /\ local'[t] = Idle /\ owner' = Nobody
      /\ \A u \in Task : TaskOK(u)'
      /\ \A u \in Task : local'[u].at = "idle"
  BY Leaving
<1>2. LedgerOK'
  BY <1>1, Ledgered DEF OtherTypes
<1>3. TypeOK'
  BY <1>1, Typed, Retyped
<1> QED
  BY <1>1, <1>2, <1>3 DEF SerialInv

\* A task in its transaction has locals of its type, for the ECU that is addressed.
LEMMA LocalsOf ==
    ASSUME SerialInv, NEW t \in Task, Active(t)
    PROVE  /\ local[t] \in Local /\ local[t].goal \in Ecu /\ addressed = local[t].goal
           /\ Target(t) = local[t].goal /\ Fits(t, local[t])
BY DEF SerialInv, TypeOK, TaskOK, Target

\* set_header returns, and the task sends its request or restates the addressing first.
LEMMA AddressedLocals ==
    ASSUME SerialInv, NEW t \in Task, Active(t), Addressed(t), cache'.header = local[t].goal
    PROVE  \E l \in Local : /\ Becomes(t, l) /\ l.goal = local[t].goal
                             /\ l.at \in {"plan", "issue"} /\ Fits(t, l)'
<1>1. local[t] \in Local /\ local[t].goal \in Ecu
  BY LocalsOf
<1>2. PICK l : l = [local[t] EXCEPT
      !.round = 0, !.try = IF @ = 0 THEN 1 ELSE @,
      !.at = IF local[t].try = 0 THEN "plan" ELSE "issue",
      !.todo = IF local[t].try = 0 THEN <<>>
               ELSE <<[op |-> "request", ecu |-> Nobody, by |-> t]>>]
  OBVIOUS
<1>3. Becomes(t, l)
  BY <1>2 DEF Addressed
<1> DEFINE r == <<[op |-> "request", ecu |-> Nobody, by |-> t]>>
<1>4. r \in Todos(t, local[t].goal) /\ r \in Seq(Command) /\ <<>> \in Seq(Command)
      /\ Head(r).op = "request"
  <2>1. r \in Todos(t, local[t].goal) /\ Head(r).op = "request"
    BY DEF Todos
  <2> QED
    BY <1>1, <2>1, TodosAre
<1> HIDE DEF r
<1>5. l = [local[t] EXCEPT !.round = 0, !.try = IF @ = 0 THEN 1 ELSE @,
               !.at = IF local[t].try = 0 THEN "plan" ELSE "issue",
               !.todo = IF local[t].try = 0 THEN <<>> ELSE r]
  BY <1>2 DEF r
<1>6. /\ l \in Local /\ l.goal = local[t].goal /\ l.round = 0 /\ l.at \in {"plan", "issue"}
      /\ l.at = "issue" => l.todo = r
  <2>1. 0 \in 0..Rounds /\ 1 \in 0..Retries + 1 /\ local[t].try \in 0..Retries + 1
    BY <1>1, Bounds DEF Local
  <2>2. CASE local[t].try = 0
    <3>1. l = [local[t] EXCEPT !.round = 0, !.try = 1, !.at = "plan", !.todo = <<>>]
      BY <1>5, <2>2
    <3> QED
      BY <1>1, <1>4, <2>1, <3>1 DEF Local
  <2>3. CASE local[t].try # 0
    <3>1. l = [local[t] EXCEPT !.round = 0, !.try = local[t].try, !.at = "issue", !.todo = r]
      BY <1>5, <2>3
    <3> QED
      BY <1>1, <1>4, <2>1, <3>1 DEF Local
  <2> QED
    BY <2>2, <2>3
<1>7. Fits(t, l)'
  BY <1>4, <1>6, Bounds DEF Fits
<1> QED
  BY <1>3, <1>6, <1>7

\* A round of set_header: another plan, the request, or out after the last round.
LEMMA SetHeaderSerial ==
    ASSUME SerialInv, NEW t \in Task, SetHeader(t)
    PROVE  SerialInv'
<1> DEFINE todo == Plan(Target(t))
<1>1. /\ local[t].at = "plan" /\ UNCHANGED <<addressed, cache, reinit, pipe, faults, doubt>>
      /\ UNCHANGED <<header, adapter, wire>>
  BY DEF SetHeader, adapterVars
<1>2. Active(t) /\ ~Asking(t)
  BY <1>1 DEF Active, Asking
<1>3. OtherTypes /\ AtRest(pipe) /\ link # "dead"
  BY <1>2, Typed, LedgerOf, OthersIdle
<1>4. local[t] \in Local /\ local[t].goal \in Ecu /\ Target(t) = local[t].goal
  BY <1>2, LocalsOf
<1>5. CASE local[t].round = Rounds /\ Leaves(t) /\ link' = "doubted" /\ UNCHANGED overtaken
  BY <1>1, <1>2, <1>3, <1>5, LeavingSerial DEF OtherTypes
<1>6. CASE local[t].round < Rounds /\ todo = <<>> /\ Addressed(t) /\ UNCHANGED <<link, overtaken>>
  <2>1. cache'.header = local[t].goal
    BY <1>1, <1>3, <1>4, <1>6, PlanIs DEF OtherTypes
  <2>2. PICK l \in Local : /\ Becomes(t, l) /\ l.goal = local[t].goal
                           /\ l.at \in {"plan", "issue"} /\ Fits(t, l)'
    BY <1>2, <1>6, <2>1, AddressedLocals
  <2> QED
    BY <1>1, <1>2, <1>3, <1>6, <2>2, OnwardSerial DEF OtherTypes
<1>7. CASE /\ local[t].round < Rounds /\ todo # <<>> /\ overtaken' = FALSE /\ UNCHANGED link
           /\ Becomes(t, [local[t] EXCEPT !.at = "issue", !.todo = todo])
  <2>1. todo \in Todos(t, local[t].goal) /\ Head(todo).op # "request"
    BY <1>3, <1>4, <1>7, PlanIs DEF OtherTypes
  <2>2. todo \in Seq(Command)
    BY <1>4, <2>1, TodosAre
  <2>3. PICK l : l = [local[t] EXCEPT !.at = "issue", !.todo = todo]
    OBVIOUS
  <2> HIDE DEF todo
  <2>4. /\ l \in Local /\ l.goal = local[t].goal /\ l.round = local[t].round
        /\ l.at = "issue" /\ l.todo = todo
    BY <1>4, <2>2, <2>3 DEF Local
  <2>5. Fits(t, l)'
    BY <1>7, <2>1, <2>4 DEF Fits
  <2>6. Becomes(t, l)
    BY <1>7, <2>3
  <2> QED
    BY <1>1, <1>2, <1>3, <1>7, <2>4, <2>5, <2>6, OnwardSerial DEF OtherTypes
<1> QED
  BY <1>5, <1>6, <1>7 DEF SetHeader

\* The send that is counted is below the ceiling, or a resync goes first.
LEMMA IssueSerial ==
    ASSUME SerialInv, NEW t \in Task, Issue(t)
    PROVE  SerialInv'
<1>1. /\ local[t].at = "issue"
      /\ UNCHANGED <<overtaken, addressed, cache, link, header, wire, faults, doubt>>
  BY DEF Issue
<1>2. Active(t) /\ ~Asking(t)
  BY <1>1 DEF Active, Asking
<1>3. OtherTypes /\ AtRest(pipe) /\ pipe \in Pipe /\ link # "dead"
  BY <1>2, Typed, LedgerOf, OthersIdle
<1>4. local[t] \in Local /\ local[t].goal \in Ecu /\ Fits(t, local[t])
  BY <1>2, LocalsOf
<1>5. CASE NeedsResync(pipe) \/ reinit
  <2>1. /\ Becomes(t, [local[t] EXCEPT !.at = "drain", !.next = "issue"])
        /\ reinit' = (reinit /\ NeedsResync(pipe)) /\ UNCHANGED <<pipe, adapter>>
    BY <1>5 DEF Issue
  <2>2. PICK l : l = [local[t] EXCEPT !.at = "drain", !.next = "issue"]
    OBVIOUS
  <2>3. /\ l \in Local /\ l.goal = local[t].goal /\ l.at = "drain"
        /\ l.round = local[t].round /\ l.todo = local[t].todo
    BY <1>4, <2>2 DEF Local
  <2>4. Fits(t, l)'
    BY <1>1, <1>4, <2>3 DEF Fits
  <2>5. reinit' \in BOOLEAN
    BY <2>1
  <2>6. OtherTypes'
    BY <1>1, <1>3, <2>1, <2>5 DEF OtherTypes
  <2>7. AtRest(pipe')
    BY <1>3, <2>1
  <2>8. Becomes(t, l)
    BY <2>1, <2>2
  <2> QED
    BY <1>1, <1>2, <1>3, <2>3, <2>4, <2>6, <2>7, <2>8, OnwardSerial
<1>6. CASE ~(NeedsResync(pipe) \/ reinit)
  <2>1. /\ Becomes(t, [local[t] EXCEPT !.at = "collect"]) /\ pipe' = Begin(pipe)
        /\ adapter' = IF Len(adapter) + Len(wire) < Backlog
                          THEN Append(adapter, Cmd(t)) ELSE adapter
        /\ reinit' = reinit /\ ~reinit
    BY <1>6 DEF Issue
  <2>2. PICK l : l = [local[t] EXCEPT !.at = "collect"]
    OBVIOUS
  <2>3. /\ l \in Local /\ l.goal = local[t].goal /\ l.at = "collect"
        /\ l.round = local[t].round /\ l.todo = local[t].todo
    BY <1>4, <2>2 DEF Local
  <2>4. Fits(t, l)'
    BY <1>1, <1>4, <2>1, <2>3 DEF Fits
  <2>5. pipe.owed < MaxOwed
    <3>1. pipe.owed \in Nat /\ pipe.dirty \in BOOLEAN
      BY <1>3, PipeFields
    <3> QED
      BY <1>3, <1>6, <3>1, Bounds DEF NeedsResync, AtRest
  <2>6. pipe' \in Pipe /\ pipe'.owed > 0
    BY <1>3, <2>1, <2>5, BeginIs
  <2>7. adapter' \in Seq(Command)
    <3>1. Cmd(t) \in Command
      BY <1>1, <1>4, TodosAre DEF Cmd, Fits
    <3> QED
      BY <1>3, <2>1, <3>1 DEF OtherTypes
  <2>8. OtherTypes'
    BY <1>1, <1>3, <2>1, <2>6, <2>7 DEF OtherTypes
  <2>9. Becomes(t, l)
    BY <2>1, <2>2
  <2> QED
    BY <1>1, <1>2, <1>3, <2>3, <2>4, <2>6, <2>8, <2>9, OnwardSerial
<1> QED
  BY <1>5, <1>6

\* Nobody's locals change, nor what they depend on.
LEMMA StandsSerial ==
    ASSUME SerialInv, UNCHANGED <<owner, local, addressed, cache, reinit, link>>, OtherTypes',
           pipe'.owed = pipe.owed,
           (\A t \in Task : ~Asking(t)) => pipe' = pipe
    PROVE  SerialInv'
<1>1. local' \in [Task -> Local] /\ owner' \in Task \cup {Nobody}
  BY DEF SerialInv, TypeOK
<1>2. TypeOK'
  BY <1>1, Typed, Retyped
<1>3. \A t \in Task : TaskOK(t)'
  BY DEF SerialInv, TaskOK, Fits, Active
<1>4. LedgerOK'
  BY DEF SerialInv, LedgerOK, Asking, AtRest, OtherTypes
<1> QED
  BY <1>2, <1>3, <1>4 DEF SerialInv

\* What is received: the blocks that were the first on their way.
Received(n) ==
    /\ pipe' = [pipe EXCEPT !.done = Grown(pipe.done, SubSeq(wire, 1, n), n)]
    /\ wire' = SubSeq(wire, n + 1, Len(wire))
    /\ SubSeq(wire, 1, n) \in Seq(Text) /\ Len(SubSeq(wire, 1, n)) = n
    /\ \A i \in 1..n : SubSeq(wire, 1, n)[i] = wire[i]
    /\ wire' \in Seq(Text) /\ Len(wire') = Len(wire) - n
    /\ \A i \in 1..(Len(wire) - n) : wire'[i] = wire[n + i]
    /\ n \in Nat /\ Len(wire) \in Nat /\ n <= Len(wire)

\* Receiving takes some of the texts on the wire, as whole blocks.
LEMMA ReceivedIs ==
    ASSUME SerialInv, NEW t \in Task, Receive(t)
    PROVE  \E n \in 1..Len(wire) : Received(n)
<1>1. PICK n \in 1..Len(wire) :
        /\ pipe' = Feed(pipe, Prompted(SubSeq(wire, 1, n)))
        /\ wire' = SubSeq(wire, n + 1, Len(wire))
  BY DEF Receive
<1>2. pipe \in Pipe /\ wire \in Seq(Text)
  BY Typed DEF OtherTypes
<1> DEFINE m == Len(wire)
           s == SubSeq(wire, 1, n)
           r == SubSeq(wire, n + 1, m)
<1>3. m \in Nat /\ n \in Nat /\ n <= m /\ n >= 1 /\ \A i \in 1..m : wire[i] \in Text
  BY <1>2
<1> HIDE DEF m
<1>4. s \in Seq(Text) /\ Len(s) = n /\ \A i \in 1..n : s[i] = wire[i]
  <2>1. \A i \in 1..n : wire[i] \in Text
    BY <1>3
  <2>2. /\ s \in Seq(Text) /\ Len(s) = (IF 1 <= n THEN n - 1 + 1 ELSE 0)
        /\ \A i \in 1..(n - 1 + 1) : s[i] = wire[1 + i - 1]
    <3>1. 1 \in Int /\ n \in Int
      BY <1>3
    <3> QED
      BY <2>1, <3>1, SubSeqProperties
  <2> HIDE DEF s
  <2>3. n - 1 + 1 = n /\ \A i \in 1..n : 1 + i - 1 = i
    BY <1>3
  <2> QED
    BY <1>3, <2>2, <2>3
<1>5. r \in Seq(Text) /\ Len(r) = m - n /\ \A i \in 1..(m - n) : r[i] = wire[n + i]
  <2>1. \A i \in (n + 1)..m : wire[i] \in Text
    BY <1>3
  <2>2. /\ r \in Seq(Text) /\ Len(r) = (IF n + 1 <= m THEN m - (n + 1) + 1 ELSE 0)
        /\ \A i \in 1..(m - (n + 1) + 1) : r[i] = wire[(n + 1) + i - 1]
    <3>1. n + 1 \in Int /\ m \in Int
      BY <1>3
    <3> QED
      BY <2>1, <3>1, SubSeqProperties
  <2> HIDE DEF r
  <2>3. m - (n + 1) + 1 = m - n /\ \A i \in 1..(m - n) : (n + 1) + i - 1 = n + i
    BY <1>3
  <2>4. Len(r) = m - n
    BY <1>3, <2>2
  <2> QED
    BY <2>2, <2>3, <2>4
<1>6. Feed(pipe, Prompted(s)) = [pipe EXCEPT !.done = Grown(pipe.done, s, n)]
  BY <1>2, <1>4, FeedPrompted
<1>7. Received(n)
  BY <1>1, <1>3, <1>4, <1>5, <1>6 DEF Received, m
<1> QED
  BY <1>7

\* What is received changes nobody's turn, and no count.
LEMMA ReceiveSerial ==
    ASSUME SerialInv, NEW t \in Task, Receive(t)
    PROVE  SerialInv'
<1>1. PICK n \in 1..Len(wire) : Received(n)
  BY ReceivedIs
<1>2. pipe \in Pipe /\ OtherTypes
  BY Typed DEF OtherTypes
<1>3. pipe' \in Pipe /\ pipe'.owed = pipe.owed
  <2> DEFINE s == SubSeq(wire, 1, n)
             g == Grown(pipe.done, s, n)
  <2>1. s \in Seq(Text) /\ n \in 0..Len(s) /\ pipe.done \in Seq(OneText)
    BY <1>1, <1>2, PipeFields DEF Received
  <2>2. g \in Seq(OneText)
    BY <2>1, GrownIs
  <2>3. pipe' = [pipe EXCEPT !.done = g]
    BY <1>1 DEF Received
  <2> HIDE DEF g
  <2> QED
    BY <1>2, <2>2, <2>3 DEF Pipe
<1>4. /\ UNCHANGED <<owner, local, overtaken, addressed, cache, reinit, link, header, adapter, faults, doubt>>
      /\ Asking(t)
  BY DEF Receive, taskVars, Asking
<1>5. OtherTypes'
  BY <1>1, <1>2, <1>3, <1>4 DEF OtherTypes, Received
<1> QED
  BY <1>3, <1>4, <1>5, StandsSerial

\* What a collection leaves to everybody.
Concluded(t) ==
    /\ local[t].at = "collect" /\ pipe' = Finish(pipe)
    /\ cache' = Observe(IF Kind(Block(pipe)) = "banner" THEN Unknown ELSE cache,
                        Cmd(t), Kind(Block(pipe)), pipe.done # <<>>)
    /\ overtaken' = (overtaken \/ Kind(Block(pipe)) = "banner")
    /\ reinit' = (reinit \/ Kind(Block(pipe)) = "banner")
    /\ doubt' = \/ doubt
                \/ pipe.done # <<>> /\ ~Satisfied(pipe)
                \/ pipe.done # <<>> /\ <<Banner>> \in Range(Front(pipe.done))
    /\ UNCHANGED <<addressed, link, header, adapter, wire, faults>>

\* A collection's end, for everybody and for the task itself.
LEMMA ConcludedIs ==
    ASSUME NEW t \in Task, Conclude(t)
    PROVE  /\ Concluded(t)
           /\ \/ AddressingAnswered(t, Kind(Block(pipe)))
              \/ RequestAnswered(t, Verdict(t, Block(pipe)))
BY DEF Conclude, Concluded, adapterVars

\* The command of a task is one of its plan or its request, and its ECU the goal.
LEMMA CommandIs ==
    ASSUME SerialInv, NEW t \in Task, local[t].at \in {"issue", "collect"}
    PROVE  /\ Active(t) /\ local[t].todo \in Todos(t, local[t].goal) /\ Cmd(t) \in Command
           /\ Cmd(t).op \in {"header", "fc", "request"}
           /\ Cmd(t).op # "request" => Cmd(t).ecu = local[t].goal
           /\ local[t].goal \in Ecu
<1>1. Active(t)
  BY DEF Active
<1>2. local[t].todo \in Todos(t, local[t].goal) /\ local[t].goal \in Ecu
  BY <1>1, LocalsOf DEF Fits
<1> QED
  BY <1>1, <1>2, TodosAre DEF Cmd

\* What the command's answer makes of the cache.
LEMMA ConcludedTypes ==
    ASSUME SerialInv, NEW t \in Task, Concluded(t)
    PROVE  /\ Active(t) /\ OtherTypes' /\ AtRest(pipe')
           /\ addressed' = addressed /\ link' = link /\ link # "dead"
<1>1. Active(t) /\ Asking(t) /\ Cmd(t) \in Command
  BY CommandIs DEF Concluded, Active, Asking
<1>2. OtherTypes /\ pipe \in Pipe /\ pipe.owed > 0 /\ link # "dead"
  BY <1>1, Typed, LedgerOf, OthersIdle
<1>3. pipe' \in Pipe /\ AtRest(pipe')
  BY <1>2, FinishIs DEF Concluded
<1>4. cache' \in Cache
  <2>1. (IF Kind(Block(pipe)) = "banner" THEN Unknown ELSE cache) \in Cache
    BY <1>2, UnknownIs DEF OtherTypes
  <2> QED
    BY <1>1, <2>1, ObserveIs DEF Concluded
<1>5. reinit' \in BOOLEAN /\ overtaken' \in BOOLEAN /\ doubt' \in BOOLEAN
  <2>1. reinit' \in BOOLEAN
    BY DEF Concluded
  <2>2. overtaken' \in BOOLEAN
    BY DEF Concluded
  <2>3. doubt' \in BOOLEAN
    BY DEF Concluded
  <2> QED
    BY <2>1, <2>2, <2>3
<1>6. OtherTypes'
  BY <1>2, <1>3, <1>4, <1>5 DEF OtherTypes, Concluded
<1> QED
  BY <1>1, <1>2, <1>3, <1>6 DEF Concluded

\* Where an answer takes the task that waited for it.
LEMMA ConcludeLocals ==
    ASSUME SerialInv, NEW t \in Task, Conclude(t)
    PROVE  \/ Leaves(t)
           \/ \E l \in Local : /\ Becomes(t, l) /\ l.goal = local[t].goal
                               /\ l.at \in {"plan", "issue", "drain"} /\ Fits(t, l)'
<1> DEFINE kind == Kind(Block(pipe))
           verdict == Verdict(t, Block(pipe))
           Onward == \E l \in Local : /\ Becomes(t, l) /\ l.goal = local[t].goal
                                      /\ l.at \in {"plan", "issue", "drain"} /\ Fits(t, l)'
<1>1. Concluded(t) /\ (AddressingAnswered(t, kind) \/ RequestAnswered(t, verdict))
  BY ConcludedIs
<1>2. /\ local[t].at = "collect" /\ Active(t) /\ local[t] \in Local /\ Fits(t, local[t])
      /\ Target(t) = local[t].goal /\ local[t].round < Rounds
  <2>1. local[t].at = "collect" /\ Active(t)
    BY <1>1 DEF Concluded, Active
  <2> QED
    BY <2>1, LocalsOf DEF Fits
<1>3. /\ local[t].todo \in Todos(t, local[t].goal) /\ local[t].goal \in Ecu
      /\ <<>> \in Seq(Command)
  BY <1>2, CommandIs
<1> HIDE DEF kind, verdict
<1>4. CASE AddressingAnswered(t, kind)
  <2>1. CASE Cmd(t).op = "header" /\ kind = "refused"
    BY <1>4, <2>1 DEF AddressingAnswered
  <2>2. CASE ~(Cmd(t).op = "header" /\ kind = "refused") /\ Len(local[t].todo) > 1
    <3>1. Becomes(t, [local[t] EXCEPT !.at = "issue", !.todo = Tail(@)])
      BY <1>4, <2>2 DEF AddressingAnswered
    <3> DEFINE rest == Tail(local[t].todo)
    <3>2. rest \in Todos(t, local[t].goal) /\ Head(rest).op = "fc" /\ rest \in Seq(Command)
      BY <1>3, <2>2, TodosAre
    <3>3. PICK l : l = [local[t] EXCEPT !.at = "issue", !.todo = rest]
      OBVIOUS
    <3>4. Becomes(t, l)
      BY <3>1, <3>3
    <3> HIDE DEF rest
    <3>5. /\ l \in Local /\ l.goal = local[t].goal /\ l.at = "issue" /\ l.todo = rest
          /\ l.round = local[t].round
      BY <1>2, <3>2, <3>3 DEF Local
    <3>6. Fits(t, l)'
      BY <1>2, <3>2, <3>5 DEF Fits
    <3> QED
      BY <3>4, <3>5, <3>6
  <2>3. CASE /\ ~(Cmd(t).op = "header" /\ kind = "refused") /\ ~(Len(local[t].todo) > 1)
             /\ ~overtaken' /\ cache'.header = Target(t)
    <3>1. Addressed(t) /\ cache'.header = local[t].goal
      BY <1>2, <1>4, <2>3 DEF AddressingAnswered
    <3> QED
      BY <1>2, <3>1, AddressedLocals
  <2>4. CASE /\ ~(Cmd(t).op = "header" /\ kind = "refused") /\ ~(Len(local[t].todo) > 1)
             /\ ~(~overtaken' /\ cache'.header = Target(t))
    <3>1. AnotherRound(t)
      BY <1>4, <2>4 DEF AddressingAnswered
    <3>2. PICK l : l = [local[t] EXCEPT !.at = "plan", !.todo = <<>>, !.round = @ + 1]
      OBVIOUS
    <3>3. Becomes(t, l)
      BY <3>1, <3>2 DEF AnotherRound
    <3>4. local[t].round + 1 \in 0..Rounds
      <4>1. local[t].round \in 0..Rounds
        BY <1>2 DEF Local
      <4> QED
        BY <1>2, <4>1, Bounds
    <3>5. l \in Local /\ l.goal = local[t].goal /\ l.at = "plan"
      BY <1>2, <1>3, <3>2, <3>4 DEF Local
    <3>6. Fits(t, l)'
      BY <3>5 DEF Fits
    <3> QED
      BY <3>3, <3>5, <3>6
  <2> QED
    BY <2>1, <2>2, <2>3, <2>4
<1>5. CASE RequestAnswered(t, verdict)
  <2> DEFINE again == verdict # "ok" /\ local[t].try <= Retries
  <2>1. PICK next : next = [local[t] EXCEPT !.todo = <<>>, !.at = IF again THEN "plan" ELSE "idle",
                                             !.try = IF again THEN @ + 1 ELSE @]
    OBVIOUS
  <2>2. \/ verdict = "resync" /\ Becomes(t, [next EXCEPT !.at = "drain", !.next = next.at])
        \/ again /\ Becomes(t, next)
        \/ Leaves(t)
    BY <1>5, <2>1 DEF RequestAnswered
  <2>3. /\ next \in Local /\ next.goal = local[t].goal
        /\ next.at = (IF again THEN "plan" ELSE "idle") /\ next.round = local[t].round
    <3>1. local[t].try \in 0..Retries + 1
      BY <1>2 DEF Local
    <3>2. CASE again
      <4>1. next = [local[t] EXCEPT !.todo = <<>>, !.at = "plan", !.try = local[t].try + 1]
        BY <2>1, <3>2
      <4>2. local[t].try + 1 \in 0..Retries + 1
        BY <3>1, <3>2, Bounds
      <4> QED
        BY <1>2, <1>3, <3>2, <4>1, <4>2 DEF Local
    <3>3. CASE ~again
      <4>1. next = [local[t] EXCEPT !.todo = <<>>, !.at = "idle", !.try = local[t].try]
        BY <2>1, <3>3
      <4> QED
        BY <1>2, <1>3, <3>1, <3>3, <4>1 DEF Local
    <3> HIDE DEF again
    <3> QED
      BY <3>2, <3>3
  <2> HIDE DEF again
  <2>4. CASE verdict = "resync" /\ Becomes(t, [next EXCEPT !.at = "drain", !.next = next.at])
    <3>1. PICK l : l = [next EXCEPT !.at = "drain", !.next = next.at]
      OBVIOUS
    <3>2. Becomes(t, l)
      BY <2>4, <3>1
    <3>3. next.at \in {"plan", "idle"}
      BY <2>3
    <3>4. /\ l \in Local /\ l.goal = local[t].goal /\ l.at = "drain" /\ l.round = local[t].round
          /\ l.next \in {"plan", "idle"}
      BY <2>3, <3>1, <3>3 DEF Local
    <3>5. Fits(t, l)'
      BY <1>2, <3>4 DEF Fits
    <3> QED
      BY <3>2, <3>4, <3>5
  <2>5. CASE again /\ Becomes(t, next)
    <3>1. Fits(t, next)'
      BY <2>3, <2>5 DEF Fits
    <3> QED
      BY <2>3, <2>5, <3>1
  <2> QED
    BY <2>2, <2>4, <2>5
<1> QED
  BY <1>1, <1>4, <1>5

\* A collection's end settles the ledger or lets its debt stand.
LEMMA ConcludeSerial ==
    ASSUME SerialInv, NEW t \in Task, Conclude(t)
    PROVE  SerialInv'
<1>1. /\ Active(t) /\ OtherTypes' /\ AtRest(pipe')
      /\ addressed' = addressed /\ link' = link /\ link # "dead"
  BY ConcludedIs, ConcludedTypes
<1>2. CASE Leaves(t)
  BY <1>1, <1>2, LeavingSerial
<1>3. CASE \E l \in Local : /\ Becomes(t, l) /\ l.goal = local[t].goal
                            /\ l.at \in {"plan", "issue", "drain"} /\ Fits(t, l)'
  <2>1. PICK l \in Local : /\ Becomes(t, l) /\ l.goal = local[t].goal
                           /\ l.at \in {"plan", "issue", "drain"} /\ Fits(t, l)'
    BY <1>3
  <2> QED
    BY <1>1, <2>1, OnwardSerial
<1> QED
  BY <1>2, <1>3, ConcludeLocals

\* A resync starts again from one prompt, the probe's.
LEMMA DrainSerial ==
    ASSUME SerialInv, NEW t \in Task, Drain(t)
    PROVE  SerialInv'
<1>1. /\ local[t].at = "drain" /\ Becomes(t, [local[t] EXCEPT !.at = "probe"])
      /\ wire' = <<>> /\ pipe' = Begin(ClearBacklog(pipe)) /\ cache' = Unknown /\ overtaken' = TRUE
      /\ adapter' = <<Probe>> /\ doubt' = FALSE
      /\ UNCHANGED <<addressed, reinit, link, header, faults>>
  BY DEF Drain
<1>2. Active(t)
  BY <1>1 DEF Active
<1>3. OtherTypes /\ pipe \in Pipe /\ link # "dead"
  BY <1>2, Typed, LedgerOf, OthersIdle
<1>4. local[t] \in Local /\ Fits(t, local[t])
  BY <1>2, LocalsOf
<1>5. PICK l : l = [local[t] EXCEPT !.at = "probe"]
  OBVIOUS
<1>6. /\ l \in Local /\ l.goal = local[t].goal /\ l.at = "probe" /\ l.todo = local[t].todo
      /\ l.round = local[t].round /\ l.next = local[t].next
  BY <1>4, <1>5 DEF Local
<1>7. pipe' \in Pipe /\ pipe'.owed = 1
  BY <1>1, <1>3, ProbedIs
<1>8. Fits(t, l)'
  BY <1>1, <1>4, <1>6, <1>7, UnknownIs DEF Fits
<1>9. OtherTypes'
  <2>1. Probe \in Command
    BY DEF Probe, Command
  <2>2. <<Probe>> \in Seq(Command) /\ <<>> \in Seq(Text)
    BY <2>1
  <2> QED
    BY <1>1, <1>3, <1>7, <2>2, UnknownIs DEF OtherTypes
<1>10. Becomes(t, l)
  BY <1>1, <1>5
<1> QED
  BY <1>1, <1>2, <1>3, <1>6, <1>7, <1>8, <1>9, <1>10, OnwardSerial

\* The probe ends the resync, and the task goes on where it was.
LEMMA ProbeEndsSerial ==
    ASSUME SerialInv, NEW t \in Task, ProbeEnds(t)
    PROVE  SerialInv'
<1>1. /\ local[t].at = "probe" /\ pipe' = Finish(pipe)
      /\ doubt' = (doubt \/ Kind(Block(pipe)) = "banner")
      /\ UNCHANGED <<overtaken, addressed, cache, reinit, header, adapter, wire, faults>>
  BY DEF ProbeEnds, adapterVars
<1>2. Active(t) /\ Asking(t)
  BY <1>1 DEF Active, Asking
<1>3. OtherTypes /\ pipe \in Pipe /\ pipe.owed > 0 /\ link # "dead"
  BY <1>2, Typed, LedgerOf, OthersIdle
<1>4. local[t] \in Local /\ Fits(t, local[t])
  BY <1>2, LocalsOf
<1>5. pipe' \in Pipe /\ AtRest(pipe')
  BY <1>1, <1>3, FinishIs
<1>6. doubt' \in BOOLEAN
  BY <1>1
<1>7. CASE Leaves(t) /\ link' \in {link, "doubted"}
  BY <1>1, <1>2, <1>3, <1>5, <1>6, <1>7, LeavingSerial DEF OtherTypes
<1>8. CASE /\ Becomes(t, [local[t] EXCEPT !.at = local[t].next, !.next = "idle"])
           /\ local[t].next # "idle" /\ link' = link
  <2>1. PICK l : l = [local[t] EXCEPT !.at = local[t].next, !.next = "idle"]
    OBVIOUS
  <2>2. local[t].next \in {"plan", "issue"}
    BY <1>4, <1>8 DEF Local
  <2>3. /\ l \in Local /\ l.goal = local[t].goal /\ l.at = local[t].next
        /\ l.todo = local[t].todo /\ l.round = local[t].round
    BY <1>4, <2>1, <2>2 DEF Local
  <2>4. Fits(t, l)'
    BY <1>1, <1>4, <2>2, <2>3 DEF Fits
  <2>5. Becomes(t, l)
    BY <1>8, <2>1
  <2>6. OtherTypes'
    BY <1>1, <1>3, <1>5, <1>6, <1>8 DEF OtherTypes
  <2> QED
    BY <1>1, <1>2, <1>3, <1>5, <1>8, <2>2, <2>3, <2>4, <2>5, <2>6, OnwardSerial
<1> QED
  BY <1>7, <1>8 DEF ProbeEnds

\* ConnectionError takes a task out of its transaction.
LEMMA LinkDropsSerial ==
    ASSUME SerialInv, NEW t \in Task, LinkDrops(t)
    PROVE  SerialInv'
<1>1. /\ Active(t) /\ Leaves(t) /\ link' = "dead" /\ faults' = faults + 1 /\ faults < MaxFaults
      /\ UNCHANGED <<overtaken, addressed, cache, reinit, pipe, header, adapter, wire, doubt>>
  BY DEF LinkDrops, Active, adapterVars
<1>2. OtherTypes
  BY Typed
<1>3. faults' \in 0..MaxFaults
  BY <1>1, <1>2, Bounds DEF OtherTypes
<1> QED
  BY <1>1, <1>2, <1>3, LeavingSerial DEF OtherTypes

\* The banner is a text.
LEMMA BannerIs == Banner \in Text /\ Banner.kind = "banner" /\ <<Banner>> \in OneText
BY DEF Banner, Text, OneText

\* A reconnect finds nobody in a transaction and starts afresh.
LEMMA ConnectSerial ==
    ASSUME SerialInv, Connect
    PROVE  SerialInv'
<1>1. /\ owner = Nobody /\ \A t \in Task : local[t].at = "idle"
      /\ link' = "up" /\ pipe' = FreshPipe /\ cache' = Unknown /\ addressed' = Nobody
      /\ overtaken' = TRUE /\ adapter' = <<>> /\ header' \in {header, Nobody} /\ doubt' = FALSE
      /\ wire' \in {<<>>, <<Banner>>}
      /\ faults' = faults \/ (faults < MaxFaults /\ faults' = faults + 1)
      /\ UNCHANGED <<owner, local, reinit>>
  BY DEF Connect
<1>2. OtherTypes /\ local \in [Task -> Local]
  BY Typed DEF SerialInv, TypeOK
<1>3. faults' \in 0..MaxFaults
  BY <1>1, <1>2, Bounds DEF OtherTypes
<1>4. wire' \in Seq(Text) /\ adapter' \in Seq(Command)
  <2>1. <<>> \in Seq(Text) /\ <<>> \in Seq(Command) /\ <<Banner>> \in Seq(Text)
    BY BannerIs
  <2> QED
    BY <1>1, <2>1
<1>5. OtherTypes'
  BY <1>1, <1>2, <1>3, <1>4, FreshIs, UnknownIs DEF OtherTypes
<1>6. TypeOK'
  BY <1>1, <1>2, <1>5, Retyped
<1>7. \A t \in Task : TaskOK(t)'
  <2> SUFFICES ASSUME NEW t \in Task PROVE TaskOK(t)'
    OBVIOUS
  <2>1. local'[t].at = "idle" /\ local'[t].round < Rounds /\ owner' # t
    BY <1>1, AllIdle, Bounds
  <2> QED
    BY <2>1 DEF TaskOK, Active, Fits
<1>8. LedgerOK'
  BY <1>1, FreshIs DEF LedgerOK, Asking
<1> QED
  BY <1>6, <1>7, <1>8 DEF SerialInv

\* What the adapter prints is a text, and no banner.
LEMMA PrintsIs ==
    ASSUME NEW c \in Command, header \in Ecu \cup {Nobody}, NEW x \in Prints(c)
    PROVE  /\ x \in Text /\ x.kind # "banner" /\ x # Banner
           /\ c.op = "header" /\ c.ecu \in Refused => x.kind = "refused"
           /\ c.op = "request" /\ x.kind = "reply" => header = Nobody \/ x.ecu = header
<1> DEFINE said(kind, e) == [kind |-> kind, ecu |-> e, to |-> c.by]
<1>0. c.by \in Task \cup {Nobody} /\ c.ecu \in Ecu \cup {Nobody} /\ c.op \in {"header", "fc", "request", "probe"}
  BY DEF Command
<1>1. ASSUME NEW kind \in {"ok", "refused", "reply", "nodata"}, NEW e \in Ecu \cup {Nobody}
      PROVE  said(kind, e) \in Text /\ said(kind, e).kind = kind /\ said(kind, e).ecu = e
  BY <1>0 DEF Text
<1>2. CASE c.op = "request"
  <2>1. \/ \E e \in (IF header = Nobody THEN Ecu ELSE {header}) : x = said("reply", e)
        \/ x = said("nodata", Nobody)
    BY <1>2 DEF Prints
  <2> HIDE DEF said
  <2>2. x \in Text /\ x.kind \in {"reply", "nodata"}
        /\ (x.kind = "reply" => header = Nobody \/ x.ecu = header)
    BY <1>1, <2>1
  <2> QED
    BY <1>2, <2>2, BannerIs
<1>3. CASE c.op = "header" /\ c.ecu \in Refused
  <2>1. x = said("refused", Nobody)
    BY <1>3 DEF Prints
  <2> HIDE DEF said
  <2> QED
    BY <1>1, <1>3, <2>1, BannerIs
<1>4. CASE c.op # "request" /\ ~(c.op = "header" /\ c.ecu \in Refused)
  <2>1. x = said("ok", Nobody)
    BY <1>4 DEF Prints
  <2> HIDE DEF said
  <2> QED
    BY <1>1, <1>4, <2>1, BannerIs
<1> QED
  BY <1>2, <1>3, <1>4

\* What the adapter does is no task's turn.
LEMMA AdapterSerial ==
    ASSUME SerialInv, Answers \/ Loses \/ ResetsItself
    PROVE  SerialInv'
<1>1. OtherTypes
  BY Typed
<1>2. CASE ResetsItself
  <2>1. /\ header' = Nobody /\ adapter' = <<>> /\ wire' = Append(wire, Banner)
        /\ faults < MaxFaults /\ faults' = faults + 1
        /\ UNCHANGED <<owner, local, overtaken, addressed, cache, reinit, link, pipe, doubt>>
    BY <1>2 DEF ResetsItself, taskVars, sharedVars
  <2>2. wire' \in Seq(Text) /\ adapter' \in Seq(Command) /\ faults' \in 0..MaxFaults
    BY <1>1, <2>1, BannerIs, Bounds DEF OtherTypes
  <2>3. OtherTypes'
    BY <1>1, <2>1, <2>2 DEF OtherTypes
  <2> QED
    BY <2>1, <2>3, StandsSerial
<1>3. CASE Answers \/ Loses
  <2>1. /\ adapter # <<>> /\ adapter' = Tail(adapter)
        /\ header' \in {header, HeaderAfter(Head(adapter))}
        /\ UNCHANGED <<owner, local, overtaken, addressed, cache, reinit, link, pipe, doubt>>
    BY <1>3 DEF Answers, Loses, taskVars, sharedVars
  <2>2. Head(adapter) \in Command /\ adapter' \in Seq(Command)
    BY <1>1, <2>1, HeadTailProperties DEF OtherTypes
  <2>3. header' \in Ecu \cup {Nobody}
    BY <1>1, <2>1, <2>2 DEF OtherTypes, HeaderAfter, SetsHeader, Command
  <2>4. wire' \in Seq(Text) /\ faults' \in 0..MaxFaults
    <3>1. CASE Answers
      <4>1. PICK x \in Prints(Head(adapter)) : wire' = Append(wire, x)
        BY <3>1 DEF Answers
      <4>2. x \in Text /\ faults' = faults
        BY <1>1, <2>2, <3>1, PrintsIs DEF OtherTypes, Answers
      <4> QED
        BY <1>1, <4>1, <4>2 DEF OtherTypes
    <3>2. CASE Loses
      BY <1>1, <3>2, Bounds DEF Loses, OtherTypes
    <3> QED
      BY <1>3, <3>1, <3>2
  <2>5. OtherTypes'
    BY <1>1, <2>1, <2>2, <2>3, <2>4 DEF OtherTypes
  <2> QED
    BY <2>1, <2>5, StandsSerial
<1> QED
  BY <1>2, <1>3

\* The terminal starts with nobody in a transaction.
LEMMA SerialInit == Init => SerialInv
<1> SUFFICES ASSUME Init PROVE SerialInv
  OBVIOUS
<1>1. OtherTypes
  <2>1. <<>> \in Seq(Text) /\ <<>> \in Seq(Command) /\ 0 \in 0..MaxFaults
    BY Bounds
  <2> QED
    BY <2>1, FreshIs, UnknownIs DEF Init, OtherTypes
<1>2. local \in [Task -> Local] /\ \A t \in Task : local[t] = Idle
  BY IdleFits DEF Init
<1>3. TypeOK
  <2>1. pipe.owed \in 0..MaxOwed /\ pipe.dirty \in BOOLEAN
    BY <1>1, PipeFields DEF OtherTypes
  <2> QED
    BY <1>1, <1>2, <2>1 DEF TypeOK, OtherTypes, Cache, Init
<1>4. \A t \in Task : TaskOK(t)
  <2> SUFFICES ASSUME NEW t \in Task PROVE TaskOK(t)
    OBVIOUS
  <2>1. Fits(t, local[t])
    BY <1>2, IdleFits
  <2> QED
    BY <1>2, <2>1, Bounds DEF TaskOK, Active, Idle, Init
<1>5. LedgerOK
  BY FreshIs, <1>2 DEF Init, LedgerOK, Asking, Idle
<1> QED
  BY <1>3, <1>4, <1>5 DEF SerialInv

\* One task at a time is in its transaction, and the ledger stays under its ceiling.
LEMMA SerialStep == SerialInv /\ [Next]_vars => SerialInv'
<1> SUFFICES ASSUME SerialInv, [Next]_vars PROVE SerialInv'
  OBVIOUS
<1>1. ASSUME NEW t \in Task, Enter(t) \/ TaskStep(t) \/ LinkDrops(t) PROVE SerialInv'
  BY <1>1, EnterSerial, SetHeaderSerial, IssueSerial, ReceiveSerial, ConcludeSerial, DrainSerial,
     ProbeEndsSerial, LinkDropsSerial DEF TaskStep
<1>2. CASE UNCHANGED vars
  <2>1. UNCHANGED <<owner, local, overtaken, addressed, cache, reinit, link, pipe,
                    header, adapter, wire, faults, doubt>>
    BY <1>2 DEF vars, taskVars, sharedVars, adapterVars
  <2>2. OtherTypes'
    BY <2>1, Typed DEF OtherTypes
  <2> QED
    BY <2>1, <2>2, StandsSerial
<1> QED
  BY <1>1, <1>2, ConnectSerial, AdapterSerial DEF Next

-----------------------------------------------------------------------------
(* What is on its way *)

\* The blocks that are completed or on their way, and the replies still to come.
Arrived == Grown(pipe.done, wire, Len(wire))
Replies == Len(Arrived) + Len(adapter)

\* There is no banner before the i-th reply, nor is it one.
NoBanner(i) == \A k \in DOMAIN Arrived : k <= i => Arrived[k] # <<Banner>>

Header(t) == local[t].at = "collect" /\ Cmd(t).op = "header"

\* x is what the adapter says to the command of t.
Tells(t, x) ==
    /\ Cmd(t).op = "header" /\ Cmd(t).ecu \in Refused => x.kind = "refused"
    /\ Cmd(t).op = "request" /\ x.kind = "reply" => cache.header \in {Nobody, x.ecu}

\* The i-th reply is that to the command of t.
Own(t, i) ==
    IF i \in DOMAIN Arrived THEN Tells(t, Arrived[i][1])
    ELSE adapter[i - Len(Arrived)] = Cmd(t)

Calm == ~doubt /\ ~reinit /\ link # "dead" /\ \A t \in Task : local[t].at # "drain"

\* The replies before a banner are counted, and the last that is owed is the own one.
Counted ==
    \A i \in 1..Replies : NoBanner(i) =>
        /\ i <= pipe.owed
        /\ i = pipe.owed => \A t \in Task : local[t].at = "collect" => Own(t, i)

\* The header is the command's as soon as its reply is there, and else the cache's.
HeaderKnown ==
    /\ \A t \in Task : Header(t) /\ Cmd(t).ecu \notin Refused /\ Len(Arrived) = pipe.owed =>
          header = Cmd(t).ecu
    /\ (\A t \in Task : ~Header(t)) /\ cache.header # Nobody =>
          /\ header = cache.header
          /\ \A i \in DOMAIN adapter : ~SetsHeader(adapter[i])

\* The probe is answered by one reply, and only banners follow the first.
Probed ==
    (\E t \in Task : local[t].at = "probe") =>
        /\ adapter # <<>> => Arrived = <<>> /\ Len(adapter) = 1
        /\ \A i \in DOMAIN Arrived : i > 1 => Arrived[i] = <<Banner>>

FlightInv ==
    /\ Calm => Counted /\ (NoBanner(Len(Arrived)) => HeaderKnown)
    /\ Probed

TerminalInv == SerialInv /\ FlightInv

\* What has arrived is a sequence of blocks: those completed, then those on the wire.
LEMMA ArrivedIs ==
    SerialInv =>
      /\ Arrived \in Seq(OneText) /\ Len(Arrived) = Len(pipe.done) + Len(wire)
      /\ \A i \in 1..Len(pipe.done) : Arrived[i] = pipe.done[i]
      /\ \A i \in 1..Len(wire) : Arrived[Len(pipe.done) + i] = <<wire[i]>>
      /\ Len(pipe.done) \in Nat /\ Len(wire) \in Nat /\ Len(Arrived) \in Nat
      /\ DOMAIN Arrived = 1..Len(Arrived) /\ (Arrived = <<>> <=> Len(Arrived) = 0)
<1> SUFFICES ASSUME SerialInv
    PROVE
      /\ Arrived \in Seq(OneText) /\ Len(Arrived) = Len(pipe.done) + Len(wire)
      /\ \A i \in 1..Len(pipe.done) : Arrived[i] = pipe.done[i]
      /\ \A i \in 1..Len(wire) : Arrived[Len(pipe.done) + i] = <<wire[i]>>
      /\ Len(pipe.done) \in Nat /\ Len(wire) \in Nat /\ Len(Arrived) \in Nat
      /\ DOMAIN Arrived = 1..Len(Arrived) /\ (Arrived = <<>> <=> Len(Arrived) = 0)
  OBVIOUS
<1>1. pipe.done \in Seq(OneText) /\ wire \in Seq(Text) /\ Len(pipe.done) \in Nat
  BY Typed, PipeFields DEF OtherTypes
<1>2. Len(wire) \in Nat /\ Len(wire) \in 0..Len(wire)
  BY <1>1
<1>3. /\ Arrived \in Seq(OneText) /\ Len(Arrived) = Len(pipe.done) + Len(wire)
      /\ \A i \in 1..Len(pipe.done) : Arrived[i] = pipe.done[i]
      /\ \A i \in 1..Len(wire) : Arrived[Len(pipe.done) + i] = <<wire[i]>>
  BY <1>1, <1>2, GrownIs DEF Arrived
<1>4. Len(Arrived) \in Nat /\ DOMAIN Arrived = 1..Len(Arrived) /\ (Arrived = <<>> <=> Len(Arrived) = 0)
  BY <1>3
<1> QED
  BY <1>1, <1>2, <1>3, <1>4

\* The same, named, so that it can be said of the next state.
ArrivedFacts ==
    /\ Arrived \in Seq(OneText) /\ Len(Arrived) = Len(pipe.done) + Len(wire)
    /\ \A i \in 1..Len(pipe.done) : Arrived[i] = pipe.done[i]
    /\ \A i \in 1..Len(wire) : Arrived[Len(pipe.done) + i] = <<wire[i]>>
    /\ Len(pipe.done) \in Nat /\ Len(wire) \in Nat /\ Len(Arrived) \in Nat
    /\ DOMAIN Arrived = 1..Len(Arrived) /\ (Arrived = <<>> <=> Len(Arrived) = 0)

\* What the adapter has still to answer is a sequence of commands.
LEMMA AdapterIs ==
    SerialInv =>
      /\ adapter \in Seq(Command) /\ Len(adapter) \in Nat /\ pipe.owed \in Nat
      /\ DOMAIN adapter = 1..Len(adapter) /\ (adapter = <<>> <=> Len(adapter) = 0)
      /\ Replies \in Nat /\ Replies = Len(Arrived) + Len(adapter)
<1>1. SerialInv => adapter \in Seq(Command) /\ pipe.owed \in Nat
  BY Typed, PipeFields DEF OtherTypes
<1>2. SerialInv => Len(Arrived) \in Nat
  BY ArrivedIs
<1> QED
  BY <1>1, <1>2 DEF Replies

AdapterFacts ==
    /\ adapter \in Seq(Command) /\ Len(adapter) \in Nat /\ pipe.owed \in Nat
    /\ DOMAIN adapter = 1..Len(adapter) /\ (adapter = <<>> <=> Len(adapter) = 0)
    /\ Replies \in Nat /\ Replies = Len(Arrived) + Len(adapter)

\* The same after a step.
LEMMA ArrivedNext ==
    SerialInv' =>
      /\ Arrived' \in Seq(OneText) /\ Len(Arrived') = Len(pipe'.done) + Len(wire')
      /\ \A i \in 1..Len(pipe'.done) : Arrived'[i] = pipe'.done[i]
      /\ \A i \in 1..Len(wire') : Arrived'[Len(pipe'.done) + i] = <<wire'[i]>>
      /\ Len(pipe'.done) \in Nat /\ Len(wire') \in Nat /\ Len(Arrived') \in Nat
      /\ DOMAIN Arrived' = 1..Len(Arrived') /\ (Arrived' = <<>> <=> Len(Arrived') = 0)
<1>1. SerialInv => ArrivedFacts
  BY ArrivedIs DEF ArrivedFacts
<1>2. SerialInv' => ArrivedFacts'
  BY <1>1, PTL
<1> QED
  BY <1>2 DEF ArrivedFacts

\* The same after a step.
LEMMA AdapterNext ==
    SerialInv' =>
      /\ adapter' \in Seq(Command) /\ Len(adapter') \in Nat /\ pipe'.owed \in Nat
      /\ DOMAIN adapter' = 1..Len(adapter') /\ (adapter' = <<>> <=> Len(adapter') = 0)
      /\ Replies' \in Nat /\ Replies' = Len(Arrived') + Len(adapter')
<1>1. SerialInv => AdapterFacts
  BY AdapterIs DEF AdapterFacts
<1>2. SerialInv' => AdapterFacts'
  BY <1>1, PTL
<1> QED
  BY <1>2 DEF AdapterFacts

\* The texts arrived are the same when what is completed and on the wire is.
LEMMA ArrivedStays ==
    ASSUME pipe'.done = pipe.done, wire' = wire
    PROVE  Arrived' = Arrived
BY DEF Arrived, Grown

\* Receiving moves texts from the wire to the ledger, and changes nothing else.
LEMMA ArrivedReceived ==
    ASSUME SerialInv, SerialInv', NEW t \in Task, Receive(t)
    PROVE  Arrived' = Arrived
<1>1. PICK n \in 1..Len(wire) : Received(n)
  BY ReceivedIs
<1> DEFINE d == Len(pipe.done)
           w == Len(wire)
           s == SubSeq(wire, 1, n)
<1>2. pipe.done \in Seq(OneText) /\ pipe \in Pipe
  BY Typed, PipeFields DEF OtherTypes
<1>3. /\ s \in Seq(Text) /\ Len(s) = n /\ \A i \in 1..n : s[i] = wire[i]
      /\ n \in Nat /\ w \in Nat /\ n <= w /\ n >= 1 /\ d \in Nat
      /\ Len(wire') = w - n /\ \A i \in 1..(w - n) : wire'[i] = wire[n + i]
  <2>1. /\ s \in Seq(Text) /\ Len(s) = n /\ \A i \in 1..n : s[i] = wire[i]
        /\ Len(wire') = w - n /\ \A i \in 1..(w - n) : wire'[i] = wire[n + i]
        /\ n \in Nat /\ w \in Nat /\ n <= w
    BY <1>1 DEF Received
  <2>2. d \in Nat
    BY ArrivedIs
  <2>3. n >= 1
    BY <2>1
  <2> QED
    BY <2>1, <2>2, <2>3
<1> HIDE DEF s
<1>4. pipe'.done = Grown(pipe.done, s, n)
  BY <1>1, <1>2 DEF Received, Pipe, s
<1>5. /\ Len(pipe'.done) = d + n
      /\ \A i \in 1..d : pipe'.done[i] = pipe.done[i]
      /\ \A i \in 1..n : pipe'.done[d + i] = <<wire[i]>>
  <2>1. n \in 0..Len(s)
    BY <1>3
  <2>2. /\ Len(Grown(pipe.done, s, n)) = d + n
        /\ \A i \in 1..d : Grown(pipe.done, s, n)[i] = pipe.done[i]
        /\ \A i \in 1..n : Grown(pipe.done, s, n)[d + i] = <<s[i]>>
    BY <1>2, <1>3, <2>1, GrownIs
  <2> QED
    BY <1>3, <1>4, <2>2
<1>6. /\ Arrived \in Seq(OneText) /\ Len(Arrived) = d + w
      /\ \A i \in 1..d : Arrived[i] = pipe.done[i]
      /\ \A i \in 1..w : Arrived[d + i] = <<wire[i]>>
  BY ArrivedIs
<1>7. /\ Arrived' \in Seq(OneText) /\ Len(Arrived') = Len(pipe'.done) + Len(wire')
      /\ \A i \in 1..Len(pipe'.done) : Arrived'[i] = pipe'.done[i]
      /\ \A i \in 1..Len(wire') : Arrived'[Len(pipe'.done) + i] = <<wire'[i]>>
  BY ArrivedNext
<1>0. d \in Nat /\ w \in Nat /\ n \in Nat /\ n <= w /\ n >= 1
  BY <1>3
<1> HIDE DEF d, w
<1>8. /\ Len(Arrived') = d + w
      /\ \A i \in 1..(d + n) : Arrived'[i] = pipe'.done[i]
      /\ \A i \in 1..(w - n) : Arrived'[(d + n) + i] = <<wire'[i]>>
  <2>1. Len(pipe'.done) = d + n /\ Len(wire') = w - n
    BY <1>3, <1>5
  <2>2. (d + n) + (w - n) = d + w
    BY <1>0
  <2>3. /\ Len(Arrived') = (d + n) + (w - n)
        /\ \A i \in 1..(d + n) : Arrived'[i] = pipe'.done[i]
        /\ \A i \in 1..(w - n) : Arrived'[(d + n) + i] = <<wire'[i]>>
    BY <1>7, <2>1
  <2> QED
    BY <2>2, <2>3
<1>9. ASSUME NEW i \in 1..Len(Arrived') PROVE Arrived'[i] = Arrived[i]
  <2>1. i \in 1..(d + w)
    BY <1>8
  <2>2. CASE i \in 1..d
    BY <1>3, <1>5, <1>6, <1>8, <2>2
  <2>3. CASE i \in (d + 1)..(d + n)
    <3>1. PICK k \in 1..n : i = d + k
      <4>1. i - d \in 1..n /\ i = d + (i - d)
        BY <1>0, <2>3
      <4> QED
        BY <4>1
    <3>2. k \in 1..w /\ d + k \in 1..(d + n)
      BY <1>0, <3>1
    <3>3. pipe'.done[d + k] = <<wire[k]>>
      BY <1>5, <3>1
    <3>4. Arrived'[d + k] = pipe'.done[d + k] /\ Arrived[d + k] = <<wire[k]>>
      BY <1>6, <1>8, <3>2
    <3> QED
      BY <3>1, <3>3, <3>4
  <2>4. CASE i \in (d + n + 1)..(d + w)
    <3>1. PICK k \in 1..(w - n) : i = (d + n) + k
      <4>1. i - (d + n) \in 1..(w - n) /\ i = (d + n) + (i - (d + n))
        BY <1>0, <2>4
      <4> QED
        BY <4>1
    <3>2. n + k \in 1..w /\ i = d + (n + k)
      BY <1>0, <3>1
    <3>3. Arrived'[i] = <<wire'[k]>> /\ wire'[k] = wire[n + k]
      BY <1>3, <1>8, <3>1
    <3>4. Arrived[d + (n + k)] = <<wire[n + k]>>
      BY <1>6, <3>2
    <3> QED
      BY <3>2, <3>3, <3>4
  <2> QED
    BY <1>0, <2>1, <2>2, <2>3, <2>4
<1> QED
  BY <1>6, <1>7, <1>8, <1>9, SameSequence

\* Nothing that the flight depends on has changed.
LEMMA FlightStands ==
    ASSUME FlightInv, Arrived' = Arrived, pipe'.owed = pipe.owed,
           UNCHANGED <<local, cache, reinit, link, header, adapter, doubt>>
    PROVE  FlightInv'
<1>1. Replies' = Replies
  BY DEF Replies
<1>2. \A i : NoBanner(i)' = NoBanner(i)
  BY DEF NoBanner
<1>3. \A t \in Task : Cmd(t)' = Cmd(t)
  BY DEF Cmd
<1>4. \A t \in Task : \A i : Own(t, i)' = Own(t, i)
  BY <1>3 DEF Own, Tells
<1>5. \A t \in Task : Header(t)' = Header(t)
  BY <1>3 DEF Header
<1>6. Calm' = Calm
  BY DEF Calm
<1>7. Counted => Counted'
  BY <1>1, <1>2, <1>4 DEF Counted
<1>8. HeaderKnown => HeaderKnown'
  BY <1>3, <1>5 DEF HeaderKnown
<1>9. Probed => Probed'
  BY DEF Probed
<1>10. NoBanner(Len(Arrived))' = NoBanner(Len(Arrived))
  BY DEF NoBanner
<1> QED
  BY <1>6, <1>7, <1>8, <1>9, <1>10 DEF FlightInv

\* Nobody asks any more.
Quiet == \A u \in Task : local[u].at \notin {"collect", "probe"}

\* The flight stays, nobody asks, and the cache knows no other header.
LEMMA FlightQuiet ==
    ASSUME FlightInv, Calm' => Calm, Arrived' = Arrived, pipe'.owed = pipe.owed,
           UNCHANGED <<header, adapter>>, Quiet',
           cache'.header # Nobody => cache'.header = cache.header /\ \A u \in Task : ~Header(u)
    PROVE  FlightInv'
<1>1. Replies' = Replies
  BY DEF Replies
<1>2. \A i : NoBanner(i)' = NoBanner(i)
  BY DEF NoBanner
<1>3. \A t \in Task : ~Header(t)' /\ local'[t].at # "collect"
  BY DEF Header, Quiet
<1>4. Counted => Counted'
  BY <1>1, <1>2, <1>3 DEF Counted
<1>5. HeaderKnown => HeaderKnown'
  BY <1>3 DEF HeaderKnown
<1>6. Probed'
  BY DEF Probed, Quiet
<1>7. NoBanner(Len(Arrived))' = NoBanner(Len(Arrived))
  BY DEF NoBanner
<1> QED
  BY <1>4, <1>5, <1>6, <1>7 DEF FlightInv

\* After a loss of track nothing is said of what is on its way.
LEMMA FlightLost ==
    ASSUME ~Calm', Quiet'
    PROVE  FlightInv'
BY DEF FlightInv, Probed, Quiet

\* Every reply still to come is behind a banner.
LEMMA FlightBehind ==
    ASSUME Quiet', \A i \in 1..Replies' : ~NoBanner(i)',
           Replies' \in Nat, Len(Arrived') \in Nat, Replies' = Len(Arrived') + Len(adapter'),
           Len(adapter') \in Nat, DOMAIN adapter' = 1..Len(adapter'),
           Replies' = 0 => cache'.header = Nobody \/ header' = cache'.header
    PROVE  FlightInv'
<1>1. Counted'
  BY DEF Counted
<1>2. NoBanner(Len(Arrived))' => HeaderKnown'
  <2> SUFFICES ASSUME NoBanner(Len(Arrived))' PROVE HeaderKnown'
    OBVIOUS
  <2>1. Len(Arrived') = 0
    <3>1. CASE Len(Arrived') > 0
      <4>1. Len(Arrived') \in 1..Replies'
        BY <3>1
      <4>2. ~NoBanner(Len(Arrived))'
        BY <4>1 DEF NoBanner
      <4> QED
        BY <4>2
    <3> QED
      BY <3>1
  <2>2. Len(adapter') = 0
    <3>1. CASE Len(adapter') > 0
      <4>1. 1 \in 1..Replies'
        BY <3>1
      <4>2. NoBanner(1)'
        BY <2>1 DEF NoBanner
      <4> QED
        BY <4>1, <4>2
    <3> QED
      BY <3>1
  <2>3. Replies' = 0 /\ DOMAIN adapter' = {}
    BY <2>1, <2>2
  <2>4. \A t \in Task : ~Header(t)'
    BY DEF Header, Quiet
  <2> QED
    BY <2>3, <2>4 DEF HeaderKnown
<1>3. Probed'
  BY DEF Probed, Quiet
<1> QED
  BY <1>1, <1>2, <1>3 DEF FlightInv

\* Where a task is after a step of its own.
LEMMA QuietAfter ==
    ASSUME SerialInv, NEW t \in Task, Active(t),
           \/ Leaves(t)
           \/ \E l : Becomes(t, l) /\ l.at \notin {"collect", "probe"}
    PROVE  Quiet'
<1>1. local \in [Task -> Local] /\ \A u \in Task \ {t} : local[u].at = "idle"
  BY OthersIdle DEF SerialInv, TypeOK
<1>2. PICK l : local' = [local EXCEPT ![t] = l] /\ l.at \notin {"collect", "probe"}
  <2>1. Idle.at = "idle"
    BY DEF Idle
  <2> QED
    BY <2>1 DEF Leaves, Becomes
<1>3. local'[t] = l /\ \A u \in Task \ {t} : local'[u] = local[u]
  BY <1>1, <1>2
<1> QED
  BY <1>1, <1>2, <1>3 DEF Quiet

\* Nobody drains while a task is at another step of its transaction.
LEMMA NobodyDrains ==
    ASSUME SerialInv, NEW t \in Task, local[t].at \notin {"idle", "drain"}
    PROVE  (\A u \in Task : local[u].at # "drain") /\ link # "dead"
<1>1. Active(t)
  BY DEF Active
<1> QED
  BY <1>1, OthersIdle

\* Entering a transaction sends nothing.
LEMMA EnterFlight ==
    ASSUME SerialInv, FlightInv, NEW t \in Task, Enter(t)
    PROVE  FlightInv'
<1>1. PICK e \in Ecu :
        local' = [local EXCEPT ![t] = [Idle EXCEPT !.at = "plan", !.goal = e]]
  BY DEF Enter
<1>2. /\ owner = Nobody /\ cache' \in {cache, Unknown} /\ link' = link /\ pipe' = pipe
      /\ UNCHANGED <<reinit, header, adapter, wire, doubt>>
  BY DEF Enter, adapterVars
<1>3. \A u \in Task : local[u].at = "idle"
  BY <1>2, AllIdle
<1>4. PICK l : l = [Idle EXCEPT !.at = "plan", !.goal = e]
  OBVIOUS
<1>5. l.at = "plan"
  BY <1>4 DEF Idle
<1>6. local'[t] = l /\ \A u \in Task \ {t} : local'[u] = local[u]
  BY <1>1, <1>4 DEF SerialInv, TypeOK
<1>7. Quiet'
  BY <1>3, <1>5, <1>6 DEF Quiet
<1>8. Calm' => Calm
  BY <1>2, <1>3 DEF Calm
<1>9. \A u \in Task : ~Header(u)
  BY <1>3 DEF Header
<1>10. Arrived' = Arrived
  BY <1>2, ArrivedStays
<1>11. cache'.header # Nobody => cache'.header = cache.header
  BY <1>2, UnknownIs
<1> QED
  BY <1>2, <1>7, <1>8, <1>9, <1>10, <1>11, FlightQuiet

\* Planning sends nothing.
LEMMA SetHeaderFlight ==
    ASSUME SerialInv, FlightInv, NEW t \in Task, SetHeader(t)
    PROVE  FlightInv'
<1>1. /\ local[t].at = "plan" /\ UNCHANGED <<cache, reinit, pipe, doubt, header, adapter, wire>>
  BY DEF SetHeader, adapterVars
<1>2. Active(t) /\ \A u \in Task : local[u].at \in {"idle", "plan"}
  BY <1>1, OthersIdle DEF Active
<1>3. link # "dead"
  BY <1>2, OthersIdle
<1>4. Quiet'
  <2>1. CASE Leaves(t)
    BY <1>2, <2>1, QuietAfter
  <2>2. CASE Addressed(t)
    <3>1. PICK l : l = [local[t] EXCEPT
              !.round = 0, !.try = IF @ = 0 THEN 1 ELSE @,
              !.at = IF local[t].try = 0 THEN "plan" ELSE "issue",
              !.todo = IF local[t].try = 0 THEN <<>>
                       ELSE <<[op |-> "request", ecu |-> Nobody, by |-> t]>>]
      OBVIOUS
    <3>2. local[t] \in Local
      BY <1>2, LocalsOf
    <3>3. l.at = IF local[t].try = 0 THEN "plan" ELSE "issue"
      BY <3>1, <3>2 DEF Local
    <3>4. Becomes(t, l) /\ l.at \notin {"collect", "probe"}
      BY <2>2, <3>1, <3>3 DEF Addressed
    <3> QED
      BY <1>2, <3>4, QuietAfter
  <2>3. CASE Becomes(t, [local[t] EXCEPT !.at = "issue", !.todo = Plan(Target(t))])
    <3>1. PICK l : l = [local[t] EXCEPT !.at = "issue", !.todo = Plan(Target(t))]
      OBVIOUS
    <3>2. local[t] \in Local
      BY <1>2, LocalsOf
    <3>3. Becomes(t, l) /\ l.at = "issue"
      BY <2>3, <3>1, <3>2 DEF Local
    <3> QED
      BY <1>2, <3>3, QuietAfter
  <2> QED
    BY <2>1, <2>2, <2>3 DEF SetHeader
<1>5. Calm' => Calm
  BY <1>1, <1>2, <1>3 DEF Calm
<1>6. \A u \in Task : ~Header(u)
  BY <1>2 DEF Header
<1>7. Arrived' = Arrived
  BY <1>1, ArrivedStays
<1> QED
  BY <1>1, <1>4, <1>5, <1>6, <1>7, FlightQuiet

\* On a dead link nothing is claimed of what is on its way.
LEMMA LinkDropsFlight ==
    ASSUME SerialInv, FlightInv, NEW t \in Task, LinkDrops(t)
    PROVE  FlightInv'
<1>1. Active(t) /\ Leaves(t) /\ link' = "dead"
  BY DEF LinkDrops, Active
<1>2. Quiet'
  BY <1>1, QuietAfter
<1>3. ~Calm'
  BY <1>1 DEF Calm
<1> QED
  BY <1>2, <1>3, FlightLost

\* What is received stays what it was, and in its place.
LEMMA ReceiveFlight ==
    ASSUME SerialInv, SerialInv', FlightInv, NEW t \in Task, Receive(t)
    PROVE  FlightInv'
<1>1. Arrived' = Arrived
  BY ArrivedReceived
<1>2. pipe'.owed = pipe.owed
  <2>1. PICK n \in 1..Len(wire) : Received(n)
    BY ReceivedIs
  <2>2. pipe \in Pipe /\ pipe' = [pipe EXCEPT !.done = Grown(pipe.done, SubSeq(wire, 1, n), n)]
    BY <2>1, Typed DEF OtherTypes, Received
  <2> QED
    BY <2>2 DEF Pipe
<1>3. UNCHANGED <<local, cache, reinit, link, header, adapter, doubt>>
  BY DEF Receive, taskVars
<1> QED
  BY <1>1, <1>2, <1>3, FlightStands

\* The command sent is the last to be answered, if it gets through, and is counted.
LEMMA IssueFlight ==
    ASSUME SerialInv, SerialInv', FlightInv, NEW t \in Task, Issue(t)
    PROVE  FlightInv'
<1>1. /\ local[t].at = "issue"
      /\ UNCHANGED <<cache, link, header, wire, doubt>>
  BY DEF Issue
<1>2. /\ Active(t) /\ ~Asking(t) /\ local[t] \in Local
      /\ \A u \in Task \ {t} : local[u].at = "idle"
  BY <1>1, OthersIdle, LocalsOf DEF Active, Asking
<1>3. \A u \in Task : local[u].at \in {"idle", "issue"}
  BY <1>1, <1>2
<1>4. AtRest(pipe) /\ pipe \in Pipe /\ pipe.done = <<>>
  BY <1>2, LedgerOf DEF AtRest
<1>5. CASE NeedsResync(pipe) \/ reinit
  <2>1. PICK l : l = [local[t] EXCEPT !.at = "drain", !.next = "issue"]
    OBVIOUS
  <2>2. Becomes(t, l) /\ l.at = "drain"
    BY <1>2, <1>5, <2>1 DEF Issue, Local
  <2>3. Quiet'
    BY <1>2, <2>2, QuietAfter
  <2>4. local'[t] = l
    BY <2>2 DEF Becomes, SerialInv, TypeOK
  <2>5. ~Calm'
    BY <2>2, <2>4 DEF Calm
  <2> QED
    BY <2>3, <2>5, FlightLost
<1>6. CASE ~(NeedsResync(pipe) \/ reinit)
  <2>1. /\ Becomes(t, [local[t] EXCEPT !.at = "collect"]) /\ pipe' = Begin(pipe)
        /\ \/ adapter' = Append(adapter, Cmd(t))
           \/ adapter' = adapter
        /\ reinit' = reinit
    BY <1>6 DEF Issue
  <2>2. PICK l : l = [local[t] EXCEPT !.at = "collect"]
    OBVIOUS
  <2>3. l.at = "collect" /\ l.todo = local[t].todo
    BY <1>2, <2>2 DEF Local
  <2>4. local'[t] = l /\ \A u \in Task \ {t} : local'[u] = local[u]
    BY <2>1, <2>2 DEF Becomes, SerialInv, TypeOK
  <2>5. pipe'.owed = pipe.owed + 1 /\ pipe'.done = <<>>
    BY <1>4, <2>1 DEF Begin, Pipe
  <2>6. Arrived' = Arrived
    BY <1>1, <1>4, <2>5, ArrivedStays
  <2>7. Cmd(t)' = Cmd(t) /\ \A u \in Task \ {t} : local'[u].at = "idle"
    BY <1>2, <2>3, <2>4 DEF Cmd
  <2>8. Calm' => Calm
    BY <1>1, <1>3, <2>1 DEF Calm
  <2>9. \A i : NoBanner(i)' = NoBanner(i)
    BY <2>6 DEF NoBanner
  <2> DEFINE n == Len(Arrived)
             a == Len(adapter)
  <2>10. n \in Nat /\ a \in Nat /\ pipe.owed \in Nat /\ DOMAIN Arrived = 1..n
         /\ adapter \in Seq(Command) /\ DOMAIN adapter = 1..a /\ Replies = n + a
    BY ArrivedIs, AdapterIs
  <2>11. Cmd(t) \in Command
    BY <1>1, CommandIs
  <2>12. \/ /\ adapter' = adapter /\ Len(adapter') = a
         \/ /\ Len(adapter') = a + 1 /\ adapter'[a + 1] = Cmd(t)
            /\ \A i \in 1..a : adapter'[i] = adapter[i]
    <3>1. CASE adapter' = adapter
      BY <3>1
    <3>2. CASE adapter' = Append(adapter, Cmd(t))
      <4> DEFINE s == Append(adapter, Cmd(t))
      <4>1. /\ Len(s) = Len(adapter) + 1 /\ s[Len(adapter) + 1] = Cmd(t)
            /\ \A i \in 1..Len(adapter) : s[i] = adapter[i]
        BY <2>10, <2>11, AppendProperties
      <4> HIDE DEF s
      <4>2. adapter' = s
        BY <3>2 DEF s
      <4> QED
        BY <4>1, <4>2
    <3> QED
      BY <2>1, <3>1, <3>2
  <2>13. Replies' = n + Len(adapter') /\ DOMAIN adapter' = 1..Len(adapter') /\ Len(adapter') \in Nat
    BY <2>6, AdapterNext
  <2> HIDE DEF n, a
  <2>14. ASSUME Calm' PROVE Counted'
    <3>1. Counted
      BY <2>8, <2>14 DEF FlightInv
    <3>2. SUFFICES ASSUME NEW i \in 1..Replies', NoBanner(i)'
                   PROVE  /\ i <= pipe'.owed
                          /\ i = pipe'.owed => \A u \in Task : local'[u].at = "collect" => Own(u, i)'
      BY DEF Counted
    <3>3. NoBanner(i)
      BY <2>9, <3>2
    <3>4. CASE i \in 1..Replies
      <4>1. i <= pipe.owed
        BY <3>1, <3>3, <3>4 DEF Counted
      <4> QED
        BY <2>5, <2>10, <3>2, <4>1
    <3>5. CASE i \notin 1..Replies
      <4>1. /\ i = n + (a + 1) /\ Len(adapter') = a + 1 /\ adapter'[a + 1] = Cmd(t)
            /\ i \notin 1..n /\ i - n = a + 1
        <5>1. n \in Nat /\ a \in Nat /\ Replies = n + a /\ Replies' = n + Len(adapter')
          BY <2>10, <2>13
        <5>2. Len(adapter') # a
          BY <3>2, <3>5, <5>1
        <5>3. Len(adapter') = a + 1 /\ adapter'[a + 1] = Cmd(t)
          BY <2>12, <5>2
        <5>4. i = n + (a + 1) /\ i \notin 1..n /\ i - n = a + 1
          BY <3>2, <3>5, <5>1, <5>3
        <5> QED
          BY <5>3, <5>4
      <4>2. i <= pipe.owed + 1
        <5>1. CASE n + a = 0
          BY <2>10, <4>1, <5>1
        <5>2. CASE n + a > 0
          <6>1. n + a \in 1..Replies
            BY <2>10, <5>2
          <6>2. NoBanner(n + a)
            BY <2>10, <3>3, <4>1 DEF NoBanner
          <6>3. n + a <= pipe.owed
            BY <3>1, <6>1, <6>2 DEF Counted
          <6> QED
            BY <2>10, <4>1, <6>3
        <5> QED
          BY <2>10, <5>1, <5>2
      <4>3. Own(t, i)'
        BY <2>6, <2>7, <2>10, <4>1 DEF Own, n
      <4> QED
        BY <2>5, <2>7, <4>2, <4>3
    <3> QED
      BY <3>4, <3>5
  <2>15. ASSUME Calm', NoBanner(Len(Arrived))' PROVE HeaderKnown'
    <3>1. Counted /\ HeaderKnown /\ NoBanner(n)
      <4>1. NoBanner(n)
        BY <2>6, <2>15 DEF NoBanner, n
      <4> QED
        BY <2>8, <2>15, <4>1 DEF FlightInv, n
    <3>2. n # pipe'.owed
      <4>1. CASE n > 0
        <5>1. n \in 1..Replies
          BY <2>10, <4>1
        <5>2. n <= pipe.owed
          BY <3>1, <5>1 DEF Counted
        <5> QED
          BY <2>5, <2>10, <5>2
      <4> QED
        BY <2>5, <2>10, <4>1
    <3>3. ASSUME \A u \in Task : ~Header(u)', cache'.header # Nobody
          PROVE  /\ header' = cache'.header
                 /\ \A i \in DOMAIN adapter' : ~SetsHeader(adapter'[i])
      <4>1. \A u \in Task : ~Header(u)
        BY <1>3 DEF Header
      <4>2. header = cache.header /\ \A i \in DOMAIN adapter : ~SetsHeader(adapter[i])
        BY <1>1, <3>1, <3>3, <4>1 DEF HeaderKnown
      <4>3. ~SetsHeader(Cmd(t))
        BY <2>3, <2>4, <2>7, <3>3 DEF Header, SetsHeader
      <4>4. \A i \in DOMAIN adapter' : ~SetsHeader(adapter'[i])
        <5>1. CASE adapter' = adapter
          BY <4>2, <5>1
        <5>2. CASE /\ Len(adapter') = a + 1 /\ adapter'[a + 1] = Cmd(t)
                   /\ \A i \in 1..a : adapter'[i] = adapter[i]
          <6> SUFFICES ASSUME NEW i \in DOMAIN adapter' PROVE ~SetsHeader(adapter'[i])
            OBVIOUS
          <6>1. i \in 1..(a + 1) /\ a \in Nat
            BY <2>10, <2>13, <5>2
          <6>2. i \in 1..a \/ i = a + 1
            BY <6>1
          <6>3. CASE i \in 1..a
            BY <2>10, <4>2, <5>2, <6>3
          <6>4. CASE i = a + 1
            BY <4>3, <5>2, <6>4
          <6> QED
            BY <6>2, <6>3, <6>4
        <5> QED
          BY <2>12, <5>1, <5>2
      <4> QED
        BY <1>1, <4>2, <4>4
    <3> QED
      BY <2>6, <3>2, <3>3 DEF HeaderKnown, n
  <2>16. Probed'
    BY <2>3, <2>4, <2>7 DEF Probed
  <2> QED
    BY <2>14, <2>15, <2>16 DEF FlightInv
<1> QED
  BY <1>5, <1>6

\* After the drain the probe's answer is all there is to come.
LEMMA DrainFlight ==
    ASSUME SerialInv, SerialInv', FlightInv, NEW t \in Task, Drain(t)
    PROVE  FlightInv'
<1>1. /\ local[t].at = "drain" /\ Becomes(t, [local[t] EXCEPT !.at = "probe"])
      /\ wire' = <<>> /\ pipe' = Begin(ClearBacklog(pipe)) /\ cache' = Unknown
      /\ adapter' = <<Probe>>
  BY DEF Drain
<1>2. Active(t)
  BY <1>1 DEF Active
<1>3. local[t] \in Local /\ \A u \in Task \ {t} : local[u].at = "idle"
  BY <1>2, OthersIdle, LocalsOf
<1>4. PICK l : l = [local[t] EXCEPT !.at = "probe"]
  OBVIOUS
<1>5. l.at = "probe" /\ local'[t] = l /\ \A u \in Task \ {t} : local'[u] = local[u]
  BY <1>1, <1>3, <1>4 DEF Becomes, SerialInv, TypeOK, Local
<1>6. \A u \in Task : local'[u].at # "collect"
  BY <1>3, <1>5
<1>7. pipe \in Pipe
  BY Typed DEF OtherTypes
<1>8. pipe'.owed = 1 /\ pipe'.done = <<>> /\ cache'.header = Nobody
  BY <1>1, <1>7, ProbedIs, UnknownIs
<1>9. Len(Arrived') = 0 /\ Arrived' = <<>>
  <2>1. Len(pipe'.done) = 0 /\ Len(wire') = 0
    BY <1>1, <1>8
  <2> QED
    BY <2>1, ArrivedNext
<1>10. Len(adapter') = 1
  BY <1>1
<1>11. Replies' = 1
  BY <1>9, <1>10 DEF Replies
<1>12. Counted'
  BY <1>6, <1>8, <1>11 DEF Counted
<1>13. HeaderKnown'
  BY <1>6, <1>8 DEF HeaderKnown, Header
<1>14. Probed'
  <2>1. DOMAIN Arrived' = {}
    BY <1>9
  <2> QED
    BY <1>9, <1>10, <2>1 DEF Probed
<1> QED
  BY <1>12, <1>13, <1>14 DEF FlightInv

\* After a reconnect there is at most a banner to come.
LEMMA ConnectFlight ==
    ASSUME SerialInv, SerialInv', FlightInv, Connect
    PROVE  FlightInv'
<1>1. /\ \A u \in Task : local[u].at = "idle"
      /\ pipe' = FreshPipe /\ cache' = Unknown /\ adapter' = <<>>
      /\ wire' \in {<<>>, <<Banner>>} /\ local' = local
  BY DEF Connect
<1>2. Quiet' /\ cache'.header = Nobody
  BY <1>1, UnknownIs DEF Quiet
<1>3. Len(pipe'.done) = 0 /\ Len(adapter') = 0
  BY <1>1, FreshIs
<1>4. /\ Len(Arrived') = Len(wire') /\ DOMAIN Arrived' = 1..Len(Arrived')
      /\ \A i \in 1..Len(wire') : Arrived'[i] = <<wire'[i]>>
  <2>1. /\ Len(Arrived') = 0 + Len(wire') /\ DOMAIN Arrived' = 1..Len(Arrived')
        /\ \A i \in 1..Len(wire') : Arrived'[0 + i] = <<wire'[i]>>
        /\ Len(wire') \in Nat
    BY <1>3, ArrivedNext
  <2> QED
    BY <2>1
<1>5. /\ Replies' \in Nat /\ Replies' = Len(Arrived') + Len(adapter') /\ Len(Arrived') \in Nat
      /\ Len(adapter') \in Nat /\ DOMAIN adapter' = 1..Len(adapter')
  BY AdapterNext, ArrivedNext
<1>6. Replies' = Len(wire')
  BY <1>3, <1>4, <1>5
<1>7. \A i \in 1..Replies' : ~NoBanner(i)'
  <2> SUFFICES ASSUME NEW i \in 1..Replies' PROVE ~NoBanner(i)'
    OBVIOUS
  <2>1. wire' = <<Banner>>
    BY <1>1, <1>6
  <2>2. Len(wire') = 1 /\ wire'[1] = Banner
    BY <2>1
  <2>3. 1 \in DOMAIN Arrived' /\ Arrived'[1] = <<Banner>> /\ 1 <= i
    BY <1>4, <1>6, <2>2
  <2> QED
    BY <2>3 DEF NoBanner
<1> QED
  BY <1>2, <1>5, <1>7, FlightBehind

\* One block more has arrived.
LEMMA ArrivedGrows ==
    ASSUME SerialInv, SerialInv', NEW x \in Text, wire' = Append(wire, x), pipe' = pipe
    PROVE  /\ Len(Arrived') = Len(Arrived) + 1 /\ Arrived'[Len(Arrived) + 1] = <<x>>
           /\ \A i \in 1..Len(Arrived) : Arrived'[i] = Arrived[i]
<1> DEFINE d == Len(pipe.done)
           w == Len(wire)
<1>1. wire \in Seq(Text)
  BY Typed DEF OtherTypes
<1>2. Len(wire') = w + 1 /\ wire'[w + 1] = x /\ \A i \in 1..w : wire'[i] = wire[i]
  BY <1>1, AppendProperties
<1>3. /\ Len(Arrived) = d + w /\ d \in Nat /\ w \in Nat
      /\ \A i \in 1..d : Arrived[i] = pipe.done[i]
      /\ \A i \in 1..w : Arrived[d + i] = <<wire[i]>>
  BY ArrivedIs
<1>4. /\ Len(Arrived') = d + (w + 1)
      /\ \A i \in 1..d : Arrived'[i] = pipe.done[i]
      /\ \A i \in 1..(w + 1) : Arrived'[d + i] = <<wire'[i]>>
  BY <1>2, ArrivedNext
<1> HIDE DEF d, w
<1>5. Len(Arrived') = Len(Arrived) + 1
  BY <1>3, <1>4
<1>6. Arrived'[Len(Arrived) + 1] = <<x>>
  <2>1. w + 1 \in 1..(w + 1) /\ Len(Arrived) + 1 = d + (w + 1)
    BY <1>3
  <2> QED
    BY <1>2, <1>4, <2>1
<1>7. ASSUME NEW i \in 1..Len(Arrived) PROVE Arrived'[i] = Arrived[i]
  <2>1. CASE i \in 1..d
    BY <1>3, <1>4, <2>1
  <2>2. CASE i \notin 1..d
    <3>1. PICK k \in 1..w : i = d + k
      <4>1. i - d \in 1..w /\ i = d + (i - d)
        BY <1>3, <2>2
      <4> QED
        BY <4>1
    <3>2. k \in 1..(w + 1) /\ wire'[k] = wire[k]
      BY <1>2, <1>3, <3>1
    <3> QED
      BY <1>3, <1>4, <3>1, <3>2
  <2> QED
    BY <2>1, <2>2
<1> QED
  BY <1>5, <1>6, <1>7

\* A reset puts its banner behind what has been printed.
LEMMA ResetsItselfFlight ==
    ASSUME SerialInv, SerialInv', FlightInv, ResetsItself
    PROVE  FlightInv'
<1>1. /\ adapter' = <<>> /\ wire' = Append(wire, Banner)
      /\ UNCHANGED <<local, cache, reinit, link, pipe, doubt>>
  BY DEF ResetsItself, taskVars, sharedVars
<1> DEFINE n == Len(Arrived)
<1>2. /\ Len(Arrived') = n + 1 /\ Arrived'[n + 1] = <<Banner>>
      /\ \A i \in 1..n : Arrived'[i] = Arrived[i]
  BY <1>1, BannerIs, ArrivedGrows
<1>3. n \in Nat /\ DOMAIN Arrived = 1..n /\ pipe.owed \in Nat /\ Len(adapter) \in Nat
      /\ Replies = n + Len(adapter)
  BY ArrivedIs, AdapterIs
<1> HIDE DEF n
<1>4. Replies' = n + 1 /\ DOMAIN Arrived' = 1..(n + 1)
  <2>1. Len(adapter') = 0
    BY <1>1
  <2>2. Replies' = Len(Arrived') + Len(adapter') /\ DOMAIN Arrived' = 1..Len(Arrived')
    BY AdapterNext, ArrivedNext
  <2> QED
    BY <1>2, <1>3, <2>1, <2>2
<1>5. ASSUME NEW i \in Nat, i >= n + 1 PROVE ~NoBanner(i)'
  <2>1. n + 1 \in DOMAIN Arrived' /\ n + 1 <= i
    BY <1>3, <1>4, <1>5
  <2>2. Arrived'[n + 1] = <<Banner>>
    BY <1>2
  <2> QED
    BY <2>1, <2>2 DEF NoBanner
<1>6. ~NoBanner(Len(Arrived))'
  <2>1. n + 1 \in DOMAIN Arrived' /\ n + 1 <= Len(Arrived')
    BY <1>2, <1>3, <1>4
  <2> QED
    BY <1>2, <2>1 DEF NoBanner
<1>7. ASSUME Calm' PROVE Counted'
  <2>1. Counted
    BY <1>1, <1>7 DEF Calm, FlightInv
  <2>2. SUFFICES ASSUME NEW i \in 1..Replies', NoBanner(i)'
                 PROVE  /\ i <= pipe'.owed
                        /\ i = pipe'.owed => \A u \in Task : local'[u].at = "collect" => Own(u, i)'
    BY DEF Counted
  <2>3. i \in 1..n
    <3>1. i \in 1..(n + 1) /\ i \in Nat
      BY <1>3, <1>4
    <3>2. ~(i >= n + 1)
      BY <1>5, <2>2, <3>1
    <3> QED
      BY <1>3, <3>1, <3>2
  <2>4. NoBanner(i) /\ i \in 1..Replies
    <3>1. i \in 1..Replies
      BY <1>3, <2>3
    <3>2. \A k \in DOMAIN Arrived : k \in DOMAIN Arrived' /\ Arrived'[k] = Arrived[k]
      BY <1>2, <1>3, <1>4
    <3> QED
      BY <2>2, <3>1, <3>2 DEF NoBanner
  <2>5. ASSUME NEW u \in Task, Own(u, i) PROVE Own(u, i)'
    <3>1. Tells(u, Arrived[i][1])
      BY <1>3, <2>3, <2>5 DEF Own
    <3>2. Tells(u, Arrived[i][1])'
      BY <1>1, <1>2, <2>3, <3>1 DEF Tells, Cmd
    <3>3. i \in DOMAIN Arrived'
      BY <1>3, <1>4, <2>3
    <3> QED
      BY <3>2, <3>3 DEF Own
  <2> QED
    BY <1>1, <2>1, <2>4, <2>5 DEF Counted
<1>8. Probed'
  <2> SUFFICES ASSUME NEW u \in Task, local'[u].at = "probe", NEW i \in DOMAIN Arrived', i > 1
               PROVE  Arrived'[i] = <<Banner>>
    BY <1>1 DEF Probed
  <2>1. CASE i = n + 1
    BY <1>2, <2>1
  <2>2. CASE i # n + 1
    <3>1. i \in 1..n
      BY <1>3, <1>4, <2>2
    <3>2. Arrived[i] = <<Banner>>
      BY <1>1, <1>3, <3>1 DEF FlightInv, Probed
    <3> QED
      BY <1>2, <3>1, <3>2
  <2> QED
    BY <2>1, <2>2
<1> QED
  BY <1>6, <1>7, <1>8 DEF FlightInv

\* The adapter is done with the first command.
LEMMA AdapterShrinks ==
    ASSUME SerialInv, adapter # <<>>, adapter' = Tail(adapter)
    PROVE  /\ Len(adapter) > 0 /\ Len(adapter') = Len(adapter) - 1
           /\ Head(adapter) = adapter[1] /\ Head(adapter) \in Command
           /\ \A i \in 1..Len(adapter') : adapter'[i] = adapter[i + 1]
           /\ (adapter' # <<>> => Len(adapter) # 1)
<1> DEFINE s == adapter
           r == Tail(adapter)
<1>1. s \in Seq(Command) /\ s # <<>>
  BY AdapterIs
<1>2. /\ Head(s) \in Command /\ Tail(s) \in Seq(Command) /\ Len(Tail(s)) = Len(s) - 1
      /\ \A i \in 1..Len(Tail(s)) : Tail(s)[i] = s[i + 1]
  BY <1>1, HeadTailProperties
<1>3. Head(s) = s[1] /\ Len(s) > 0
  BY <1>1
<1>4. Len(s) = 1 => Tail(s) = <<>>
  BY <1>1, <1>2
<1> QED
  BY <1>2, <1>3, <1>4

\* With a reply lost there are fewer to come than are counted.
LEMMA LosesFlight ==
    ASSUME SerialInv, SerialInv', FlightInv, Loses
    PROVE  FlightInv'
<1>1. /\ adapter # <<>> /\ adapter' = Tail(adapter)
      /\ header' \in {header, HeaderAfter(Head(adapter))}
      /\ UNCHANGED <<local, cache, reinit, link, pipe, doubt, wire>>
  BY DEF Loses, taskVars, sharedVars
<1>2. Arrived' = Arrived
  BY <1>1, ArrivedStays
<1> DEFINE n == Len(Arrived)
           a == Len(adapter)
<1>3. /\ n \in Nat /\ a \in Nat /\ pipe.owed \in Nat /\ DOMAIN Arrived = 1..n
      /\ Replies = n + a /\ DOMAIN adapter = 1..a
  BY ArrivedIs, AdapterIs
<1>4. /\ a > 0 /\ Len(adapter') = a - 1 /\ Head(adapter) = adapter[1]
      /\ \A i \in 1..Len(adapter') : adapter'[i] = adapter[i + 1]
      /\ (adapter' # <<>> => a # 1)
  BY <1>1, AdapterShrinks
<1>5. Replies' = n + (a - 1) /\ DOMAIN adapter' = 1..(a - 1)
  <2>1. Replies' = Len(Arrived') + Len(adapter') /\ DOMAIN adapter' = 1..Len(adapter')
    BY AdapterNext
  <2> QED
    BY <1>2, <1>4, <2>1
<1> HIDE DEF n, a
<1>6. \A i : NoBanner(i)' = NoBanner(i)
  BY <1>2 DEF NoBanner
<1>7. \A u \in Task : Cmd(u)' = Cmd(u) /\ Header(u)' = Header(u)
  BY <1>1 DEF Cmd, Header
\* The reply that was lost leaves more owed than there is to come.
<1>8. ASSUME Counted, NEW i \in Nat, i >= n, i < Replies, NoBanner(i)
      PROVE  i < pipe.owed
  <2>1. i + 1 \in 1..Replies
    BY <1>3, <1>8
  <2>2. NoBanner(i + 1)
    BY <1>3, <1>8 DEF NoBanner
  <2>3. i + 1 <= pipe.owed
    BY <1>8, <2>1, <2>2 DEF Counted
  <2> QED
    BY <1>3, <2>3
<1>9. ASSUME Calm' PROVE Counted'
  <2>1. Counted
    BY <1>1, <1>9 DEF Calm, FlightInv
  <2>2. SUFFICES ASSUME NEW i \in 1..Replies', NoBanner(i)'
                 PROVE  /\ i <= pipe'.owed
                        /\ i = pipe'.owed => \A u \in Task : local'[u].at = "collect" => Own(u, i)'
    BY DEF Counted
  <2>3. i \in 1..Replies /\ i \in Nat /\ i < Replies /\ NoBanner(i)
    BY <1>3, <1>4, <1>5, <1>6, <2>2
  <2>4. CASE i \in 1..n
    <3>1. ASSUME NEW u \in Task, Own(u, i) PROVE Own(u, i)'
      <4>1. i \in DOMAIN Arrived /\ Tells(u, Arrived[i][1])
        BY <1>3, <2>4, <3>1 DEF Own
      <4>2. Tells(u, Arrived[i][1])'
        BY <1>1, <1>2, <1>7, <4>1 DEF Tells
      <4> QED
        BY <1>2, <4>1, <4>2 DEF Own
    <3> QED
      BY <1>1, <2>1, <2>3, <3>1 DEF Counted
  <2>5. CASE i \notin 1..n
    <3>1. i >= n
      BY <1>3, <2>3, <2>5
    <3>2. i < pipe.owed
      BY <1>8, <2>1, <2>3, <3>1
    <3> QED
      BY <1>1, <1>3, <2>3, <3>2
  <2> QED
    BY <2>4, <2>5
<1>10. ASSUME Calm', NoBanner(Len(Arrived))' PROVE HeaderKnown'
  <2>1. Counted /\ HeaderKnown /\ NoBanner(n)
    <3>1. NoBanner(n)
      BY <1>2, <1>10 DEF NoBanner, n
    <3>2. Calm
      BY <1>1, <1>10 DEF Calm
    <3> QED
      BY <3>1, <3>2 DEF FlightInv, n
  <2>2. n # pipe'.owed
    <3>1. n < Replies /\ n >= n
      BY <1>3, <1>4
    <3>2. n < pipe.owed
      BY <1>3, <1>8, <2>1, <3>1
    <3> QED
      BY <1>1, <1>3, <3>2
  <2>3. ASSUME \A u \in Task : ~Header(u)', cache'.header # Nobody
        PROVE  /\ header' = cache'.header
               /\ \A i \in DOMAIN adapter' : ~SetsHeader(adapter'[i])
    <3>1. header = cache.header /\ \A i \in DOMAIN adapter : ~SetsHeader(adapter[i])
      BY <1>1, <1>7, <2>1, <2>3 DEF HeaderKnown
    <3>2. ~SetsHeader(Head(adapter))
      <4>1. 1 \in DOMAIN adapter
        BY <1>3, <1>4
      <4> QED
        BY <1>4, <3>1, <4>1
    <3>3. \A i \in DOMAIN adapter' : ~SetsHeader(adapter'[i])
      BY <1>3, <1>4, <1>5, <3>1
    <3> QED
      BY <1>1, <3>1, <3>2, <3>3 DEF HeaderAfter
  <2> QED
    BY <1>2, <2>2, <2>3 DEF HeaderKnown, n
<1>11. Probed'
  BY <1>1, <1>2, <1>4 DEF FlightInv, Probed, a
<1> QED
  BY <1>9, <1>10, <1>11 DEF FlightInv

\* The adapter's answer takes the place its command had.
LEMMA AnswersFlight ==
    ASSUME SerialInv, SerialInv', FlightInv, Answers
    PROVE  FlightInv'
<1>1. /\ adapter # <<>> /\ adapter' = Tail(adapter) /\ header' = HeaderAfter(Head(adapter))
      /\ UNCHANGED <<local, cache, reinit, link, pipe, doubt>>
  BY DEF Answers, taskVars, sharedVars
<1>2. PICK x \in Prints(Head(adapter)) : wire' = Append(wire, x)
  BY DEF Answers
<1> DEFINE n == Len(Arrived)
           a == Len(adapter)
           c == adapter[1]
<1>3. /\ n \in Nat /\ a \in Nat /\ pipe.owed \in Nat /\ DOMAIN Arrived = 1..n
      /\ Replies = n + a /\ DOMAIN adapter = 1..a
  BY ArrivedIs, AdapterIs
<1>4. /\ a > 0 /\ Len(adapter') = a - 1 /\ Head(adapter) = c /\ c \in Command
      /\ \A i \in 1..Len(adapter') : adapter'[i] = adapter[i + 1]
      /\ (adapter' # <<>> => a # 1)
  BY <1>1, AdapterShrinks
<1>5. /\ x \in Text /\ x # Banner
      /\ c.op = "header" /\ c.ecu \in Refused => x.kind = "refused"
      /\ c.op = "request" /\ x.kind = "reply" => header = Nobody \/ x.ecu = header
  <2>1. header \in Ecu \cup {Nobody}
    BY Typed DEF OtherTypes
  <2> QED
    BY <1>2, <1>4, <2>1, PrintsIs
<1>6. /\ Len(Arrived') = n + 1 /\ Arrived'[n + 1] = <<x>>
      /\ \A i \in 1..n : Arrived'[i] = Arrived[i]
  BY <1>1, <1>2, <1>5, ArrivedGrows
<1>7. Replies' = n + a /\ DOMAIN adapter' = 1..(a - 1) /\ DOMAIN Arrived' = 1..(n + 1)
  <2>1. /\ Replies' = Len(Arrived') + Len(adapter') /\ DOMAIN adapter' = 1..Len(adapter')
        /\ DOMAIN Arrived' = 1..Len(Arrived')
    BY AdapterNext, ArrivedNext
  <2> QED
    BY <1>3, <1>4, <1>6, <2>1
<1>8. <<x>> # <<Banner>> /\ <<x>>[1] = x
  BY <1>5
<1> HIDE DEF n, a, c
<1>9. \A u \in Task : Cmd(u)' = Cmd(u) /\ Header(u)' = Header(u)
  BY <1>1 DEF Cmd, Header
<1>10. ASSUME NEW i, NoBanner(i)' PROVE NoBanner(i)
  BY <1>3, <1>6, <1>7, <1>10 DEF NoBanner
\* What the answer tells, when the command was the own one.
<1>11. ASSUME Counted, HeaderKnown, NEW u \in Task, local[u].at = "collect", c = Cmd(u)
       PROVE  Tells(u, x)'
  <2>1. ASSUME Cmd(u).op = "request", x.kind = "reply" PROVE cache.header \in {Nobody, x.ecu}
    <3>1. \A v \in Task : ~Header(v)
      <4>1. \A v \in Task \ {u} : local[v].at = "idle"
        BY <1>11, OthersIdle DEF Active
      <4> QED
        BY <2>1, <4>1 DEF Header
    <3>2. cache.header # Nobody => header = cache.header
      BY <1>11, <3>1 DEF HeaderKnown
    <3> QED
      BY <1>5, <1>11, <2>1, <3>2
  <2> QED
    BY <1>1, <1>5, <1>9, <1>11, <2>1 DEF Tells
<1>12. ASSUME Calm' PROVE Counted'
  <2>1. Calm /\ Counted
    BY <1>1, <1>12 DEF Calm, FlightInv
  <2>2. SUFFICES ASSUME NEW i \in 1..Replies', NoBanner(i)'
                 PROVE  /\ i <= pipe'.owed
                        /\ i = pipe'.owed => \A u \in Task : local'[u].at = "collect" => Own(u, i)'
    BY DEF Counted
  <2>3. i \in 1..Replies /\ i \in Nat /\ NoBanner(i)
    BY <1>3, <1>7, <1>10, <2>2
  <2>4. i <= pipe.owed
    BY <2>1, <2>3 DEF Counted
  <2>5. ASSUME i = pipe.owed, NEW u \in Task, local[u].at = "collect" PROVE Own(u, i)'
    <3>1. Own(u, i)
      BY <2>1, <2>3, <2>5 DEF Counted
    <3>2. CASE i \in 1..n
      <4>1. Tells(u, Arrived[i][1])
        BY <1>3, <3>1, <3>2 DEF Own
      <4>2. Tells(u, Arrived[i][1])'
        BY <1>1, <1>6, <1>9, <3>2, <4>1 DEF Tells
      <4>3. i \in DOMAIN Arrived'
        BY <1>3, <1>7, <3>2
      <4> QED
        BY <4>2, <4>3 DEF Own
    <3>3. CASE i = n + 1
      <4>1. i \notin DOMAIN Arrived /\ i - n = 1 /\ i \in DOMAIN Arrived'
        BY <1>3, <1>7, <3>3
      <4>2. c = Cmd(u)
        BY <3>1, <4>1 DEF Own, n, c
      <4>3. NoBanner(Len(Arrived))
        BY <1>3, <2>3, <3>3 DEF NoBanner, n
      <4>4. HeaderKnown
        BY <2>1, <4>3 DEF FlightInv
      <4>5. Tells(u, x)'
        BY <1>11, <2>1, <2>5, <4>2, <4>4
      <4>6. Arrived'[i][1] = x
        BY <1>6, <1>8, <3>3
      <4>7. Tells(u, Arrived[i][1])'
        BY <4>5, <4>6 DEF Tells
      <4> QED
        BY <4>1, <4>7 DEF Own
    <3>4. CASE i > n + 1
      <4>1. /\ i \notin DOMAIN Arrived /\ i \notin DOMAIN Arrived'
            /\ i - (n + 1) \in 1..(a - 1) /\ (i - (n + 1)) + 1 = i - n
        BY <1>3, <1>7, <2>3, <3>4
      <4>2. adapter[i - n] = Cmd(u)
        BY <3>1, <4>1 DEF Own, n
      <4>3. adapter'[i - (n + 1)] = Cmd(u)
        BY <1>4, <4>1, <4>2
      <4>4. adapter'[i - Len(Arrived')] = Cmd(u)'
        BY <1>6, <1>9, <4>3
      <4> QED
        BY <4>1, <4>4 DEF Own
    <3> QED
      BY <1>3, <2>3, <3>2, <3>3, <3>4
  <2> QED
    BY <1>1, <2>4, <2>5
<1>13. ASSUME Calm', NoBanner(Len(Arrived))' PROVE HeaderKnown'
  <2>1. Counted /\ HeaderKnown /\ NoBanner(n + 1)
    <3>1. \A k \in DOMAIN Arrived' : k <= n + 1 => Arrived'[k] # <<Banner>>
      <4>1. Len(Arrived') = n + 1
        BY <1>6
      <4> QED
        BY <1>13, <4>1 DEF NoBanner
    <3>2. NoBanner(n + 1)
      <4>1. PICK m : m = n + 1
        OBVIOUS
      <4>2. NoBanner(m)'
        BY <3>1, <4>1 DEF NoBanner
      <4>3. NoBanner(m)
        BY <1>10, <4>2
      <4> QED
        BY <4>1, <4>3
    <3>3. NoBanner(Len(Arrived))
      BY <1>3, <3>2 DEF NoBanner, n
    <3>4. Calm
      BY <1>1, <1>13 DEF Calm
    <3> QED
      BY <3>2, <3>3, <3>4 DEF FlightInv
  <2>2. ASSUME NEW u \in Task, Header(u), Cmd(u).ecu \notin Refused, n + 1 = pipe.owed
        PROVE  header' = Cmd(u).ecu
    <3>1. n + 1 \in 1..Replies /\ n + 1 \notin DOMAIN Arrived /\ (n + 1) - n = 1
      BY <1>3, <1>4
    <3>2. Own(u, n + 1)
      BY <2>1, <2>2, <3>1 DEF Counted, Header
    <3>3. c = Cmd(u)
      BY <3>1, <3>2 DEF Own, n, c
    <3>4. SetsHeader(c)
      BY <2>2, <3>3 DEF SetsHeader, Header
    <3> QED
      BY <1>1, <1>4, <3>3, <3>4 DEF HeaderAfter
  <2>3. ASSUME \A u \in Task : ~Header(u), cache.header # Nobody
        PROVE  /\ header' = cache.header
               /\ \A i \in DOMAIN adapter' : ~SetsHeader(adapter'[i])
    <3>1. header = cache.header /\ \A i \in DOMAIN adapter : ~SetsHeader(adapter[i])
      BY <2>1, <2>3 DEF HeaderKnown
    <3>2. 1 \in DOMAIN adapter
      BY <1>3, <1>4
    <3>3. ~SetsHeader(Head(adapter))
      BY <1>4, <3>1, <3>2 DEF c
    <3>4. \A i \in DOMAIN adapter' : ~SetsHeader(adapter'[i])
      BY <1>3, <1>4, <1>7, <3>1
    <3> QED
      BY <1>1, <3>1, <3>3, <3>4 DEF HeaderAfter
  <2> QED
    BY <1>1, <1>6, <1>9, <2>2, <2>3 DEF HeaderKnown
<1>14. Probed'
  <2> SUFFICES ASSUME NEW u \in Task, local[u].at = "probe"
               PROVE  adapter' = <<>> /\ \A i \in DOMAIN Arrived' : i > 1 => FALSE
    BY <1>1 DEF Probed
  <2>1. Arrived = <<>> /\ a = 1
    BY <1>1 DEF FlightInv, Probed, a
  <2>2. n = 0
    BY <2>1 DEF n
  <2> QED
    BY <1>4, <1>7, <2>1, <2>2
<1> QED
  BY <1>12, <1>13, <1>14 DEF FlightInv

\* No block is a banner when neither the last is nor those before it are.
LEMMA FrontAndLast ==
    ASSUME NEW s \in Seq(OneText), s # <<>>,
           <<Banner>> \notin Range(Front(s)), Kind(Last(s)) # "banner"
    PROVE  \A i \in 1..Len(s) : s[i] # <<Banner>>
<1> SUFFICES ASSUME NEW i \in 1..Len(s) PROVE s[i] # <<Banner>>
  OBVIOUS
<1> DEFINE m == Len(s)
           f == Front(s)
<1>1. m \in Nat /\ m >= 1 /\ Last(s) = s[m] /\ s[m] \in OneText
  BY DEF Last
<1>2. CASE i = m
  <2>1. Last(<<Banner>>) = Banner /\ <<Banner>> # <<>>
    BY BannerIs, OneTextIs
  <2>2. Kind(<<Banner>>) = "banner"
    BY <2>1, BannerIs DEF Kind
  <2> QED
    BY <1>1, <1>2, <2>2
<1>3. CASE i # m
  <2>1. \A k \in 1..m - 1 : s[k] \in OneText
    BY <1>1
  <2>2. /\ f \in Seq(OneText) /\ Len(f) = (IF 1 <= m - 1 THEN m - 1 - 1 + 1 ELSE 0)
        /\ \A k \in 1..(m - 1 - 1 + 1) : f[k] = s[1 + k - 1]
    <3>1. 1 \in Int /\ m - 1 \in Int
      BY <1>1
    <3>2. f = SubSeq(s, 1, m - 1)
      BY DEF Front
    <3> QED
      BY <2>1, <3>1, <3>2, SubSeqProperties
  <2> HIDE DEF f
  <2>3. i \in 1..m - 1 /\ m - 1 - 1 + 1 = m - 1 /\ 1 + i - 1 = i /\ 1 <= m - 1
    BY <1>1, <1>3
  <2>4. f[i] = s[i] /\ Len(f) = m - 1 /\ DOMAIN f = 1..Len(f)
    BY <2>2, <2>3
  <2>5. s[i] \in Range(f)
    BY <2>3, <2>4 DEF Range
  <2> QED
    BY <2>5 DEF f
<1> QED
  BY <1>2, <1>3

\* What the answer is, when a block was completed.
LEMMA BlockIs ==
    ASSUME NEW p \in Pipe
    PROVE  /\ p.done # <<>> => /\ Block(p) = p.done[Len(p.done)] /\ Block(p) = Last(p.done)
                               /\ Block(p) \in OneText /\ Block(p) # <<>>
                               /\ Len(p.done) >= 1 /\ Kind(Block(p)) = Last(Block(p)).kind
           /\ p.done = <<>> => Block(p) = <<>> /\ Kind(Block(p)) = "silence"
<1>1. p.done \in Seq(OneText) /\ p.tail = <<>>
  BY PipeFields
<1>2. ASSUME p.done # <<>>
      PROVE  /\ Block(p) = p.done[Len(p.done)] /\ Block(p) = Last(p.done)
             /\ Block(p) \in OneText /\ Len(p.done) >= 1
  <2> DEFINE s == p.done
  <2>1. s \in Seq(OneText) /\ s # <<>>
    BY <1>1, <1>2
  <2>2. Last(s) = s[Len(s)] /\ Len(s) >= 1 /\ s[Len(s)] \in OneText
    BY <2>1 DEF Last
  <2> QED
    BY <1>2, <2>2 DEF Block
<1>3. ASSUME p.done # <<>> PROVE Block(p) # <<>> /\ Kind(Block(p)) = Last(Block(p)).kind
  BY <1>2, <1>3, OneTextIs DEF Kind
<1>4. ASSUME p.done = <<>> PROVE Block(p) = <<>> /\ Kind(Block(p)) = "silence"
  BY <1>1, <1>4 DEF Block, Kind
<1> QED
  BY <1>2, <1>3, <1>4

\* When the ledger is settled, what has arrived is what was on the wire.
LEMMA ArrivedSettled ==
    ASSUME SerialInv, SerialInv', pipe'.done = <<>>, wire' = wire, UNCHANGED adapter
    PROVE  /\ Len(Arrived) = Len(pipe.done) + Len(Arrived')
           /\ \A i \in 1..Len(Arrived') : Arrived'[i] = Arrived[Len(pipe.done) + i]
           /\ Replies = Len(pipe.done) + Replies'
<1> DEFINE d == Len(pipe.done)
           w == Len(wire)
<1>1. /\ Len(Arrived) = d + w /\ d \in Nat /\ w \in Nat
      /\ \A i \in 1..w : Arrived[d + i] = <<wire[i]>>
  BY ArrivedIs
<1>2. Len(Arrived') = 0 + w /\ \A i \in 1..w : Arrived'[0 + i] = <<wire[i]>>
  <2>1. Len(pipe'.done) = 0
    OBVIOUS
  <2> QED
    BY <2>1, ArrivedNext
<1>3. /\ Replies = Len(Arrived) + Len(adapter) /\ Replies' = Len(Arrived') + Len(adapter)
      /\ Len(adapter) \in Nat
  BY AdapterIs, AdapterNext
<1> HIDE DEF d, w
<1>4. Len(Arrived') = w /\ \A i \in 1..w : Arrived'[i] = <<wire[i]>>
  BY <1>1, <1>2
<1>5. Len(Arrived) = d + Len(Arrived')
  BY <1>1, <1>4
<1>6. \A i \in 1..Len(Arrived') : Arrived'[i] = Arrived[d + i]
  BY <1>1, <1>4
<1>7. Replies = d + Replies'
  BY <1>1, <1>3, <1>4
<1> QED
  BY <1>5, <1>6, <1>7 DEF d

\* The answer to the probe is the last reply, or a banner follows it.
LEMMA ProbeEndsFlight ==
    ASSUME SerialInv, SerialInv', FlightInv, NEW t \in Task, ProbeEnds(t)
    PROVE  FlightInv'
<1>1. /\ local[t].at = "probe" /\ pipe' = Finish(pipe)
      /\ doubt' = (doubt \/ Kind(Block(pipe)) = "banner")
      /\ UNCHANGED <<cache, reinit, header, adapter, wire>>
  BY DEF ProbeEnds, adapterVars
<1>2. Active(t) /\ Asking(t)
  BY <1>1 DEF Active, Asking
<1>3. /\ local[t] \in Local /\ cache.header = Nobody /\ pipe \in Pipe /\ pipe.owed = 1
      /\ link # "dead" /\ \A u \in Task \ {t} : local[u].at = "idle"
  BY <1>1, <1>2, LocalsOf, LedgerOf, OthersIdle DEF Fits
<1>4. Quiet'
  <2>1. CASE Leaves(t)
    BY <1>2, <2>1, QuietAfter
  <2>2. CASE Becomes(t, [local[t] EXCEPT !.at = local[t].next, !.next = "idle"])
    <3>1. PICK l : l = [local[t] EXCEPT !.at = local[t].next, !.next = "idle"]
      OBVIOUS
    <3>2. Becomes(t, l) /\ l.at \notin {"collect", "probe"}
      BY <1>3, <2>2, <3>1 DEF Local
    <3> QED
      BY <1>2, <3>2, QuietAfter
  <2> QED
    BY <2>1, <2>2 DEF ProbeEnds
<1>5. pipe'.done = <<>> /\ pipe'.owed = IF pipe.done = <<>> THEN pipe.owed ELSE 0
  BY <1>1, <1>3, FinishIs
<1>6. CASE pipe.done = <<>>
  <2>1. Arrived' = Arrived
    BY <1>1, <1>5, <1>6, ArrivedStays
  <2>2. \A u \in Task : local[u].at # "drain"
    BY <1>1, NobodyDrains
  <2>3. Calm' => Calm
    BY <1>1, <1>3, <2>2 DEF Calm
  <2> QED
    BY <1>1, <1>3, <1>4, <1>5, <1>6, <2>1, <2>3, FlightQuiet
<1>7. CASE pipe.done # <<>> /\ Kind(Block(pipe)) = "banner"
  <2>1. ~Calm'
    BY <1>1, <1>7 DEF Calm
  <2> QED
    BY <1>4, <2>1, FlightLost
<1>8. CASE pipe.done # <<>> /\ Kind(Block(pipe)) # "banner"
  <2> DEFINE d == Len(pipe.done)
             n == Len(Arrived')
  <2>1. /\ Len(Arrived) = d + n /\ Replies = d + Replies'
        /\ \A i \in 1..n : Arrived'[i] = Arrived[d + i]
    BY <1>1, <1>5, ArrivedSettled
  <2>2. /\ d \in Nat /\ DOMAIN Arrived = 1..Len(Arrived)
        /\ \A i \in 1..d : Arrived[i] = pipe.done[i]
        /\ n \in Nat /\ DOMAIN Arrived' = 1..n /\ (Arrived = <<>> <=> Len(Arrived) = 0)
    BY ArrivedIs, ArrivedNext
  <2>3. /\ Replies' \in Nat /\ Replies' = n + Len(adapter') /\ Len(adapter') \in Nat
        /\ DOMAIN adapter' = 1..Len(adapter')
    BY AdapterNext
  <2>4. Block(pipe) = pipe.done[d] /\ d >= 1
    BY <1>3, <1>8, BlockIs
  <2> HIDE DEF d, n
  <2>5. \A i \in DOMAIN Arrived : i > 1 => Arrived[i] = <<Banner>>
    BY <1>1 DEF FlightInv, Probed
  <2>6. d = 1
    <3>1. CASE d > 1
      <4>1. d \in DOMAIN Arrived /\ d \in 1..d
        BY <2>1, <2>2, <3>1
      <4>2. Block(pipe) = <<Banner>>
        BY <2>2, <2>4, <2>5, <3>1, <4>1
      <4>3. Kind(<<Banner>>) = "banner"
        BY BannerIs, OneTextIs DEF Kind
      <4> QED
        BY <1>8, <4>2, <4>3
    <3> QED
      BY <2>2, <2>4, <3>1
  <2>7. adapter' = <<>> /\ Len(adapter') = 0
    <3>1. Arrived # <<>>
      BY <2>1, <2>2, <2>6
    <3>2. adapter = <<>>
      BY <1>1, <3>1 DEF FlightInv, Probed
    <3> QED
      BY <1>1, <3>2
  <2>8. \A i \in 1..Replies' : ~NoBanner(i)'
    <3> SUFFICES ASSUME NEW i \in 1..Replies' PROVE ~NoBanner(i)'
      OBVIOUS
    <3>1. 1 \in 1..n /\ d + 1 = 2 /\ 2 \in DOMAIN Arrived
      BY <2>1, <2>2, <2>3, <2>6, <2>7
    <3>2. Arrived'[1] = <<Banner>>
      BY <2>1, <2>5, <3>1
    <3>3. 1 \in DOMAIN Arrived' /\ 1 <= i
      BY <2>2, <3>1
    <3> QED
      BY <3>2, <3>3 DEF NoBanner
  <2>9. cache'.header = Nobody
    BY <1>1, <1>3
  <2> QED
    BY <1>4, <2>2, <2>3, <2>8, <2>9, FlightBehind DEF n
<1> QED
  BY <1>6, <1>7, <1>8

\* What an answer makes of the header that is believed.
LEMMA ObserveHeader ==
    ASSUME NEW known \in Cache, NEW c \in Command, NEW kind, NEW answered \in BOOLEAN
    PROVE  Observe(known, c, kind, answered).header =
              IF c.op # "header" THEN known.header
              ELSE IF answered /\ kind # "refused" THEN c.ecu ELSE Nobody
<1>1. CASE c.op = "header"
  BY <1>1 DEF Observe, Cache
<1>2. CASE c.op = "fc"
  BY <1>2 DEF Observe, Cache
<1>3. CASE c.op \notin {"header", "fc"}
  BY <1>3 DEF Observe
<1> QED
  BY <1>1, <1>2, <1>3

\* A collection that was satisfied, with no banner in it, ends with the own reply.
LEMMA SettledIs ==
    ASSUME SerialInv, FlightInv, NEW t \in Task, Concluded(t), ~doubt', pipe.done # <<>>,
           Kind(Block(pipe)) # "banner"
    PROVE  /\ Calm /\ Counted /\ pipe.owed = Len(pipe.done) /\ NoBanner(Len(pipe.done))
           /\ Tells(t, Last(Block(pipe)))
<1>1. local[t].at = "collect" /\ Active(t) /\ Asking(t)
  BY DEF Concluded, Active, Asking
<1>2. pipe \in Pipe /\ pipe.owed > 0 /\ ~reinit
  BY <1>1, LedgerOf, LocalsOf DEF Fits
<1>3. Calm /\ Counted
  <2>1. ~doubt
    BY DEF Concluded
  <2>2. (\A u \in Task : local[u].at # "drain") /\ link # "dead"
    BY <1>1, NobodyDrains
  <2> QED
    BY <1>2, <2>1, <2>2 DEF Calm, FlightInv
<1>4. Satisfied(pipe) /\ <<Banner>> \notin Range(Front(pipe.done))
  BY DEF Concluded
<1> DEFINE d == Len(pipe.done)
           n == Len(Arrived)
           b == Block(pipe)
<1>5. b = pipe.done[d] /\ b = Last(pipe.done) /\ b \in OneText /\ d >= 1 /\ d \in Nat
      /\ pipe.done \in Seq(OneText)
  BY <1>2, BlockIs, PipeFields
<1>6. \A i \in 1..d : pipe.done[i] # <<Banner>>
  BY <1>4, <1>5, FrontAndLast
<1>7. /\ n \in Nat /\ n >= d /\ DOMAIN Arrived = 1..n
      /\ \A i \in 1..d : Arrived[i] = pipe.done[i]
  <2>1. n = d + Len(wire) /\ d \in Nat /\ Len(wire) \in Nat /\ DOMAIN Arrived = 1..n
        /\ \A i \in 1..d : Arrived[i] = pipe.done[i]
    BY ArrivedIs
  <2> HIDE DEF d, n
  <2> QED
    BY <2>1
<1>8. Replies \in Nat /\ Replies >= n /\ pipe.owed \in Nat
  BY AdapterIs
<1>9. pipe.owed <= d
  BY <1>4, <1>8 DEF Satisfied
<1> HIDE DEF d, n, b
<1>10. NoBanner(d)
  BY <1>5, <1>6, <1>7 DEF NoBanner
<1>11. d \in 1..Replies /\ d \in DOMAIN Arrived /\ d \in 1..d
  BY <1>5, <1>7, <1>8
<1>12. d <= pipe.owed
  BY <1>3, <1>10, <1>11 DEF Counted
<1>13. pipe.owed = d
  BY <1>5, <1>8, <1>9, <1>12
<1>14. Own(t, d)
  BY <1>1, <1>3, <1>10, <1>11, <1>13 DEF Counted
<1>15. Tells(t, Arrived[d][1])
  BY <1>11, <1>14 DEF Own
<1>16. Arrived[d][1] = Last(b)
  BY <1>5, <1>7, <1>11, OneTextIs
<1> QED
  BY <1>3, <1>10, <1>13, <1>15, <1>16 DEF d, b

\* A satisfied collection leaves nothing behind but what a banner precedes; one that was
\* not leaves its debt; and what it makes of the cache is what the adapter holds.
LEMMA ConcludeFlight ==
    ASSUME SerialInv, SerialInv', FlightInv, NEW t \in Task, Conclude(t)
    PROVE  FlightInv'
<1> DEFINE kind == Kind(Block(pipe))
           answered == pipe.done # <<>>
<1>1. Concluded(t)
  BY ConcludedIs
<1>2. /\ local[t].at = "collect" /\ pipe' = Finish(pipe)
      /\ UNCHANGED <<link, header, adapter, wire>>
  BY <1>1 DEF Concluded
<1>3. Active(t) /\ Asking(t)
  BY <1>2 DEF Active, Asking
<1>4. /\ pipe \in Pipe /\ pipe.owed > 0 /\ cache \in Cache /\ Cmd(t) \in Command
      /\ \A u \in Task \ {t} : local[u].at = "idle"
  BY <1>2, <1>3, LedgerOf, Typed, CommandIs, OthersIdle DEF OtherTypes
<1>5. Quiet'
  <2>1. \/ Leaves(t)
        \/ \E l \in Local : Becomes(t, l) /\ l.at \in {"plan", "issue", "drain"}
    BY ConcludeLocals
  <2> QED
    BY <1>3, <2>1, QuietAfter
<1>6. SUFFICES ASSUME Calm' PROVE FlightInv'
  BY <1>5, FlightLost
<1>7. ~doubt' /\ ~doubt /\ ~reinit /\ kind # "banner" /\ cache' = Observe(cache, Cmd(t), kind, answered)
  BY <1>1, <1>6 DEF Calm, Concluded
<1>8. Calm
  <2>1. (\A u \in Task : local[u].at # "drain") /\ link # "dead"
    BY <1>2, NobodyDrains
  <2> QED
    BY <1>7, <2>1 DEF Calm
<1>9. pipe'.done = <<>> /\ pipe'.owed = IF answered THEN 0 ELSE pipe.owed
  BY <1>2, <1>4, FinishIs
<1>10. cache'.header = IF Cmd(t).op # "header" THEN cache.header
                       ELSE IF answered /\ kind # "refused" THEN Cmd(t).ecu ELSE Nobody
  <2>1. answered \in BOOLEAN
    OBVIOUS
  <2>2. cache' = Observe(cache, Cmd(t), kind, answered)
    BY <1>7
  <2> HIDE DEF answered, kind
  <2>3. Observe(cache, Cmd(t), kind, answered).header =
           IF Cmd(t).op # "header" THEN cache.header
           ELSE IF answered /\ kind # "refused" THEN Cmd(t).ecu ELSE Nobody
    BY <1>4, <2>1, ObserveHeader
  <2> QED
    BY <2>2, <2>3
<1>11. Header(t) <=> Cmd(t).op = "header"
  BY <1>2 DEF Header
<1>12. \A u \in Task \ {t} : ~Header(u)
  BY <1>4 DEF Header
<1>13. CASE ~answered
  <2>1. Arrived' = Arrived
    BY <1>2, <1>9, <1>13, ArrivedStays
  <2>2. cache'.header # Nobody => cache'.header = cache.header /\ \A u \in Task : ~Header(u)
    BY <1>10, <1>11, <1>12, <1>13
  <2> QED
    BY <1>2, <1>5, <1>8, <1>9, <1>13, <2>1, <2>2, FlightQuiet
<1>14. CASE answered
  <2> DEFINE d == Len(pipe.done)
             n == Len(Arrived')
  <2>1. Counted /\ pipe.owed = d /\ NoBanner(d) /\ Tells(t, Last(Block(pipe)))
    BY <1>1, <1>7, <1>14, SettledIs
  <2>2. /\ Len(Arrived) = d + n /\ Replies = d + Replies'
        /\ \A i \in 1..n : Arrived'[i] = Arrived[d + i]
    BY <1>2, <1>9, ArrivedSettled
  <2>3. /\ d \in Nat /\ DOMAIN Arrived = 1..Len(Arrived) /\ Len(Arrived) \in Nat
        /\ n \in Nat /\ DOMAIN Arrived' = 1..n
    BY ArrivedIs, ArrivedNext
  <2>4. /\ Replies' \in Nat /\ Replies' = n + Len(adapter') /\ Len(adapter') \in Nat
        /\ DOMAIN adapter' = 1..Len(adapter')
    BY AdapterNext
  <2> HIDE DEF d, n
  \* Anything more before a banner would be a reply nobody is owed.
  <2>5. \A i \in 1..Replies' : ~NoBanner(i)'
    <3> SUFFICES ASSUME NEW i \in 1..Replies', NoBanner(i)' PROVE FALSE
      OBVIOUS
    <3>1. d + i \in 1..Replies /\ i > 0
      BY <2>2, <2>3, <2>4
    <3>2. NoBanner(d + i)
      <4> SUFFICES ASSUME NEW k \in DOMAIN Arrived, k <= d + i PROVE Arrived[k] # <<Banner>>
        BY DEF NoBanner
      <4>1. CASE k <= d
        BY <2>1, <4>1 DEF NoBanner
      <4>2. CASE k > d
        <5>1. k - d \in 1..n /\ d + (k - d) = k /\ k - d <= i
          BY <2>2, <2>3, <2>4, <4>2
        <5>2. Arrived'[k - d] = Arrived[k]
          BY <2>2, <5>1
        <5>3. Arrived'[k - d] # <<Banner>>
          BY <2>3, <5>1 DEF NoBanner
        <5> QED
          BY <5>2, <5>3
      <4> QED
        BY <2>2, <2>3, <4>1, <4>2
    <3>3. d + i <= pipe.owed
      BY <2>1, <3>1, <3>2 DEF Counted
    <3> QED
      BY <2>1, <2>3, <2>4, <3>1, <3>3
  <2>6. ASSUME Replies' = 0 PROVE cache'.header = Nobody \/ header' = cache'.header
    <3>1. Len(Arrived) = d
      BY <2>2, <2>3, <2>4, <2>6
    <3>2. HeaderKnown
      BY <1>8, <2>1, <3>1 DEF FlightInv
    <3>3. CASE Cmd(t).op # "header"
      <4>1. \A u \in Task : ~Header(u)
        BY <1>11, <1>12, <3>3
      <4> QED
        BY <1>2, <1>10, <3>2, <3>3, <4>1 DEF HeaderKnown
    <3>4. CASE Cmd(t).op = "header" /\ kind = "refused"
      BY <1>10, <3>4
    <3>5. CASE Cmd(t).op = "header" /\ kind # "refused"
      <4>1. Last(Block(pipe)).kind = kind
        BY <1>4, <1>14, BlockIs
      <4>2. Cmd(t).ecu \notin Refused
        BY <2>1, <3>5, <4>1 DEF Tells
      <4>3. header = Cmd(t).ecu
        BY <1>11, <2>1, <3>1, <3>2, <3>5, <4>2 DEF HeaderKnown
      <4> QED
        BY <1>2, <1>10, <1>14, <3>5, <4>3
    <3> QED
      BY <3>3, <3>4, <3>5
  <2> QED
    BY <1>5, <2>3, <2>4, <2>5, <2>6, FlightBehind DEF n
<1> QED
  BY <1>13, <1>14

\* At the start nothing is on its way.
LEMMA FlightInit == Init => FlightInv
<1> SUFFICES ASSUME Init PROVE FlightInv
  OBVIOUS
<1>1. SerialInv
  BY SerialInit
<1>2. pipe.done = <<>> /\ wire = <<>> /\ adapter = <<>> /\ cache.header = Nobody
  BY FreshIs, UnknownIs DEF Init
<1>3. \A t \in Task : local[t].at = "idle"
  BY DEF Init, Idle
<1>4. Len(Arrived) = 0
  <2>1. Len(pipe.done) = 0 /\ Len(wire) = 0
    BY <1>2
  <2> QED
    BY <1>1, <2>1, ArrivedIs
<1>5. Replies = 0
  <2>1. Len(adapter) = 0
    BY <1>2
  <2> QED
    BY <1>4, <2>1 DEF Replies
<1>6. Counted
  BY <1>5 DEF Counted
<1>7. HeaderKnown
  BY <1>2, <1>3 DEF HeaderKnown, Header
<1>8. Probed
  BY <1>3 DEF Probed
<1> QED
  BY <1>6, <1>7, <1>8 DEF FlightInv

\* Up to the first banner nothing is on its way that the ledger does not count.
LEMMA FlightStep == TerminalInv /\ [Next]_vars => FlightInv'
<1> SUFFICES ASSUME SerialInv, FlightInv, [Next]_vars PROVE FlightInv'
  BY DEF TerminalInv
<1>1. SerialInv'
  BY SerialStep
<1>2. ASSUME NEW t \in Task, Enter(t) \/ TaskStep(t) \/ LinkDrops(t) PROVE FlightInv'
  BY <1>1, <1>2, EnterFlight, SetHeaderFlight, IssueFlight, ReceiveFlight, ConcludeFlight,
     DrainFlight, ProbeEndsFlight, LinkDropsFlight DEF TaskStep
<1>3. CASE UNCHANGED vars
  <2>1. UNCHANGED <<local, cache, reinit, link, header, adapter, doubt>> /\ pipe' = pipe /\ wire' = wire
    BY <1>3 DEF vars, taskVars, sharedVars, adapterVars
  <2>2. Arrived' = Arrived
    BY <2>1, ArrivedStays
  <2> QED
    BY <2>1, <2>2, FlightStands
<1>4. CASE Connect \/ Answers \/ Loses \/ ResetsItself
  BY <1>1, <1>4, ConnectFlight, AnswersFlight, LosesFlight, ResetsItselfFlight
<1> QED
  BY <1>2, <1>3, <1>4 DEF Next

-----------------------------------------------------------------------------
(* What it shows *)

\* The whole invariant: one task at a time, and up to the first banner the blocks on
\* their way are those the ledger counts (pipe.py _Ledger, terminal.py _cmd_lock).
THEOREM TerminalInvariant == Spec => []TerminalInv
<1>1. Init => TerminalInv
  BY SerialInit, FlightInit DEF TerminalInv
<1>2. TerminalInv /\ [Next]_vars => TerminalInv'
  BY SerialStep, FlightStep DEF TerminalInv
<1> QED
  BY <1>1, <1>2, PTL DEF Spec

\* Every variable of the terminal keeps its type: however many tasks share it and
\* whatever is lost, the prompts counted stay within the ceiling (pipe.py
\* MAX_OWED_PROMPTS), the rounds and tries within theirs.
THEOREM TypeCorrect == Spec => []TypeOK
<1>1. TerminalInv => TypeOK
  BY DEF TerminalInv, SerialInv
<1> QED
  BY <1>1, TerminalInvariant, PTL

\* Without a banner on its way the adapter is going to have the header that is believed.
LEMMA Coherent == TerminalInv => CacheCoherent
<1> SUFFICES ASSUME SerialInv, FlightInv, ~CacheCoherent PROVE FALSE
  BY DEF TerminalInv
<1>1. /\ cache.header # Nobody /\ Calm
      /\ Banner \notin Range(wire) /\ <<Banner>> \notin Range(pipe.done)
      /\ \A t \in Task : ~Header(t)
      /\ EffectiveHeader # cache.header
  BY DEF CacheCoherent, Calm, Header
<1> DEFINE d == Len(pipe.done)
           w == Len(wire)
<1>2. /\ Len(Arrived) = d + w /\ d \in Nat /\ w \in Nat /\ DOMAIN Arrived = 1..Len(Arrived)
      /\ \A i \in 1..d : Arrived[i] = pipe.done[i]
      /\ \A i \in 1..w : Arrived[d + i] = <<wire[i]>>
  BY ArrivedIs
<1>3. DOMAIN pipe.done = 1..d /\ DOMAIN wire = 1..w
  BY Typed, PipeFields DEF OtherTypes
<1> HIDE DEF d, w
<1>4. NoBanner(Len(Arrived))
  <2> SUFFICES ASSUME NEW k \in DOMAIN Arrived PROVE Arrived[k] # <<Banner>>
    BY DEF NoBanner
  <2>1. CASE k \in 1..d
    <3>1. pipe.done[k] # <<Banner>>
      BY <1>1, <1>3, <2>1 DEF Range
    <3> QED
      BY <1>2, <2>1, <3>1
  <2>2. CASE k \notin 1..d
    <3>1. k - d \in 1..w /\ d + (k - d) = k
      BY <1>2, <2>2
    <3>2. wire[k - d] # Banner
      BY <1>1, <1>3, <3>1 DEF Range
    <3>3. Arrived[k] = <<wire[k - d]>>
      BY <1>2, <3>1
    <3>4. <<wire[k - d]>>[1] = wire[k - d] /\ <<Banner>>[1] = Banner
      OBVIOUS
    <3> QED
      BY <3>2, <3>3, <3>4
  <2> QED
    BY <2>1, <2>2
<1>5. HeaderKnown
  BY <1>1, <1>4 DEF FlightInv
<1>6. header = cache.header /\ \A i \in DOMAIN adapter : ~SetsHeader(adapter[i])
  BY <1>1, <1>5 DEF HeaderKnown
<1>7. EffectiveHeader = header
  BY <1>6 DEF EffectiveHeader
<1> QED
  BY <1>1, <1>6, <1>7

\* What the terminal believes of the adapter's header is true, but for a reset it
\* cannot know of yet or a reply that was taken for another (addressing.py AdapterState).
THEOREM CacheIsCoherent == Spec => []CacheCoherent
BY Coherent, TerminalInvariant, PTL

\* A reply that is accepted, when track was not lost, is one of the ECU addressed.
LEMMA AcceptedOwn ==
    ASSUME TerminalInv, NEW t \in Task, Accepts(t), ~doubt', Satisfied(pipe),
           cache.header # Nobody
    PROVE  Last(Block(pipe)).ecu = local[t].goal
<1>1. SerialInv /\ FlightInv /\ Conclude(t) /\ Cmd(t).op = "request"
      /\ Verdict(t, Block(pipe)) = "ok"
  BY DEF TerminalInv, Accepts
<1>2. Kind(Block(pipe)) = "reply"
  BY <1>1 DEF Verdict
<1>3. Concluded(t) /\ local[t].at = "collect" /\ Active(t) /\ Asking(t)
  BY <1>1, ConcludedIs DEF Concluded, Active, Asking
<1>4. pipe \in Pipe /\ cache.header = local[t].goal
  <2>1. Fits(t, local[t])
    BY <1>1, <1>3, LocalsOf
  <2> QED
    BY <1>1, <1>3, <2>1, LedgerOf DEF Fits, Cmd
<1>5. pipe.done # <<>>
  BY <1>2, <1>4, BlockIs
<1>6. Tells(t, Last(Block(pipe))) /\ Last(Block(pipe)).kind = "reply"
  BY <1>1, <1>2, <1>3, <1>4, <1>5, SettledIs, BlockIs
<1> QED
  BY <1>1, <1>4, <1>6 DEF Tells

\* The transaction holds the header still: no task is given a reply of an ECU that
\* another one addressed (terminal.py transaction, set_header, send_uds).
THEOREM OwnEcuAnswers == Spec => AcceptedFromAddressed
<1> DEFINE A == \A t \in Task : Accepts(t) /\ ~doubt' /\ Satisfied(pipe) /\ cache.header # Nobody
                           => Last(Block(pipe)).ecu = local[t].goal
<1>1. TerminalInv => A
  BY AcceptedOwn
<1>2. TerminalInv /\ [Next]_vars => [A]_vars
  BY <1>1
<1>3. Spec => [][A]_vars
  BY <1>2, TerminalInvariant, PTL DEF Spec
<1> QED
  BY <1>3 DEF AcceptedFromAddressed
=============================================================================
