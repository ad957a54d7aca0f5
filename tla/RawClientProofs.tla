-------------------------- MODULE RawClientProofs --------------------------
(***************************************************************************)
(* The ledger of owed replies, for any ECUs, plans, ceilings and number of *)
(* faults: it covers what an ECU may still send as long as nothing put it  *)
(* in doubt, and so what a poll or a read returns is the reply to its own  *)
(* request.                                                                *)
(***************************************************************************)
EXTENDS RawClient, FiniteSetTheorems, SequenceTheorems, TLAPS

----------------------------------------------------------------------------
(* Counting the members of a queue that belong to a set. *)

\* An interval of numbers is finite and has its length.
LEMMA Interval ==
    ASSUME NEW n \in Nat
    PROVE  IsFiniteSet(1..n) /\ Cardinality(1..n) = n
  BY FS_Interval

\* The count of a queue is a number, at most the queue's length, and less when
\* a member is outside the set.
LEMMA CountBounds ==
    ASSUME NEW S, NEW s \in Seq(S), NEW A
    PROVE  /\ IsFiniteSet({i \in DOMAIN s : s[i] \in A})
           /\ Counted(s, A) \in Nat /\ Counted(s, A) <= Len(s)
           /\ \A i \in DOMAIN s : s[i] \notin A => Counted(s, A) <= Len(s) - 1
  <1> DEFINE C == {i \in DOMAIN s : s[i] \in A}
  <1>1. DOMAIN s = 1..Len(s) /\ Len(s) \in Nat
    OBVIOUS
  <1>2. IsFiniteSet(1..Len(s)) /\ Cardinality(1..Len(s)) = Len(s)
    BY <1>1, Interval
  <1>3. C \in SUBSET (1..Len(s))
    BY <1>1
  <1>4. IsFiniteSet(C) /\ Cardinality(C) <= Len(s) /\ (Cardinality(C) = Len(s) => C = 1..Len(s))
    BY <1>2, <1>3, FS_Subset
  <1>5. Cardinality(C) \in Nat
    BY <1>4, FS_CardinalityType
  <1>6. ASSUME NEW i \in DOMAIN s, s[i] \notin A
        PROVE  Cardinality(C) <= Len(s) - 1
    BY <1>1, <1>4, <1>5, <1>6
  <1>7. QED
    BY <1>4, <1>5, <1>6 DEF Counted

\* Two queues of one length that agree on membership count the same.
LEMMA CountSame ==
    ASSUME NEW S, NEW s \in Seq(S), NEW T, NEW t \in Seq(T), NEW A, NEW B, Len(s) = Len(t),
           \A i \in DOMAIN s : s[i] \in A <=> t[i] \in B
    PROVE  Counted(s, A) = Counted(t, B)
  <1>1. DOMAIN s = DOMAIN t
    OBVIOUS
  <1>2. {i \in DOMAIN s : s[i] \in A} = {i \in DOMAIN t : t[i] \in B}
    BY <1>1
  <1>3. QED
    BY <1>2 DEF Counted

\* Nothing is counted in an empty sequence.
LEMMA CountEmpty ==
    ASSUME NEW A
    PROVE  Counted(<<>>, A) = 0
  BY FS_EmptySet DEF Counted

\* A queue of members of the set only is counted whole; all but its last
\* member, and at most one is missing.
LEMMA CountAllButLast ==
    ASSUME NEW S, NEW s \in Seq(S), NEW A, \A i \in DOMAIN s : i # Len(s) => s[i] \in A
    PROVE  /\ Len(s) <= Counted(s, A) + 1
           /\ (s # <<>> => s[Len(s)] \in A) => Counted(s, A) = Len(s)
  <1> DEFINE C == {i \in DOMAIN s : s[i] \in A}
  <1>1. DOMAIN s = 1..Len(s) /\ Len(s) \in Nat
    OBVIOUS
  <1>2. IsFiniteSet(1..Len(s)) /\ Cardinality(1..Len(s)) = Len(s)
    BY <1>1, Interval
  <1>3. ASSUME s # <<>>
        PROVE  C \cup {Len(s)} = 1..Len(s)
    <2>1. Len(s) \in 1..Len(s) /\ C \subseteq 1..Len(s)
      BY <1>1, <1>3
    <2>2. \A i \in 1..Len(s) : i \in C \cup {Len(s)}
      BY <1>1
    <2>3. QED
      BY <2>1, <2>2
  <1>4. IsFiniteSet(C) /\ Cardinality(C) \in Nat
    BY CountBounds DEF Counted
  <1>5. \/ Cardinality(C \cup {Len(s)}) = Cardinality(C)
        \/ Cardinality(C \cup {Len(s)}) = Cardinality(C) + 1
    BY <1>4, FS_AddElement
  <1>6. Len(s) <= Cardinality(C) + 1
    <2> HIDE DEF C
    <2>1. CASE s = <<>>
      BY <1>4, <2>1
    <2>2. CASE s # <<>>
      <3>1. Cardinality(C \cup {Len(s)}) = Len(s)
        BY <1>2, <1>3, <2>2
      <3>2. Len(s) = Cardinality(C) \/ Len(s) = Cardinality(C) + 1
        BY <1>5, <3>1
      <3>3. QED
        BY <1>1, <1>4, <3>2
    <2>3. QED
      BY <2>1, <2>2
  <1>7. ASSUME s # <<>> => s[Len(s)] \in A
        PROVE  Cardinality(C) = Len(s)
    <2>1. \A i \in 1..Len(s) : i \in C
      BY <1>1, <1>7
    <2>2. C = 1..Len(s)
      BY <1>1, <2>1
    <2>3. QED
      BY <1>2, <2>2
  <1>8. QED
    BY <1>6, <1>7 DEF Counted

\* Appending counts one more if what is appended counts.
LEMMA CountAppend ==
    ASSUME NEW S, NEW s \in Seq(S), NEW x \in S, NEW A
    PROVE  Counted(Append(s, x), A) = Counted(s, A) + (IF x \in A THEN 1 ELSE 0)
  <1> DEFINE t == Append(s, x)
             C == {i \in DOMAIN s : s[i] \in A}
             D == {i \in DOMAIN t : t[i] \in A}
  <1>1. /\ DOMAIN s = 1..Len(s) /\ Len(s) \in Nat /\ DOMAIN t = 1..(Len(s) + 1)
        /\ t[Len(s) + 1] = x /\ \A i \in 1..Len(s) : t[i] = s[i]
    OBVIOUS
  <1>2. D = IF x \in A THEN C \cup {Len(s) + 1} ELSE C
    BY <1>1
  <1>3. IsFiniteSet(C) /\ Cardinality(C) \in Nat
    BY CountBounds DEF Counted
  <1>4. Len(s) + 1 \notin C
    BY <1>1
  <1>5. Cardinality(C \cup {Len(s) + 1}) = Cardinality(C) + 1
    BY <1>3, <1>4, FS_AddElement
  <1>6. Cardinality(D) = Cardinality(C) + (IF x \in A THEN 1 ELSE 0)
    <2> HIDE DEF C, D
    <2>1. QED
      BY <1>2, <1>3, <1>5
  <1>7. QED
    BY <1>6 DEF Counted

\* Taking the head counts one less if it counts.
LEMMA CountTail ==
    ASSUME NEW S, NEW s \in Seq(S), s # <<>>, NEW A
    PROVE  Counted(s, A) = Counted(Tail(s), A) + (IF Head(s) \in A THEN 1 ELSE 0)
  <1> DEFINE t == Tail(s)
             C == {i \in DOMAIN s : s[i] \in A}
             D == {i \in DOMAIN t : t[i] \in A}
             E == C \ {1}
             f == [i \in D |-> i + 1]
  <1>1. /\ DOMAIN s = 1..Len(s) /\ Len(s) \in Nat \ {0} /\ DOMAIN t = 1..(Len(s) - 1)
        /\ Head(s) = s[1] /\ \A i \in 1..(Len(s) - 1) : t[i] = s[i + 1]
    BY HeadTailProperties
  <1>2. t \in Seq(S)
    BY HeadTailProperties
  <1>3. IsFiniteSet(C) /\ Cardinality(C) \in Nat
    BY CountBounds DEF Counted
  <1>4. IsFiniteSet(D) /\ Cardinality(D) \in Nat
    BY <1>2, CountBounds DEF Counted
  <1>5. f \in Bijection(D, E)
    <2>1. f \in [D -> E]
      BY <1>1
    <2>2. \A i, j \in D : f[i] = f[j] => i = j
      BY <1>1
    <2>3. \A j \in E : \E i \in D : f[i] = j
      <3>1. SUFFICES ASSUME NEW j \in E
                     PROVE  \E i \in D : f[i] = j
        OBVIOUS
      <3>2. j - 1 \in D
        BY <1>1
      <3>3. f[j - 1] = j
        BY <1>1, <3>2
      <3>4. QED
        BY <3>2, <3>3
    <2>4. QED
      BY <2>1, <2>2, <2>3 DEF Bijection, Injection, Surjection, IsInjective
  <1>6. Cardinality(E) = Cardinality(D)
    BY <1>4, <1>5, FS_Bijection DEF ExistsBijection
  <1>7. Cardinality(E) = IF 1 \in C THEN Cardinality(C) - 1 ELSE Cardinality(C)
    BY <1>3, FS_RemoveElement
  <1>8. 1 \in C <=> Head(s) \in A
    BY <1>1
  <1>9. Cardinality(C) = Cardinality(D) + (IF Head(s) \in A THEN 1 ELSE 0)
    <2> HIDE DEF C, D, E
    <2>1. QED
      BY <1>3, <1>4, <1>6, <1>7, <1>8
  <1>10. QED
    BY <1>9 DEF Counted

----------------------------------------------------------------------------
(* The invariant.  A reply to the request now waiting is the last thing an
   ECU sends: nothing follows it on the bus or in the stack, and none is left
   when no request waits. *)

OwnLast(e) ==
    /\ \A i \in DOMAIN bus[e] : bus[e][i].own => i = Len(bus[e]) /\ asked[e] # Nothing
    /\ \A i \in DOMAIN stack[e] :
        stack[e][i].own =>
            /\ asked[e] # Nothing \/ phase = "down"
            /\ Final(stack[e][i]) => i = Len(stack[e]) /\ bus[e] = <<>>
OwnIsLast == \A e \in Ecu : OwnLast(e)

RawInv == TypeOK /\ OwnIsLast /\ LedgerCovers

\* A settled queue of requests keeps its length, and all of it is owed.
LEMMA EarlierRequests ==
    ASSUME NEW s \in Seq(Request)
    PROVE  /\ Earlier(s) \in Seq(Request) /\ Len(Earlier(s)) = Len(s)
           /\ \A i \in DOMAIN Earlier(s) : ~Earlier(s)[i].own
           /\ Counted(Earlier(s), GivenUp) = Len(s)
           /\ (Earlier(s) = <<>>) <=> (s = <<>>)
  <1>1. DOMAIN s = 1..Len(s) /\ Len(s) \in Nat /\ \A i \in DOMAIN s : s[i] \in Request
    OBVIOUS
  <1>2. \A i \in DOMAIN s : [s[i] EXCEPT !.own = FALSE] \in Request
                              /\ ~[s[i] EXCEPT !.own = FALSE].own
    BY <1>1 DEF Request
  <1>3. /\ Earlier(s) \in Seq(Request) /\ Len(Earlier(s)) = Len(s)
        /\ DOMAIN Earlier(s) = DOMAIN s
        /\ \A i \in DOMAIN Earlier(s) : Earlier(s)[i] \in Request /\ ~Earlier(s)[i].own
    <2>1. DOMAIN Earlier(s) = 1..Len(s)
      BY <1>1 DEF Earlier
    <2>2. \A i \in 1..Len(s) : Earlier(s)[i] = [s[i] EXCEPT !.own = FALSE]
      BY <1>1 DEF Earlier
    <2>3. Earlier(s) \in [1..Len(s) -> Request]
      BY <1>1, <1>2 DEF Earlier
    <2>4. Earlier(s) \in Seq(Request)
      BY <1>1, <2>3, SeqDef
    <2>5. Len(Earlier(s)) = Len(s)
      BY <1>1, <2>1, <2>4
    <2>6. QED
      BY <1>1, <1>2, <2>1, <2>2, <2>4, <2>5
  <1>4. \A i \in DOMAIN Earlier(s) : Earlier(s)[i] \in GivenUp
    BY <1>3 DEF GivenUp
  <1>5. Earlier(s) # <<>> => Earlier(s)[Len(Earlier(s))] \in GivenUp
    BY <1>1, <1>3, <1>4
  <1>6. Counted(Earlier(s), GivenUp) = Len(s)
    BY <1>3, <1>4, <1>5, CountAllButLast
  <1>7. QED
    BY <1>3, <1>6

\* Messages that have become answers to an earlier request are as many as before.
LEMMA EarlierMessages ==
    ASSUME NEW s \in Seq(Message)
    PROVE  /\ Earlier(s) \in Seq(Message) /\ Len(Earlier(s)) = Len(s)
           /\ \A i \in DOMAIN Earlier(s) : ~Earlier(s)[i].own
           /\ (Earlier(s) = <<>>) <=> (s = <<>>)
  <1>1. DOMAIN s = 1..Len(s) /\ Len(s) \in Nat /\ \A i \in DOMAIN s : s[i] \in Message
    OBVIOUS
  <1>2. \A i \in DOMAIN s : [s[i] EXCEPT !.own = FALSE] \in Message
                              /\ ~[s[i] EXCEPT !.own = FALSE].own
    BY <1>1 DEF Message
  <1>3. /\ Earlier(s) \in Seq(Message) /\ Len(Earlier(s)) = Len(s)
        /\ DOMAIN Earlier(s) = DOMAIN s
        /\ \A i \in DOMAIN Earlier(s) : ~Earlier(s)[i].own
    <2>1. DOMAIN Earlier(s) = 1..Len(s)
      BY <1>1 DEF Earlier
    <2>2. \A i \in 1..Len(s) : Earlier(s)[i] = [s[i] EXCEPT !.own = FALSE]
      BY <1>1 DEF Earlier
    <2>3. Earlier(s) \in [1..Len(s) -> Message]
      BY <1>1, <1>2 DEF Earlier
    <2>4. Earlier(s) \in Seq(Message)
      BY <1>1, <2>3, SeqDef
    <2>5. Len(Earlier(s)) = Len(s)
      BY <1>1, <2>1, <2>4
    <2>6. QED
      BY <1>1, <1>2, <2>1, <2>2, <2>4, <2>5
  <1>4. QED
    BY <1>3

\* The ceiling is a number.
LEMMA Bounds ==
    /\ MaxOwed \in Nat \ {0} /\ MaxFaults \in Nat /\ 0 \in 0..(MaxOwed - 1)
    /\ \A n \in 0..(MaxOwed - 1) : n \in Nat
  BY RawAssumption

\* Paying and adding a debt stay under the ceiling, and are exact unless they void the ledger.
LEMMA LedgerTyped ==
    ASSUME NEW n \in 0..(MaxOwed - 1), NEW k \in Nat
    PROVE  /\ Minus(n, k) \in 0..(MaxOwed - 1) /\ Abandon(n) \in 0..(MaxOwed - 1)
           /\ \A b \in Nat : b + k <= n => b <= Minus(n, k)
           /\ Abandon(n) # 0 => Abandon(n) = n + 1
  BY RawAssumption DEF Minus, Abandon

----------------------------------------------------------------------------
(* The steps keep it. *)

QueueTypes ==
    /\ asked \in [Ecu -> Waiting \cup {Nothing}]
    /\ bus \in [Ecu -> Seq(Request)]
    /\ stack \in [Ecu -> Seq(Message)]
    /\ owed \in [Ecu -> 0..(MaxOwed - 1)]
    /\ doubt \subseteq Ecu

\* With nothing asked, everything in the queues answers a request given up.
LEMMA IdleQueues ==
    ASSUME RawInv, phase # "down", NEW e \in Ecu, asked[e] = Nothing
    PROVE  /\ \A i \in DOMAIN bus[e] : ~bus[e][i].own
           /\ \A i \in DOMAIN stack[e] : ~stack[e][i].own
           /\ Counted(bus[e], GivenUp) = Len(bus[e])
           /\ (\A m \in Range(stack[e]) : Final(m)) => Counted(stack[e], LateReply) = Len(stack[e])
  <1>1. bus[e] \in Seq(Request) /\ stack[e] \in Seq(Message)
    BY DEF RawInv, TypeOK
  <1>2. /\ \A i \in DOMAIN bus[e] : ~bus[e][i].own
        /\ \A i \in DOMAIN stack[e] : ~stack[e][i].own
    BY DEF RawInv, OwnIsLast, OwnLast
  <1>3. \A i \in DOMAIN bus[e] : bus[e][i] \in GivenUp
    BY <1>1, <1>2 DEF GivenUp
  <1>4. Counted(bus[e], GivenUp) = Len(bus[e])
    <2>1. bus[e] # <<>> => bus[e][Len(bus[e])] \in GivenUp
      BY <1>1, <1>3
    <2>2. QED
      BY <1>1, <1>3, <2>1, CountAllButLast
  <1>5. ASSUME \A m \in Range(stack[e]) : Final(m)
        PROVE  Counted(stack[e], LateReply) = Len(stack[e])
    <2>1. \A i \in DOMAIN stack[e] : Final(stack[e][i])
      BY <1>5 DEF Range
    <2>2. \A i \in DOMAIN stack[e] : stack[e][i] \in LateReply
      BY <1>1, <1>2, <2>1 DEF LateReply
    <2>3. stack[e] # <<>> => stack[e][Len(stack[e])] \in LateReply
      BY <1>1, <2>2
    <2>4. QED
      BY <1>1, <2>2, <2>3, CountAllButLast
  <1>6. QED
    BY <1>2, <1>4, <1>5

\* A new request goes out behind the debts: the queue that is drained pays one
\* debt a message, and the ones still on the bus are what is left of them.
LEMMA SendKeeps ==
    ASSUME RawInv, phase # "down", Idle, NEW S \in SUBSET Ecu, NEW req, NEW how \in {"read", "poll"},
           \A e \in S : req[e] \in Pid, Send(S, req, how)
    PROVE  QueueTypes' /\ OwnIsLast' /\ LedgerCovers'
  <1>1. \A e \in Ecu : /\ bus[e] \in Seq(Request) /\ stack[e] \in Seq(Message)
                       /\ asked[e] = Nothing /\ owed[e] \in 0..(MaxOwed - 1)
    BY DEF RawInv, TypeOK, Idle
  <1>2. /\ asked' \in [Ecu -> Waiting \cup {Nothing}] /\ stack' \in [Ecu -> Seq(Message)]
        /\ owed' \in [Ecu -> 0..(MaxOwed - 1)] /\ doubt' \subseteq Ecu
    <2>1. asked' \in [Ecu -> Waiting \cup {Nothing}]
      BY <1>1 DEF Send, RawInv, TypeOK, Waiting
    <2>2. stack' \in [Ecu -> Seq(Message)]
      BY <1>1 DEF Send
    <2>3. \A e \in Ecu : Minus(owed[e], Len(stack[e])) \in 0..(MaxOwed - 1)
      <3>1. \A e \in Ecu : Len(stack[e]) \in Nat
        BY <1>1
      <3>2. QED
        BY <1>1, <3>1, LedgerTyped
    <2>4. owed' \in [Ecu -> 0..(MaxOwed - 1)]
      BY <1>1, <2>3 DEF Send
    <2>5. doubt' \subseteq Ecu
      BY DEF Send, RawInv, TypeOK
    <2>6. QED
      BY <2>1, <2>2, <2>4, <2>5
  <1>3. ASSUME NEW e \in S
        PROVE  /\ bus'[e] \in Seq(Request) /\ asked'[e] # Nothing /\ stack'[e] = <<>>
               /\ \A i \in DOMAIN bus'[e] : bus'[e][i].own => i = Len(bus'[e])
               /\ Counted(bus'[e], GivenUp) = Len(bus[e]) /\ Counted(stack'[e], LateReply) = 0
    <2> DEFINE r == [pid |-> req[e], own |-> TRUE, acked |-> FALSE]
    <2>1. bus'[e] = Append(Earlier(bus[e]), r) /\ stack'[e] = <<>>
      BY DEF Send
    <2>2. r \in Request /\ r \notin GivenUp
      BY DEF Request, GivenUp
    <2>3. /\ Earlier(bus[e]) \in Seq(Request) /\ Len(Earlier(bus[e])) = Len(bus[e])
          /\ \A i \in DOMAIN Earlier(bus[e]) : ~Earlier(bus[e])[i].own
          /\ Counted(Earlier(bus[e]), GivenUp) = Len(bus[e])
      BY <1>1, EarlierRequests
    <2>4. Counted(bus'[e], GivenUp) = Len(bus[e])
      BY <1>1, <2>1, <2>2, <2>3, CountAppend
    <2>5. bus'[e] \in Seq(Request) /\ \A i \in DOMAIN bus'[e] : bus'[e][i].own => i = Len(bus'[e])
      <3> HIDE DEF r
      <3>1. QED
        BY <2>1, <2>2, <2>3
    <2>6. asked'[e] # Nothing
      BY DEF Send, Nothing
    <2>7. QED
      BY <2>1, <2>4, <2>5, <2>6, CountEmpty
  <1>4. ASSUME NEW e \in Ecu \ S
        PROVE  bus'[e] = bus[e] /\ stack'[e] = stack[e] /\ owed'[e] = owed[e]
               /\ (e \in doubt => e \in doubt')
    BY DEF Send
  <1>5. QueueTypes'
    <2>1. bus' \in [Ecu -> Seq(Request)]
      <3>1. DOMAIN bus' = Ecu /\ \A e \in Ecu : bus'[e] \in Seq(Request)
        BY <1>1, <1>3, <1>4 DEF Send
      <3>2. QED
        BY <3>1 DEF Send
    <2>2. QED
      BY <1>2, <2>1 DEF QueueTypes
  <1>6. OwnIsLast'
    <2>1. ASSUME NEW e \in Ecu
          PROVE  /\ \A i \in DOMAIN bus'[e] : bus'[e][i].own => i = Len(bus'[e]) /\ asked'[e] # Nothing
                 /\ \A i \in DOMAIN stack'[e] : ~stack'[e][i].own
      <3>1. CASE e \in S
        BY <1>3, <3>1
      <3>2. CASE e \notin S
        BY <1>1, <1>4, <3>2, IdleQueues
      <3>3. QED
        BY <3>1, <3>2
    <2>2. QED
      BY <2>1 DEF OwnIsLast, OwnLast
  <1>7. LedgerCovers'
    <2>1. SUFFICES ASSUME NEW e \in Ecu, e \notin doubt'
                   PROVE  Debts(e)' <= owed'[e]
      BY DEF LedgerCovers
    <2>2. CASE e \notin S
      BY <1>4, <2>1, <2>2 DEF Debts, RawInv, LedgerCovers
    <2>3. CASE e \in S
      <3>A. owed'[e] = Minus(owed[e], Len(stack[e])) /\ Len(bus[e]) \in Nat /\ Len(stack[e]) \in Nat
        BY <1>1, <2>3 DEF Send
      <3>B. Debts(e)' = Counted(bus'[e], GivenUp) + Counted(stack'[e], LateReply)
        BY DEF Debts
      <3>1. Debts(e)' = Len(bus[e])
        BY <1>3, <2>3, <3>A, <3>B
      <3>2. CASE bus[e] = <<>>
        <4>1. owed'[e] \in Nat /\ Len(bus[e]) = 0
          BY <1>1, <3>2, <3>A, LedgerTyped
        <4>2. QED
          BY <3>1, <4>1
      <3>3. CASE bus[e] # <<>>
        <4>1. e \notin doubt /\ \A m \in Range(stack[e]) : Final(m)
          BY <2>1, <2>3, <3>3 DEF Send
        <4>2. Debts(e) = Len(bus[e]) + Len(stack[e]) /\ Debts(e) <= owed[e]
          BY <1>1, <4>1, IdleQueues DEF Debts, RawInv, LedgerCovers
        <4>3. owed[e] \in Nat
          BY <1>1, RawAssumption
        <4>4. Len(bus[e]) + Len(stack[e]) <= owed[e]
          BY <4>2
        <4>5. Len(bus[e]) <= Minus(owed[e], Len(stack[e]))
          BY <1>1, <3>A, <4>4, LedgerTyped
        <4>6. QED
          BY <3>1, <3>A, <4>5
      <3>4. QED
        BY <3>2, <3>3
    <2>4. QED
      BY <2>2, <2>3
  <1>8. QED
    BY <1>5, <1>6, <1>7

\* A read sends one request to its ECU.
LEMMA ReadKeeps ==
    ASSUME RawInv, NEW e \in Ecu, Read(e)
    PROVE  RawInv'
  <1>1. phase # "down" /\ Idle /\ Send({e}, todo, "read") /\ todo[e] \in Pid
    BY DEF Read, RawInv, TypeOK
  <1>2. QueueTypes' /\ OwnIsLast' /\ LedgerCovers'
    BY <1>1, SendKeeps
  <1>3. QED
    BY <1>2 DEF Read, RawInv, TypeOK, QueueTypes

\* A round sends one request to each ECU with something due.
LEMMA StartRoundKeeps ==
    ASSUME RawInv, StartRound
    PROVE  RawInv'
  <1> DEFINE S == {e \in Ecu : queue[e] # <<>>}
             req == [e \in S |-> Head(queue[e])]
  <1>1. phase # "down" /\ Idle /\ Send(S, req, "poll")
    BY DEF StartRound
  <1>2. \A e \in Ecu : queue[e] \in Seq(Planned)
    BY DEF RawInv, TypeOK
  <1>3. \A e \in S : req[e] \in Pid
    BY <1>2 DEF Pid
  <1>4. QueueTypes' /\ OwnIsLast' /\ LedgerCovers'
    <2> HIDE DEF req
    <2>1. S \in SUBSET Ecu
      OBVIOUS
    <2> HIDE DEF S
    <2>2. QED
      BY <1>1, <1>3, <2>1, SendKeeps
  <1>5. queue' \in [Ecu -> Seq(Planned)]
    BY <1>2 DEF StartRound
  <1>6. QED
    BY <1>4, <1>5 DEF StartRound, RawInv, TypeOK, QueueTypes

\* The first request of a plan is one.
LEMMA FirstPlanned == \A e \in Ecu : Head(Plan[e]) \in Pid
  <1>1. \A e \in Ecu : Plan[e] \in Seq(Planned) /\ Plan[e] # <<>>
    BY RawAssumption
  <1>2. QED
    BY <1>1, HeadTailProperties DEF Pid

\* Steps that touch neither the queues nor the ledger.
LEMMA MonitorKeeps ==
    ASSUME RawInv, StartWarmUp \/ StartPoll \/ EndPoll
    PROVE  RawInv'
  <1>1. UNCHANGED <<asked, bus, stack, owed, doubt>>
    BY DEF StartWarmUp, StartPoll, EndPoll
  <1>2. LedgerCovers'
    BY <1>1 DEF RawInv, LedgerCovers, Debts
  <1>3. OwnIsLast'
    <2>1. CASE phase # "down" /\ Idle
      <3>1. \A e \in Ecu : /\ \A i \in DOMAIN bus[e] : ~bus[e][i].own
                           /\ \A i \in DOMAIN stack[e] : ~stack[e][i].own
        BY <2>1, IdleQueues DEF Idle
      <3>2. bus' = bus /\ stack' = stack
        BY <1>1
      <3>3. ASSUME NEW e \in Ecu
            PROVE  /\ \A i \in DOMAIN bus'[e] :
                        bus'[e][i].own => i = Len(bus'[e]) /\ asked'[e] # Nothing
                   /\ \A i \in DOMAIN stack'[e] : ~stack'[e][i].own
        BY <3>1, <3>2
      <3>4. QED
        BY <3>3 DEF OwnIsLast, OwnLast
    <2>2. QED
      BY <2>1 DEF StartWarmUp, StartPoll, EndPoll
  <1>4. TypeOK'
    <2>1. CASE StartPoll
      <3>1. \A e \in Ecu : Plan[e] \in Seq(Planned) /\ <<>> \in Seq(Planned)
        BY RawAssumption
      <3>2. queue' \in [Ecu -> Seq(Planned)] /\ due' \subseteq Ecu
        BY <2>1, <3>1 DEF StartPoll
      <3>3. QED
        BY <1>1, <2>1, <3>2 DEF StartPoll, RawInv, TypeOK
    <2>2. CASE EndPoll
      <3>1. \A e \in Ecu : Count(e) \in 0..DeadLimit
        BY RawAssumption DEF Count, RawInv, TypeOK
      <3>2. unanswered' \in [Ecu -> 0..DeadLimit] /\ phase' \in {"ready", "down"}
        <4>1. 0 \in 0..DeadLimit /\ unanswered \in [Ecu -> 0..DeadLimit]
          BY RawAssumption DEF RawInv, TypeOK
        <4>2. phase' \in {"ready", "down"}
          BY <2>2 DEF EndPoll
        <4>3. \/ unanswered' = [e \in Ecu |-> 0]
              \/ unanswered' = [e \in Ecu |-> IF e \in due THEN Count(e) ELSE unanswered[e]]
          BY <2>2 DEF EndPoll
        <4>4. QED
          BY <3>1, <4>1, <4>2, <4>3
      <3>3. DOMAIN todo' \subseteq Ecu /\ \A e \in DOMAIN todo' : todo'[e] \in Pid
        <4>1. PICK S \in SUBSET Held : todo' = IF phase' = "down" THEN NoReads
                                                ELSE [e \in S |-> KeepAlive]
          BY <2>2 DEF EndPoll
        <4>2. DOMAIN todo' \subseteq S /\ \A e \in DOMAIN todo' : todo'[e] = KeepAlive
          <5>1. CASE phase' = "down"
            BY <4>1, <5>1 DEF NoReads
          <5>2. CASE phase' # "down"
            BY <4>1, <5>2
          <5>3. QED
            BY <5>1, <5>2
        <4>3. S \subseteq Ecu /\ KeepAlive \in Pid
          BY <4>1, RawAssumption DEF Pid, Unechoed
        <4>4. QED
          BY <4>2, <4>3
      <3>4. QED
        BY <1>1, <2>2, <3>2, <3>3 DEF EndPoll, RawInv, TypeOK
    <2>3. CASE StartWarmUp
      <3>1. DOMAIN todo' = Ecu /\ \A e \in Ecu : todo'[e] \in Pid
        BY <2>3, FirstPlanned DEF StartWarmUp, WarmUp
      <3>2. QED
        BY <1>1, <2>3, <3>1 DEF StartWarmUp, RawInv, TypeOK
    <2>4. QED
      BY <2>1, <2>2, <2>3
  <1>5. QED
    BY <1>2, <1>3, <1>4 DEF RawInv

OneEcuOnly(e) ==
    \A f \in Ecu \ {e} :
        /\ bus'[f] = bus[f] /\ stack'[f] = stack[f]
        /\ asked'[f] = asked[f] /\ owed'[f] = owed[f]
        /\ f \in doubt => f \in doubt'

\* A step of one ECU leaves the queues and the debts of the others.
LEMMA OneEcu ==
    ASSUME RawInv, NEW e \in Ecu, OwnLast(e)', e \notin doubt' => Debts(e)' <= owed'[e],
           phase' = phase,
           OneEcuOnly(e)
    PROVE  OwnIsLast' /\ LedgerCovers'
  <1>1. ASSUME NEW f \in Ecu
        PROVE  OwnLast(f)' /\ (f \notin doubt' => Debts(f)' <= owed'[f])
    <2>1. CASE f = e
      BY <2>1
    <2>2. CASE f # e
      <3>1. /\ bus'[f] = bus[f] /\ stack'[f] = stack[f]
            /\ asked'[f] = asked[f] /\ owed'[f] = owed[f]
            /\ f \notin doubt' => f \notin doubt
        BY <2>2 DEF OneEcuOnly
      <3>2. OwnLast(f) /\ (f \notin doubt => Debts(f) <= owed[f])
        BY DEF RawInv, OwnIsLast, LedgerCovers
      <3>3. OwnLast(f)'
        BY <3>1, <3>2 DEF OwnLast
      <3>4. f \notin doubt' => Debts(f)' <= owed'[f]
        BY <3>1, <3>2 DEF Debts
      <3>5. QED
        BY <3>3, <3>4
    <2>3. QED
      BY <2>1, <2>2
  <1>2. QED
    BY <1>1 DEF OwnIsLast, LedgerCovers

\* What the harvest takes off a stack leaves behind it.
LEMMA HarvestQueues ==
    ASSUME RawInv, NEW e \in Ecu, NEW m, Harvest(e, m)
    PROVE  /\ m \in Message /\ m = stack[e][1] /\ 1 \in DOMAIN stack[e]
           /\ Tail(stack[e]) \in Seq(Message) /\ Len(Tail(stack[e])) = Len(stack[e]) - 1
           /\ \A i \in DOMAIN Tail(stack[e]) :
                Tail(stack[e])[i].own /\ Final(Tail(stack[e])[i])
                    => i = Len(Tail(stack[e])) /\ bus[e] = <<>>
           /\ m.own /\ Final(m) => Tail(stack[e]) = <<>> /\ bus[e] = <<>>
           /\ Counted(stack[e], LateReply)
                = Counted(Tail(stack[e]), LateReply) + (IF m \in LateReply THEN 1 ELSE 0)
           /\ Counted(bus[e], GivenUp) \in Nat /\ Counted(Tail(stack[e]), LateReply) \in Nat
           /\ bus[e] \in Seq(Request) /\ owed[e] \in 0..(MaxOwed - 1) /\ owed[e] \in Nat
  <1>1. /\ stack[e] \in Seq(Message) /\ bus[e] \in Seq(Request) /\ owed[e] \in 0..(MaxOwed - 1)
        /\ stack[e] # <<>> /\ m = Head(stack[e])
    BY DEF Harvest, RawInv, TypeOK
  <1>2. owed[e] \in Nat
    BY <1>1, RawAssumption
  <1>3. /\ Tail(stack[e]) \in Seq(Message) /\ Len(Tail(stack[e])) = Len(stack[e]) - 1
        /\ m \in Message /\ m = stack[e][1] /\ 1 \in DOMAIN stack[e]
        /\ DOMAIN stack[e] = 1..Len(stack[e]) /\ Len(stack[e]) \in Nat
    BY <1>1, HeadTailProperties
  <1>4. ASSUME NEW i \in DOMAIN Tail(stack[e]),
               Tail(stack[e])[i].own, Final(Tail(stack[e])[i])
        PROVE  i = Len(Tail(stack[e])) /\ bus[e] = <<>>
    <2>1. i \in Nat /\ i + 1 \in DOMAIN stack[e] /\ Tail(stack[e])[i] = stack[e][i + 1]
      BY <1>1, <1>3, HeadTailProperties
    <2>2. i + 1 = Len(stack[e]) /\ bus[e] = <<>>
      BY <1>4, <2>1 DEF RawInv, OwnIsLast, OwnLast
    <2>3. QED
      BY <1>3, <2>1, <2>2
  <1>5. ASSUME m.own, Final(m)
        PROVE  Tail(stack[e]) = <<>> /\ bus[e] = <<>>
    <2>1. Len(stack[e]) = 1 /\ bus[e] = <<>>
      BY <1>3, <1>5 DEF RawInv, OwnIsLast, OwnLast
    <2>2. Len(Tail(stack[e])) = 0
      BY <1>3, <2>1
    <2>3. QED
      BY <1>3, <2>1, <2>2, EmptySeq
  <1>6. Counted(stack[e], LateReply)
            = Counted(Tail(stack[e]), LateReply) + (IF m \in LateReply THEN 1 ELSE 0)
    BY <1>1, CountTail
  <1>7. Counted(bus[e], GivenUp) \in Nat /\ Counted(Tail(stack[e]), LateReply) \in Nat
    BY <1>1, <1>3, CountBounds
  <1>8. QED
    BY <1>1, <1>2, <1>3, <1>4, <1>5, <1>6, <1>7

\* A ResponsePending taken for the waiting request pays no debt.
LEMMA TakePendingKeeps ==
    ASSUME RawInv, NEW e \in Ecu, TakePending(e)
    PROVE  RawInv'
  <1>1. PICK m \in Message :
          /\ Harvest(e, m) /\ m.kind = "pending"
          /\ stack' = [stack EXCEPT ![e] = Tail(@)]
          /\ asked' = [asked EXCEPT ![e].acked = TRUE]
          /\ UNCHANGED <<phase, todo, due, queue, bus, owed, cycleAnswered, unanswered,
                         doubt, faults>>
    BY DEF TakePending, IsPending
  <1>2. stack'[e] = Tail(stack[e]) /\ bus'[e] = bus[e] /\ owed'[e] = owed[e] /\ doubt' = doubt
    BY <1>1 DEF RawInv, TypeOK
  <1>3. asked[e] \in Waiting
    BY <1>1 DEF Harvest, RawInv, TypeOK
  <1>4. asked' \in [Ecu -> Waiting \cup {Nothing}] /\ asked'[e] # Nothing
    BY <1>1, <1>3 DEF RawInv, TypeOK, Waiting, Nothing
  <1>5. TypeOK'
    BY <1>1, <1>4, HarvestQueues DEF RawInv, TypeOK
  <1>6. OwnLast(e)'
    <2>1. \A i \in DOMAIN stack'[e] : stack'[e][i].own /\ Final(stack'[e][i])
            => i = Len(stack'[e]) /\ bus'[e] = <<>>
      BY <1>1, <1>2, HarvestQueues
    <2>2. QED
      BY <1>2, <1>4, <2>1 DEF RawInv, OwnIsLast, OwnLast
  <1>7. e \notin doubt' => Debts(e)' <= owed'[e]
    <2>1. m \notin LateReply
      BY <1>1 DEF LateReply, Final
    <2>2. Debts(e)' = Debts(e)
      BY <1>1, <1>2, <2>1, HarvestQueues DEF Debts
    <2>3. QED
      BY <1>2, <2>2 DEF RawInv, LedgerCovers
  <1>8. OneEcuOnly(e)
    BY <1>1 DEF OneEcuOnly, RawInv, TypeOK
  <1>9. QED
    BY <1>1, <1>5, <1>6, <1>7, <1>8, OneEcu DEF RawInv

\* A reply taken as an earlier request's pays one debt.
LEMMA TakeStaleKeeps ==
    ASSUME RawInv, NEW e \in Ecu, TakeStale(e)
    PROVE  RawInv'
  <1>1. PICK m \in Message :
          /\ Harvest(e, m)
          /\ stack' = [stack EXCEPT ![e] = Tail(@)]
          /\ owed' = [owed EXCEPT ![e] = Minus(@, 1)]
          /\ doubt' = IF ~Final(m) THEN doubt \cup {e} ELSE doubt
          /\ UNCHANGED <<phase, todo, due, queue, asked, bus, cycleAnswered, unanswered, faults>>
    BY DEF TakeStale
  <1>2. stack'[e] = Tail(stack[e]) /\ bus'[e] = bus[e] /\ owed'[e] = Minus(owed[e], 1)
    BY <1>1 DEF RawInv, TypeOK
  <1>3. asked'[e] # Nothing /\ asked' = asked
    BY <1>1 DEF Harvest
  <1>4. Minus(owed[e], 1) \in 0..(MaxOwed - 1) /\ Minus(owed[e], 1) \in Nat
    <2>1. owed[e] \in 0..(MaxOwed - 1) /\ 1 \in Nat
      BY <1>1, HarvestQueues
    <2>2. Minus(owed[e], 1) \in 0..(MaxOwed - 1)
      BY <2>1, LedgerTyped
    <2>3. QED
      BY <2>2, RawAssumption
  <1>5. TypeOK'
    BY <1>1, <1>4, HarvestQueues DEF RawInv, TypeOK
  <1>6. OwnLast(e)'
    <2>1. \A i \in DOMAIN stack'[e] : stack'[e][i].own /\ Final(stack'[e][i])
            => i = Len(stack'[e]) /\ bus'[e] = <<>>
      BY <1>1, <1>2, HarvestQueues
    <2>2. QED
      BY <1>2, <1>3, <2>1 DEF RawInv, OwnIsLast, OwnLast
  <1>7. e \notin doubt' => Debts(e)' <= owed'[e]
    <2>1. SUFFICES ASSUME e \notin doubt'
                   PROVE  Debts(e)' <= owed'[e]
      OBVIOUS
    <2>2. Final(m) /\ Debts(e) <= owed[e]
      BY <1>1, <2>1 DEF RawInv, LedgerCovers
    <2>3. CASE m.own
      <3>1. Debts(e)' = Counted(<<>>, GivenUp) + Counted(<<>>, LateReply)
        BY <1>1, <1>2, <2>2, <2>3, HarvestQueues DEF Debts
      <3>2. Debts(e)' = 0
        BY <3>1, CountEmpty
      <3>3. QED
        BY <1>2, <1>4, <3>2
    <2>4. CASE ~m.own
      <3>1. m \in LateReply
        BY <1>1, <2>2, <2>4 DEF LateReply
      <3>2. Debts(e) = Debts(e)' + 1 /\ Debts(e)' \in Nat
        BY <1>1, <1>2, <3>1, HarvestQueues DEF Debts
      <3>3. Debts(e)' <= Minus(owed[e], 1)
        BY <1>1, <2>2, <3>2, HarvestQueues, LedgerTyped
      <3>4. QED
        BY <1>2, <3>3
    <2>5. QED
      BY <2>3, <2>4
  <1>8. OneEcuOnly(e)
    BY <1>1 DEF OneEcuOnly, RawInv, TypeOK
  <1>9. QED
    BY <1>1, <1>5, <1>6, <1>7, <1>8, OneEcu DEF RawInv

\* A settled request leaves no reply of its own behind, and clears the phase's
\* part of the state of one ECU only.
LEMMA SettleQueues ==
    ASSUME RawInv, NEW e \in Ecu, NEW pending \in Seq(Message), NEW answered \in BOOLEAN,
           Settle(e, pending, answered)
    PROVE  /\ asked' \in [Ecu -> Waiting \cup {Nothing}] /\ bus' \in [Ecu -> Seq(Request)]
           /\ stack' \in [Ecu -> Seq(Message)] /\ cycleAnswered' \in BOOLEAN
           /\ OwnLast(e)'
           /\ Counted(bus'[e], GivenUp) = Len(bus[e]) /\ Len(bus[e]) \in Nat
           /\ pending = <<>> => Counted(stack'[e], LateReply) = 0
           /\ \A f \in Ecu \ {e} : bus'[f] = bus[f] /\ stack'[f] = stack[f] /\ asked'[f] = asked[f]
           /\ UNCHANGED <<phase, todo, due, queue, unanswered>>
  <1>1. bus[e] \in Seq(Request) /\ Len(bus[e]) \in Nat
    BY DEF RawInv, TypeOK
  <1>2. bus'[e] = Earlier(bus[e]) /\ stack'[e] = Earlier(pending)
    BY DEF Settle, RawInv, TypeOK
  <1>3. /\ bus'[e] \in Seq(Request) /\ Counted(bus'[e], GivenUp) = Len(bus[e])
        /\ \A i \in DOMAIN bus'[e] : ~bus'[e][i].own
    BY <1>1, <1>2, EarlierRequests
  <1>4. /\ stack'[e] \in Seq(Message) /\ \A i \in DOMAIN stack'[e] : ~stack'[e][i].own
        /\ pending = <<>> => stack'[e] = <<>>
    BY <1>2, EarlierMessages
  <1>5. OwnLast(e)'
    BY <1>3, <1>4 DEF OwnLast
  <1>6. /\ asked' \in [Ecu -> Waiting \cup {Nothing}] /\ cycleAnswered' \in BOOLEAN
        /\ bus' \in [Ecu -> Seq(Request)] /\ stack' \in [Ecu -> Seq(Message)]
    BY <1>2, <1>3, <1>4 DEF Settle, RawInv, TypeOK
  <1>7. \A f \in Ecu \ {e} : bus'[f] = bus[f] /\ stack'[f] = stack[f] /\ asked'[f] = asked[f]
    BY DEF Settle, RawInv, TypeOK
  <1>8. pending = <<>> => Counted(stack'[e], LateReply) = 0
    BY <1>4, CountEmpty
  <1>9. QED
    BY <1>1, <1>3, <1>5, <1>6, <1>7, <1>8 DEF Settle

\* A message that is served leaves the ledger at zero: right when the message
\* is the reply to the request, for then nothing else is on its way.
LEMMA ServeKeeps ==
    ASSUME RawInv, NEW e \in Ecu, Serve(e)
    PROVE  RawInv'
  <1>1. PICK m \in Message :
          /\ Harvest(e, m) /\ ~IsPending(m, asked[e].pid) /\ ~Stale(m, asked[e].pid, owed[e])
          /\ owed' = [owed EXCEPT ![e] = 0]
          /\ doubt' = IF m.own THEN doubt \ {e} ELSE doubt \cup {e}
          /\ Settle(e, Tail(stack[e]), TRUE) /\ UNCHANGED faults
    BY DEF Serve
  <1>2. Final(m)
    BY <1>1 DEF Final, IsPending, Stale
  <1>3. Tail(stack[e]) \in Seq(Message)
    BY <1>1, HarvestQueues
  <1>4. TypeOK'
    <2>1. owed' \in [Ecu -> 0..(MaxOwed - 1)] /\ doubt' \subseteq Ecu /\ faults' = faults
      BY <1>1, Bounds DEF RawInv, TypeOK
    <2>2. QED
      BY <1>1, <1>3, <2>1, SettleQueues DEF RawInv, TypeOK
  <1>5. e \notin doubt' => Debts(e)' <= owed'[e]
    <2>1. SUFFICES ASSUME e \notin doubt'
                   PROVE  Debts(e)' <= owed'[e]
      OBVIOUS
    <2>2. Tail(stack[e]) = <<>> /\ bus[e] = <<>>
      BY <1>1, <1>2, <2>1, HarvestQueues
    <2>3. Debts(e)' = Len(bus[e]) + 0
      BY <1>1, <1>3, <2>2, SettleQueues DEF Debts
    <2>4. owed'[e] = 0
      BY <1>1 DEF RawInv, TypeOK
    <2>5. QED
      BY <2>2, <2>3, <2>4
  <1>6. OneEcuOnly(e)
    BY <1>1, <1>3, SettleQueues DEF OneEcuOnly, RawInv, TypeOK
  <1>7. QED
    BY <1>1, <1>3, <1>4, <1>5, <1>6, SettleQueues, OneEcu DEF RawInv

\* A deadline turns the request that waits into a debt.
LEMMA EndsKeeps ==
    ASSUME RawInv, NEW e \in Ecu, Expire(e) \/ ReturnPending(e)
    PROVE  RawInv'
  <1>1. Settle(e, <<>>, FALSE) /\ faults' \in 0..MaxFaults /\ <<>> \in Seq(Message)
    <2>1. Deadline(e) /\ Settle(e, <<>>, FALSE)
      BY DEF Expire, ReturnPending
    <2>2. faults' \in 0..MaxFaults
      BY <2>1, Bounds DEF Deadline, RawInv, TypeOK
    <2>3. QED
      BY <2>1, <2>2, EmptySeq
  <1>2. /\ bus[e] \in Seq(Request) /\ owed[e] \in 0..(MaxOwed - 1) /\ owed[e] \in Nat
        /\ stack[e] = <<>>
    <2>1. owed[e] \in 0..(MaxOwed - 1) /\ bus[e] \in Seq(Request)
      BY DEF RawInv, TypeOK
    <2>2. stack[e] = <<>>
      BY DEF Expire, ReturnPending, Deadline
    <2>3. QED
      BY <2>1, <2>2, Bounds
  <1>3. Abandon(owed[e]) \in 0..(MaxOwed - 1) /\ Abandon(owed[e]) \in Nat
    BY <1>2, LedgerTyped, Bounds
  <1>9. owed'[e] \in {0, Abandon(owed[e])} /\ owed' = [owed EXCEPT ![e] = owed'[e]]
    BY DEF Expire, ReturnPending, RawInv, TypeOK
  <1>4. TypeOK'
    <2>3. doubt' \subseteq Ecu
      BY DEF Expire, ReturnPending, RawInv, TypeOK
    <2>1. owed' \in [Ecu -> 0..(MaxOwed - 1)] /\ doubt' \subseteq Ecu
      BY <1>3, <1>9, <2>3, Bounds DEF RawInv, TypeOK
    <2>2. QED
      BY <1>1, <2>1, SettleQueues DEF RawInv, TypeOK
  <1>5. e \notin doubt' => Debts(e)' <= owed'[e]
    <2>1. SUFFICES ASSUME e \notin doubt'
                   PROVE  Debts(e)' <= owed'[e]
      OBVIOUS
    <2>2. Debts(e)' = Len(bus[e]) /\ Len(bus[e]) \in Nat
      <3>1. /\ Counted(bus'[e], GivenUp) = Len(bus[e]) /\ Len(bus[e]) \in Nat
            /\ Counted(stack'[e], LateReply) = 0
        BY <1>1, SettleQueues
      <3>2. QED
        BY <3>1 DEF Debts
    <2>3. CASE bus[e] = <<>>
      <3>1. owed'[e] \in Nat
        BY <1>3, <1>9
      <3>2. QED
        BY <2>2, <2>3, <3>1
    <2>4. CASE bus[e] # <<>>
      <3>1. Expire(e) /\ Abandon(owed[e]) # 0 /\ e \notin doubt
        BY <2>1, <2>4 DEF Expire, ReturnPending
      <3>2. owed'[e] = owed[e] + 1
        BY <1>2, <3>1 DEF Expire, Abandon, RawInv, TypeOK
      <3>3. Counted(bus[e], GivenUp) <= owed[e] /\ Counted(bus[e], GivenUp) \in Nat
        <4>1. Debts(e) <= owed[e] /\ Counted(stack[e], LateReply) = 0
          BY <1>2, <3>1, CountEmpty DEF RawInv, LedgerCovers
        <4>2. Counted(bus[e], GivenUp) \in Nat
          BY <1>2, CountBounds
        <4>3. QED
          BY <4>1, <4>2 DEF Debts
      <3>4. \A i \in DOMAIN bus[e] : i # Len(bus[e]) => bus[e][i] \in GivenUp
        BY <1>2 DEF RawInv, OwnIsLast, OwnLast, GivenUp
      <3>5. Len(bus[e]) <= Counted(bus[e], GivenUp) + 1
        BY <1>2, <3>4, CountAllButLast
      <3>6. QED
        BY <1>2, <2>2, <3>2, <3>3, <3>5
    <2>5. QED
      BY <2>3, <2>4
  <1>6. OneEcuOnly(e)
    BY <1>1, SettleQueues DEF Expire, ReturnPending, OneEcuOnly, RawInv, TypeOK
  <1>7. QED
    BY <1>1, <1>4, <1>5, <1>6, SettleQueues, OneEcu DEF RawInv

\* A new client, or a client given up, is owed nothing it could count: the ECUs
\* that still have something to send are in doubt.
LEMMA LinkKeeps ==
    ASSUME RawInv, LinkFails \/ Rebind
    PROVE  RawInv'
  <1>1. \A e \in Ecu : bus[e] \in Seq(Request) /\ stack[e] \in Seq(Message)
    BY DEF RawInv, TypeOK
  <1>2. /\ bus' = [e \in Ecu |-> Earlier(bus[e])] /\ asked' \in [Ecu -> Waiting \cup {Nothing}]
        /\ \A e \in Ecu : bus[e] # <<>> => e \in doubt'
    BY DEF LinkFails, Rebind, RawInv, TypeOK
  <1>3. \A e \in Ecu : /\ bus'[e] \in Seq(Request) /\ \A i \in DOMAIN bus'[e] : ~bus'[e][i].own
    BY <1>1, <1>2, EarlierRequests
  <1>4. bus' \in [Ecu -> Seq(Request)]
    BY <1>2, <1>3
  <1>5. \A e \in Ecu : bus[e] = <<>> => bus'[e] = <<>>
    BY <1>1, <1>2, EarlierRequests
  <1>6. CASE LinkFails
    <2>1. TypeOK'
      <3>1. DOMAIN todo' \subseteq Ecu /\ \A e \in DOMAIN todo' : todo'[e] \in Pid
        BY <1>6 DEF LinkFails, NoReads
      <3>2. QED
        BY <1>2, <1>4, <1>6, <3>1, Bounds, EmptySeq DEF LinkFails, RawInv, TypeOK
    <2>2. OwnIsLast'
      <3>1. ASSUME NEW e \in Ecu
            PROVE  OwnLast(e)'
        <4>1. stack'[e] = stack[e] /\ phase' = "down"
          BY <1>6 DEF LinkFails
        <4>2. QED
          BY <1>3, <1>5, <4>1 DEF RawInv, OwnIsLast, OwnLast
      <3>2. QED
        BY <3>1 DEF OwnIsLast
    <2>3. LedgerCovers'
      <3>1. ASSUME NEW e \in Ecu, e \notin doubt'
            PROVE  Debts(e)' <= owed'[e]
        <4>1. bus'[e] = bus[e] /\ stack'[e] = stack[e] /\ owed'[e] = owed[e] /\ e \notin doubt
          BY <1>2, <1>5, <1>6, <3>1 DEF LinkFails
        <4>2. QED
          BY <4>1 DEF Debts, RawInv, LedgerCovers
      <3>2. QED
        BY <3>1 DEF LedgerCovers
    <2>4. QED
      BY <2>1, <2>2, <2>3 DEF RawInv
  <1>7. CASE Rebind
    <2>1. /\ stack' = [e \in Ecu |-> <<>>] /\ owed' = [e \in Ecu |-> 0] /\ phase' = "opening"
          /\ todo' = Openings /\ doubt' \subseteq Ecu
          /\ UNCHANGED <<due, queue, cycleAnswered, unanswered, faults>>
      BY <1>7 DEF Rebind
    <2>2. TypeOK'
      <3>2. DOMAIN todo' \subseteq Ecu /\ \A e \in DOMAIN todo' : todo'[e] \in Pid
        BY <2>1, RawAssumption DEF Openings, Pid, Unechoed
      <3>3. stack' \in [Ecu -> Seq(Message)] /\ owed' \in [Ecu -> 0..(MaxOwed - 1)]
        BY <2>1, Bounds, EmptySeq
      <3>4. QED
        BY <1>2, <1>4, <2>1, <3>2, <3>3 DEF RawInv, TypeOK
    <2>3. OwnIsLast'
      BY <1>3, <2>1 DEF OwnIsLast, OwnLast
    <2>4. LedgerCovers'
      <3>1. ASSUME NEW e \in Ecu, e \notin doubt'
            PROVE  Debts(e)' <= owed'[e]
        <4>1. bus'[e] = <<>> /\ stack'[e] = <<>> /\ owed'[e] = 0
          BY <1>2, <1>5, <2>1, <3>1
        <4>2. Debts(e)' = Counted(<<>>, GivenUp) + Counted(<<>>, LateReply)
          BY <4>1 DEF Debts
        <4>3. QED
          BY <4>1, <4>2, CountEmpty
      <3>2. QED
        BY <3>1 DEF LedgerCovers
    <2>5. QED
      BY <2>2, <2>3, <2>4 DEF RawInv
  <1>8. QED
    BY <1>6, <1>7

Sent(e, kind) == [pid |-> Head(bus[e]).pid, kind |-> kind, own |-> Head(bus[e]).own]

Delivered(e, kind) ==
    /\ bus[e] \in Seq(Request) /\ bus[e] # <<>> /\ Len(bus[e]) \in Nat /\ 1 \in 1..Len(bus[e])
    /\ Head(bus[e]) \in Request /\ Sent(e, kind) \in Message
    /\ stack[e] \in Seq(Message) /\ stack'[e] = Append(stack[e], Sent(e, kind))
    /\ stack' \in [Ecu -> Seq(Message)]
    /\ \A f \in Ecu \ {e} : stack'[f] = stack[f]
    /\ Head(bus[e]).own => Len(bus[e]) = 1 /\ asked[e] # Nothing /\ stack[e] = <<>>
    /\ \A i \in DOMAIN stack[e] : stack[e][i].own => ~Final(stack[e][i])
    /\ Counted(bus[e], GivenUp)
         = Counted(Tail(bus[e]), GivenUp) + (IF Head(bus[e]).own THEN 0 ELSE 1)
    /\ Counted(stack'[e], LateReply)
         = Counted(stack[e], LateReply) + (IF ~Head(bus[e]).own /\ kind # "pending" THEN 1 ELSE 0)
    /\ Counted(Tail(bus[e]), GivenUp) \in Nat /\ Counted(stack[e], LateReply) \in Nat

\* What an ECU sends arrives behind what it sent before.
LEMMA DeliverQueues ==
    ASSUME RawInv, NEW e \in Ecu, NEW kind \in {"data", "nrc", "pending"}, Deliver(e, kind)
    PROVE  Delivered(e, kind)
  <1> DEFINE r == Head(bus[e])
             m == Sent(e, kind)
  <1>1. /\ bus[e] \in Seq(Request) /\ bus[e] # <<>> /\ stack[e] \in Seq(Message)
        /\ stack' = [stack EXCEPT ![e] = Append(@, m)]
        /\ asked[e] = Nothing \/ stack[e] = <<>>
    BY DEF Deliver, Harvested, Sent, RawInv, TypeOK
  <1>2. r \in Request /\ r = bus[e][1] /\ 1 \in DOMAIN bus[e] /\ Tail(bus[e]) \in Seq(Request)
        /\ Len(bus[e]) \in Nat /\ 1 \in 1..Len(bus[e])
    BY <1>1, HeadTailProperties
  <1>3. m \in Message
    BY <1>2 DEF Sent, Message, Request
  <1>4. stack'[e] = Append(stack[e], m) /\ Append(stack[e], m) \in Seq(Message)
    <2>1. Append(stack[e], m) \in Seq(Message)
      BY <1>1, <1>3, AppendProperties
    <2>2. QED
      BY <1>1, <2>1 DEF RawInv, TypeOK
  <1>5. stack' \in [Ecu -> Seq(Message)] /\ \A f \in Ecu \ {e} : stack'[f] = stack[f]
    BY <1>1, <1>4 DEF RawInv, TypeOK
  <1>6. ASSUME r.own
        PROVE  Len(bus[e]) = 1 /\ asked[e] # Nothing /\ stack[e] = <<>>
    BY <1>1, <1>2, <1>6 DEF RawInv, OwnIsLast, OwnLast
  <1>7. \A i \in DOMAIN stack[e] : stack[e][i].own => ~Final(stack[e][i])
    BY <1>1 DEF RawInv, OwnIsLast, OwnLast
  <1>8. Counted(bus[e], GivenUp) = Counted(Tail(bus[e]), GivenUp) + (IF r.own THEN 0 ELSE 1)
    <2>1. r \in GivenUp <=> ~r.own
      BY <1>2 DEF GivenUp
    <2>2. QED
      BY <1>1, <2>1, CountTail
  <1>9. Counted(stack'[e], LateReply)
            = Counted(stack[e], LateReply) + (IF ~r.own /\ kind # "pending" THEN 1 ELSE 0)
    <2>1. m \in LateReply <=> ~r.own /\ kind # "pending"
      BY <1>3 DEF Sent, LateReply, Final
    <2>2. QED
      BY <1>1, <1>3, <1>4, <2>1, CountAppend
  <1>10. Counted(Tail(bus[e]), GivenUp) \in Nat /\ Counted(stack[e], LateReply) \in Nat
    BY <1>1, <1>2, CountBounds
  <1>11. QED
    BY <1>1, <1>2, <1>3, <1>4, <1>5, <1>6, <1>7, <1>8, <1>9, <1>10 DEF Delivered

BusLeft(e) ==
    /\ bus'[e] = Tail(bus[e]) /\ bus' \in [Ecu -> Seq(Request)]
    /\ \A f \in Ecu \ {e} : bus'[f] = bus[f]
    /\ \A i \in DOMAIN bus'[e] : bus'[e][i].own => i = Len(bus'[e]) /\ asked[e] # Nothing
    /\ Len(bus[e]) = 1 => bus'[e] = <<>>

\* What is left on the bus of an ECU that sent or lost its oldest reply.
LEMMA BusTail ==
    ASSUME RawInv, NEW e \in Ecu, bus[e] # <<>>, bus' = [bus EXCEPT ![e] = Tail(@)]
    PROVE  BusLeft(e)
  <1>1. bus[e] \in Seq(Request) /\ bus'[e] = Tail(bus[e])
    BY DEF RawInv, TypeOK
  <1>2. /\ Tail(bus[e]) \in Seq(Request) /\ Len(Tail(bus[e])) = Len(bus[e]) - 1
        /\ DOMAIN bus[e] = 1..Len(bus[e]) /\ Len(bus[e]) \in Nat
    BY <1>1, HeadTailProperties
  <1>3. ASSUME NEW i \in DOMAIN Tail(bus[e]), Tail(bus[e])[i].own
        PROVE  i = Len(Tail(bus[e])) /\ asked[e] # Nothing
    <2>1. i \in Nat /\ i + 1 \in DOMAIN bus[e] /\ Tail(bus[e])[i] = bus[e][i + 1]
      BY <1>1, <1>2, HeadTailProperties
    <2>2. i + 1 = Len(bus[e]) /\ asked[e] # Nothing
      BY <1>3, <2>1 DEF RawInv, OwnIsLast, OwnLast
    <2>3. QED
      BY <1>2, <2>1, <2>2
  <1>4. bus' \in [Ecu -> Seq(Request)] /\ \A f \in Ecu \ {e} : bus'[f] = bus[f]
    BY <1>1, <1>2 DEF RawInv, TypeOK
  <1>5. ASSUME Len(bus[e]) = 1
        PROVE  Tail(bus[e]) = <<>>
    <2>1. Len(Tail(bus[e])) = 0
      BY <1>2, <1>5
    <2>2. QED
      BY <1>2, <2>1, EmptySeq
  <1>6. QED
    BY <1>1, <1>3, <1>4, <1>5 DEF BusLeft

\* An ECU that answers owes one reply less on the bus and one more on the stack.
LEMMA AnswersKeeps ==
    ASSUME RawInv, NEW e \in Ecu, Answers(e)
    PROVE  RawInv'
  <1> DEFINE r == Head(bus[e])
  <1>1. PICK kind \in {"data", "nrc"} : Deliver(e, kind)
    BY DEF Answers
  <1> DEFINE m == Sent(e, kind)
  <1>2. /\ bus' = [bus EXCEPT ![e] = Tail(@)] /\ kind # "pending"
        /\ UNCHANGED <<phase, todo, due, queue, asked, owed, cycleAnswered, unanswered, doubt, faults>>
    BY <1>1 DEF Answers, Deliver
  <1>9. Delivered(e, kind)
    BY <1>1, DeliverQueues
  <1>3. BusLeft(e)
    BY <1>2, <1>9, BusTail DEF Delivered
  <1>4. TypeOK'
    BY <1>2, <1>3, <1>9 DEF Delivered, BusLeft, RawInv, TypeOK
  <1>5. OwnLast(e)'
    <2>1. /\ stack[e] \in Seq(Message) /\ stack'[e] = Append(stack[e], m)
          /\ r.own => bus'[e] = <<>> /\ asked'[e] # Nothing /\ stack[e] = <<>>
          /\ \A i \in DOMAIN stack[e] : stack[e][i].own => ~Final(stack[e][i])
      BY <1>2, <1>3, <1>9 DEF Delivered, BusLeft
    <2>2. \A i \in DOMAIN stack'[e] :
            \/ i = Len(stack'[e]) /\ stack'[e][i].own = r.own
            \/ i \in DOMAIN stack[e] /\ stack'[e][i] = stack[e][i]
      BY <2>1 DEF Sent
    <2>3. ASSUME NEW i \in DOMAIN stack'[e], stack'[e][i].own
          PROVE  /\ asked'[e] # Nothing \/ phase' = "down"
                 /\ Final(stack'[e][i]) => i = Len(stack'[e]) /\ bus'[e] = <<>>
      <3>1. CASE i = Len(stack'[e]) /\ stack'[e][i].own = r.own
        BY <2>1, <2>3, <3>1
      <3>2. CASE i \in DOMAIN stack[e] /\ stack'[e][i] = stack[e][i]
        BY <1>2, <2>1, <2>3, <3>2 DEF RawInv, OwnIsLast, OwnLast
      <3>3. QED
        BY <2>2, <3>1, <3>2
    <2>4. \A i \in DOMAIN bus'[e] : bus'[e][i].own => i = Len(bus'[e]) /\ asked'[e] # Nothing
      BY <1>2, <1>3 DEF BusLeft
    <2>5. QED
      BY <2>3, <2>4 DEF OwnLast
  <1>6. e \notin doubt' => Debts(e)' <= owed'[e]
    <2>1. Debts(e)' = Debts(e)
      <3>1. /\ Counted(bus[e], GivenUp) = Counted(bus'[e], GivenUp) + (IF r.own THEN 0 ELSE 1)
            /\ Counted(stack'[e], LateReply)
                 = Counted(stack[e], LateReply) + (IF r.own THEN 0 ELSE 1)
            /\ Counted(bus'[e], GivenUp) \in Nat /\ Counted(stack[e], LateReply) \in Nat
        BY <1>2, <1>3, <1>9 DEF Delivered, BusLeft
      <3>2. QED
        BY <3>1 DEF Debts
    <2>2. QED
      BY <1>2, <2>1 DEF RawInv, LedgerCovers
  <1>7. OneEcuOnly(e)
    BY <1>2, <1>3, <1>9 DEF Delivered, BusLeft, OneEcuOnly
  <1>8. QED
    BY <1>2, <1>4, <1>5, <1>6, <1>7, OneEcu DEF RawInv

\* A ResponsePending leaves the reply it announces owed.
LEMMA AsksForTimeKeeps ==
    ASSUME RawInv, NEW e \in Ecu, AsksForTime(e)
    PROVE  RawInv'
  <1> DEFINE r == Head(bus[e])
             m == Sent(e, "pending")
  <1>1. /\ Deliver(e, "pending") /\ bus' = [bus EXCEPT ![e][1].acked = TRUE]
        /\ UNCHANGED <<phase, todo, due, queue, asked, owed, cycleAnswered, unanswered, doubt, faults>>
    BY DEF AsksForTime, Deliver
  <1>0. Delivered(e, "pending")
    BY <1>1, DeliverQueues
  <1>2. bus[e] \in Seq(Request) /\ bus[e] # <<>> /\ 1 \in 1..Len(bus[e])
    BY <1>0 DEF Delivered
  <1>3. /\ bus'[e] \in Seq(Request) /\ Len(bus'[e]) = Len(bus[e])
        /\ \A i \in DOMAIN bus[e] : bus'[e][i].own = bus[e][i].own
    <2>1. bus'[e] = [bus[e] EXCEPT ![1] = [bus[e][1] EXCEPT !.acked = TRUE]]
      BY <1>1 DEF RawInv, TypeOK
    <2>2. bus[e][1] \in Request
      BY <1>2
    <2>3. [bus[e][1] EXCEPT !.acked = TRUE] \in Request
          /\ [bus[e][1] EXCEPT !.acked = TRUE].own = bus[e][1].own
      BY <2>2 DEF Request
    <2>4. QED
      BY <1>2, <2>1, <2>3, ExceptSeq
  <1>4. bus' \in [Ecu -> Seq(Request)] /\ \A f \in Ecu \ {e} : bus'[f] = bus[f]
    BY <1>1, <1>3 DEF RawInv, TypeOK
  <1>5. TypeOK'
    BY <1>0, <1>1, <1>4 DEF Delivered, RawInv, TypeOK
  <1>6. OwnLast(e)'
    <2>1. /\ stack[e] \in Seq(Message) /\ stack'[e] = Append(stack[e], m)
          /\ r.own => asked'[e] # Nothing
          /\ \A i \in DOMAIN stack[e] : stack[e][i].own => ~Final(stack[e][i])
      BY <1>0, <1>1 DEF Delivered
    <2>2. \A i \in DOMAIN stack'[e] :
            \/ i = Len(stack'[e]) /\ stack'[e][i].own = r.own /\ ~Final(stack'[e][i])
            \/ i \in DOMAIN stack[e] /\ stack'[e][i] = stack[e][i]
      BY <2>1 DEF Sent, Final
    <2>3. ASSUME NEW i \in DOMAIN stack'[e], stack'[e][i].own
          PROVE  (asked'[e] # Nothing \/ phase' = "down") /\ ~Final(stack'[e][i])
      <3>1. CASE i = Len(stack'[e]) /\ stack'[e][i].own = r.own /\ ~Final(stack'[e][i])
        BY <2>1, <2>3, <3>1
      <3>2. CASE i \in DOMAIN stack[e] /\ stack'[e][i] = stack[e][i]
        BY <1>1, <2>1, <2>3, <3>2 DEF RawInv, OwnIsLast, OwnLast
      <3>3. QED
        BY <2>2, <3>1, <3>2
    <2>4. \A i \in DOMAIN bus'[e] : bus'[e][i].own => i = Len(bus'[e]) /\ asked'[e] # Nothing
      BY <1>1, <1>2, <1>3 DEF RawInv, OwnIsLast, OwnLast
    <2>5. QED
      BY <2>3, <2>4 DEF OwnLast
  <1>7. e \notin doubt' => Debts(e)' <= owed'[e]
    <2>1. \A i \in DOMAIN bus[e] : bus[e][i] \in GivenUp <=> bus'[e][i] \in GivenUp
      BY <1>2, <1>3 DEF GivenUp
    <2>2. Counted(bus'[e], GivenUp) = Counted(bus[e], GivenUp)
      BY <1>2, <1>3, <2>1, CountSame
    <2>3. Counted(stack'[e], LateReply) = Counted(stack[e], LateReply)
      BY <1>0, <1>1 DEF Delivered
    <2>4. QED
      BY <1>1, <2>2, <2>3 DEF Debts, RawInv, LedgerCovers
  <1>8. OneEcuOnly(e)
    BY <1>0, <1>1, <1>4 DEF Delivered, OneEcuOnly
  <1>9. QED
    BY <1>1, <1>5, <1>6, <1>7, <1>8, OneEcu DEF RawInv

\* A lost reply leaves the ledger counting too much, never too little.
LEMMA LosesKeeps ==
    ASSUME RawInv, NEW e \in Ecu, Loses(e)
    PROVE  RawInv'
  <1>1. /\ bus[e] # <<>> /\ bus' = [bus EXCEPT ![e] = Tail(@)] /\ faults' \in 0..MaxFaults
        /\ UNCHANGED <<phase, todo, due, queue, asked, stack, owed, cycleAnswered, unanswered, doubt>>
    BY Bounds DEF Loses, RawInv, TypeOK
  <1>9. BusLeft(e)
    BY <1>1, BusTail
  <1>2. TypeOK'
    BY <1>1, <1>9 DEF BusLeft, RawInv, TypeOK
  <1>3. OwnLast(e)'
    <2>1. OwnLast(e) /\ (bus[e] = <<>> => bus'[e] = <<>>)
      BY <1>1 DEF RawInv, OwnIsLast
    <2>2. stack'[e] = stack[e] /\ asked'[e] = asked[e] /\ phase' = phase
      BY <1>1
    <2>3. QED
      BY <1>9, <2>1, <2>2 DEF BusLeft, OwnLast
  <1>4. e \notin doubt' => Debts(e)' <= owed'[e]
    <2>1. SUFFICES ASSUME e \notin doubt'
                   PROVE  Debts(e)' <= owed'[e]
      OBVIOUS
    <2>2. Debts(e) <= owed[e] /\ owed'[e] = owed[e] /\ owed[e] \in Nat
      BY <1>1, <2>1, Bounds DEF RawInv, LedgerCovers, TypeOK
    <2>3. bus[e] \in Seq(Request) /\ stack[e] \in Seq(Message) /\ Tail(bus[e]) \in Seq(Request)
      BY <1>1, HeadTailProperties DEF RawInv, TypeOK
    <2>4. /\ Counted(bus[e], GivenUp)
                = Counted(bus'[e], GivenUp) + (IF Head(bus[e]) \in GivenUp THEN 1 ELSE 0)
          /\ Counted(bus'[e], GivenUp) \in Nat /\ Counted(stack'[e], LateReply) \in Nat
          /\ Counted(stack'[e], LateReply) = Counted(stack[e], LateReply)
      <3>1. bus'[e] = Tail(bus[e]) /\ stack'[e] = stack[e] /\ bus[e] # <<>>
        BY <1>1, <1>9 DEF BusLeft
      <3>2. Counted(bus[e], GivenUp)
                = Counted(Tail(bus[e]), GivenUp) + (IF Head(bus[e]) \in GivenUp THEN 1 ELSE 0)
        BY <2>3, <3>1, CountTail
      <3>3. Counted(Tail(bus[e]), GivenUp) \in Nat /\ Counted(stack[e], LateReply) \in Nat
        BY <2>3, CountBounds
      <3>4. QED
        BY <3>1, <3>2, <3>3
    <2>5. Debts(e)' <= Debts(e) /\ Debts(e) \in Nat /\ Debts(e)' \in Nat
      BY <2>4 DEF Debts
    <2>6. QED
      BY <2>2, <2>5
  <1>5. OneEcuOnly(e)
    BY <1>1, <1>9 DEF BusLeft, OneEcuOnly
  <1>6. QED
    BY <1>1, <1>2, <1>3, <1>4, <1>5, OneEcu DEF RawInv

----------------------------------------------------------------------------

\* The invariant holds at the start.
LEMMA RawStart == Init => RawInv
  <1> SUFFICES ASSUME Init
               PROVE  RawInv
    OBVIOUS
  <1>2. DeadLimit \in Nat
    BY RawAssumption
  <1>3. TypeOK
    <2>1. /\ queue \in [Ecu -> Seq(Planned)] /\ bus \in [Ecu -> Seq(Request)]
          /\ stack \in [Ecu -> Seq(Message)] /\ asked \in [Ecu -> Waiting \cup {Nothing}]
      BY EmptySeq DEF Init
    <2>2. owed \in [Ecu -> 0..(MaxOwed - 1)] /\ unanswered \in [Ecu -> 0..DeadLimit]
          /\ faults \in 0..MaxFaults
      BY <1>2, Bounds DEF Init
    <2>3. DOMAIN todo \subseteq Ecu /\ \A e \in DOMAIN todo : todo[e] \in Pid
      BY RawAssumption DEF Init, Openings, Pid, Unechoed
    <2>4. QED
      BY <2>1, <2>2, <2>3 DEF Init, TypeOK
  <1>4. OwnIsLast
    BY DEF Init, OwnIsLast, OwnLast
  <1>5. LedgerCovers
    <2>1. ASSUME NEW e \in Ecu
          PROVE  Debts(e) <= owed[e]
      <3>1. bus[e] = <<>> /\ stack[e] = <<>> /\ owed[e] = 0
        BY DEF Init
      <3>2. Debts(e) = Counted(<<>>, GivenUp) + Counted(<<>>, LateReply)
        BY <3>1 DEF Debts
      <3>3. QED
        BY <3>1, <3>2, CountEmpty
    <2>2. QED
      BY <2>1 DEF LedgerCovers
  <1>6. QED
    BY <1>3, <1>4, <1>5 DEF RawInv

\* The invariant is inductive.
LEMMA RawStep == RawInv /\ [Next]_vars => RawInv'
  <1> SUFFICES ASSUME RawInv, [Next]_vars
               PROVE  RawInv'
    OBVIOUS
  <1>1. CASE Monitor
    BY <1>1, MonitorKeeps, StartRoundKeeps, LinkKeeps DEF Monitor
  <1>2. CASE LinkFails
    BY <1>2, LinkKeeps
  <1>3. ASSUME NEW e \in Ecu, Client(e)
        PROVE  RawInv'
    BY <1>3, ReadKeeps, TakePendingKeeps, TakeStaleKeeps, ServeKeeps DEF Client
  <1>4. ASSUME NEW e \in Ecu, Ends(e)
        PROVE  RawInv'
    BY <1>4, EndsKeeps DEF Ends
  <1>5. ASSUME NEW e \in Ecu, Answers(e) \/ AsksForTime(e) \/ Loses(e)
        PROVE  RawInv'
    BY <1>5, AnswersKeeps, AsksForTimeKeeps, LosesKeeps
  <1>6. CASE UNCHANGED vars
    BY <1>6 DEF vars, RawInv, TypeOK, OwnIsLast, OwnLast, LedgerCovers, Debts
  <1>7. QED
    BY <1>1, <1>2, <1>3, <1>4, <1>5, <1>6 DEF Next

\* The parts hold together: none of them is inductive without the others.
THEOREM RawInvariant == Spec => []RawInv
  BY RawStart, RawStep, PTL DEF Spec

\* Types: in particular the ledger of an ECU stays below its ceiling
\* (_MAX_OWED_RESPONSES), whatever is abandoned, drained and discarded.
THEOREM TypeCorrect == Spec => []TypeOK
  BY RawInvariant, PTL DEF RawInv

\* The ledger counts at least every reply an ECU may still send to a request
\* that was given up, unless one of the four events voided it.
THEOREM LedgerNeverShort == Spec => []LedgerCovers
  BY RawInvariant, PTL DEF RawInv

\* The one step that settles a request with a message in the stack serves it.
LEMMA SettledByServe ==
    ASSUME RawInv, Next, NEW e \in Ecu, asked[e] # Nothing, asked'[e] = Nothing,
           phase' # "down", stack[e] # <<>>
    PROVE  Serve(e)
  <1>1. CASE StartWarmUp \/ StartPoll \/ EndPoll \/ Rebind \/ LinkFails
    BY <1>1 DEF StartWarmUp, StartPoll, EndPoll, Rebind, LinkFails
  <1>2. CASE StartRound
    BY <1>2 DEF StartRound, Idle
  <1>3. ASSUME NEW f \in Ecu, Read(f)
        PROVE  FALSE
    BY <1>3 DEF Read, Idle
  <1>4. ASSUME NEW f \in Ecu, TakePending(f)
        PROVE  FALSE
    <2>1. asked' = [asked EXCEPT ![f].acked = TRUE] /\ asked[f] \in Waiting
      BY <1>4 DEF TakePending, Harvest, RawInv, TypeOK
    <2>2. asked'[f] # Nothing
      BY <2>1 DEF Waiting, Nothing, RawInv, TypeOK
    <2>3. QED
      BY <2>1, <2>2 DEF RawInv, TypeOK
  <1>5. ASSUME NEW f \in Ecu, TakeStale(f) \/ Answers(f) \/ AsksForTime(f) \/ Loses(f)
        PROVE  FALSE
    BY <1>5 DEF TakeStale, Answers, AsksForTime, Deliver, Loses
  <1>6. ASSUME NEW f \in Ecu, Ends(f)
        PROVE  FALSE
    BY <1>6 DEF Ends, Expire, ReturnPending, Deadline, Settle, RawInv, TypeOK
  <1>7. ASSUME NEW f \in Ecu, Serve(f)
        PROVE  Serve(e)
    <2>1. asked' = [asked EXCEPT ![f] = Nothing]
      BY <1>7 DEF Serve, Settle
    <2>2. f = e
      BY <2>1 DEF RawInv, TypeOK
    <2>3. QED
      BY <1>7, <2>2
  <1>8. QED
    BY <1>1, <1>2, <1>3, <1>4, <1>5, <1>6, <1>7 DEF Next, Monitor, Client

\* What a poll or a read returns is the reply to its own request, whatever was
\* lost, late or asked again before: a reply to an earlier one would be a debt,
\* and nothing is served while a debt is on the ledger.
THEOREM ReturnsItsOwnReply == Spec => ServedIsOwn
  <1> DEFINE Own == \A e \in Ecu :
                        asked[e] # Nothing /\ asked'[e] = Nothing /\ phase' # "down" /\ stack[e] # <<>>
                        => Head(stack[e]).own \/ e \in doubt
  <1>1. ASSUME RawInv, [Next]_vars
        PROVE  [Own]_vars
    <2>1. CASE UNCHANGED vars
      BY <2>1
    <2>2. CASE Next
      <3>1. SUFFICES ASSUME NEW e \in Ecu, asked[e] # Nothing, asked'[e] = Nothing,
                            phase' # "down", stack[e] # <<>>, ~Head(stack[e]).own, e \notin doubt
                     PROVE  FALSE
        OBVIOUS
      <3>2. Serve(e)
        BY <1>1, <2>2, <3>1, SettledByServe
      <3>3. PICK m \in Message :
              Harvest(e, m) /\ ~IsPending(m, asked[e].pid) /\ ~Stale(m, asked[e].pid, owed[e])
        BY <3>2 DEF Serve
      <3>4. Final(m) /\ m = Head(stack[e])
        BY <3>3 DEF Final, IsPending, Stale, Harvest
      <3>5. m \in LateReply
        BY <3>1, <3>4 DEF LateReply
      <3>6. /\ Counted(stack[e], LateReply) = Counted(Tail(stack[e]), LateReply) + 1
            /\ Counted(bus[e], GivenUp) \in Nat /\ Counted(Tail(stack[e]), LateReply) \in Nat
            /\ owed[e] \in Nat
        BY <1>1, <3>3, <3>5, HarvestQueues
      <3>7. Debts(e) <= owed[e] /\ ~(owed[e] > 0)
        BY <1>1, <3>1, <3>3 DEF RawInv, LedgerCovers, Stale
      <3>8. QED
        BY <3>6, <3>7 DEF Debts
    <2>3. QED
      BY <1>1, <2>1, <2>2
  <1>2. QED
    BY <1>1, RawInvariant, PTL DEF Spec, ServedIsOwn

=============================================================================
